----------------------------- MODULE EchoGuard -----------------------------
(***************************************************************************)
(* The registry of the engine's own writes (engine/io/recent_writes.py),   *)
(* who records in it (_apply_for_instance in engine/io/apply.py) and who   *)
(* asks it (the webhook routes, engine/routes/webhook.py).  Monday turns a *)
(* write of the engine into a webhook as it does an operator's edit, some  *)
(* time later; the registry is to tell them apart by item, column and      *)
(* time.  A webhook reads the registry and leaves it as it is, and one for *)
(* any column of any item may come at any moment: the properties say what  *)
(* the registry would answer it.                                           *)
(*                                                                         *)
(* An item stands for its (board, pulse) pair.  A lock makes each call of  *)
(* the registry one step.                                                  *)
(***************************************************************************)
EXTENDS Naturals, FiniteSets

CONSTANTS
  Items, OldItems,   \* items, those on the boards at the start
  Columns, NoColumn, \* columns; a webhook without columnId
  Ttl,               \* echo_write_ttl_seconds
  MaxEntries,        \* _MAX_ENTRIES
  MaxTime, MaxWrites \* bounds

ASSUME Assumptions ==
  /\ OldItems \subseteq Items
  /\ Ttl \in Nat /\ MaxEntries \in Nat /\ MaxTime \in Nat

VARIABLES
  clock,
  entries,   \* _entries: item -> deadline and columns
  items,     \* items on the boards
  unread,    \* those Monday created for the engine, the reply not yet read
  log        \* history: the engine's writes to items the registry has not
             \* been made to forget

vars == <<clock, entries, items, unread, log>>

\* column_ids = None (a creation) matches every webhook on the item, those
\* without a column included.
Everything == Columns \cup {NoColumn}
Scopes     == (SUBSET Columns) \ {{}}
Room       == Cardinality(log) + Cardinality(unread) < MaxWrites
-----------------------------------------------------------------------------
(***************************************************************************)
(* recent_writes.py                                                        *)
(***************************************************************************)
Fresh == {i \in DOMAIN entries : entries[i].expires > clock}

\* _prune_locked may leave the entries K.  Which of several with the same
\* deadline go (the first recorded) is left open.
Kept_all(K) == K = Fresh
Kept(K) ==
  /\ Cardinality(K) = IF Cardinality(Fresh) > MaxEntries THEN MaxEntries
                                                         ELSE Cardinality(Fresh)
  /\ \A i \in K, j \in Fresh \ K : entries[i].expires >= entries[j].expires

\* record_write makes a new entry, or merges with what the pruning kept: the
\* columns of both, and the later deadline, which is always the new one.
Merged_replaced(K, i, C) == [expires |-> clock + Ttl, columns |-> C]
Merged_prolonged(K, i, C) ==
  [expires |-> (IF i \in K THEN entries[i].expires ELSE clock) + Ttl,
   columns |-> C \cup (IF i \in K THEN entries[i].columns ELSE {})]
Merged_stale(K, i, C) ==
  [expires |-> clock + Ttl,
   columns |-> C \cup (IF i \in DOMAIN entries THEN entries[i].columns ELSE {})]
Merged(K, i, C) ==
  [expires |-> clock + Ttl,
   columns |-> C \cup (IF i \in K THEN entries[i].columns ELSE {})]

\* record_write; what the bound evicts is forgotten by the log, too.
RecordWrite(i, C) ==
  \E K \in SUBSET Fresh :
    /\ Kept(K)
    /\ entries' = [j \in K \cup {i} |-> IF j = i THEN Merged(K, i, C) ELSE entries[j]]
    /\ log' = {r \in log : r.item \notin Fresh \ K}
                \cup {[item |-> i, columns |-> C, at |-> clock]}

\* is_engine_echo
IsEngineEcho(i, c) ==
  i \in DOMAIN entries /\ entries[i].expires > clock /\ c \in entries[i].columns
-----------------------------------------------------------------------------
(***************************************************************************)
(* The engine's writes.                                                    *)
(***************************************************************************)
Init ==
  /\ clock = 0 /\ entries = [i \in {} |-> 0]
  /\ items = OldItems /\ unread = {} /\ log = {}

Tick ==
  /\ clock < MaxTime /\ clock' = clock + 1
  /\ UNCHANGED <<entries, items, unread, log>>

\* _apply_for_instance sends an update, and records it before: from here on
\* Monday may report it.
SendUpdate(i, C) ==
  /\ Room /\ i \in items \ unread
  /\ RecordWrite(i, C)
  /\ UNCHANGED <<clock, items, unread>>

\* Monday runs a create, and may report it before the engine knows the id.
RunCreate(i) ==
  /\ Room /\ i \notin items
  /\ items' = items \cup {i} /\ unread' = unread \cup {i}
  /\ UNCHANGED <<clock, entries, log>>

\* The reply is read and the new item recorded, or it is lost.
ReadReply(i) ==
  /\ unread' = unread \ {i}
  /\ RecordWrite(i, Everything)
  /\ UNCHANGED <<clock, items>>
LoseReply(i) ==
  /\ unread' = unread \ {i}
  /\ UNCHANGED <<clock, entries, items, log>>

\* The service restarts: the registry is in memory only.
Restart ==
  /\ DOMAIN entries # {} \/ unread # {}
  /\ entries' = [i \in {} |-> 0] /\ log' = {} /\ unread' = {}
  /\ UNCHANGED <<clock, items>>

Next ==
  \/ Tick \/ Restart
  \/ \E i \in Items, C \in Scopes : SendUpdate(i, C)
  \/ \E i \in Items : RunCreate(i)
  \/ \E i \in unread : ReadReply(i) \/ LoseReply(i)

Spec == Init /\ [][Next]_vars
-----------------------------------------------------------------------------
(***************************************************************************)
(* Properties.                                                             *)
(***************************************************************************)
Record == [item : Items, columns : (SUBSET Everything) \ {{}}, at : Nat]

\* What the registry and the history hold, and which items wait for a reply.
TypeOK ==
  /\ clock \in 0 .. MaxTime
  /\ DOMAIN entries \subseteq items
  /\ \A i \in DOMAIN entries :
       /\ entries[i].expires \in Nat /\ entries[i].expires <= clock + Ttl
       /\ entries[i].columns \subseteq Everything
  /\ unread \subseteq items \ DOMAIN entries /\ items \subseteq Items
  /\ log \subseteq Record

Records(i)   == {r \in log : r.item = i}
Covers(r, t) == r.at <= t /\ t < r.at + Ttl

\* A webhook is dropped only if the engine wrote that column of that item (or
\* created the item) and has not left the item alone for a whole TTL since.
\* So no edit of an item the engine does not write is ever dropped, nor one
\* later than a TTL after its last write, nor one after a restart.
DroppedInOneBurst ==
  \A i \in Items, c \in Everything : IsEngineEcho(i, c) =>
    \E r \in Records(i) : /\ c \in r.columns
                          /\ \A t \in r.at .. clock : \E q \in Records(i) : Covers(q, t)

\* An engine write reported within the TTL is dropped, whatever the engine
\* wrote to the item before and after, unless the bound pushed the item out.
\* A create counts from when the reply with its id is read: a webhook that
\* Monday sends before that is not an echo to the code.
EchoesCaught ==
  \A r \in log, c \in Everything :
    c \in r.columns /\ Covers(r, clock) => IsEngineEcho(r.item, c)

\* The registry holds one entry more than the bound, at most.
Bounded == Cardinality(DOMAIN entries) <= MaxEntries + 1
=============================================================================
