-------------------------- MODULE EchoGuardProofs --------------------------
(***************************************************************************)
(* What the registry of EchoGuard answers, for every set of items and      *)
(* columns, every deadline and every bound on its size.                    *)
(***************************************************************************)
EXTENDS EchoGuard, FiniteSetTheorems, TLAPS

\* The columns of an entry go back to writes that were never a deadline apart
\* from there to the entry's own.
Unbroken(i, r) ==
  \A t \in r.at .. entries[i].expires - 1 : \E q \in Records(i) : Covers(q, t)
Burst ==
  \A i \in DOMAIN entries : \A c \in entries[i].columns :
    \E r \in Records(i) : c \in r.columns /\ Unbroken(i, r)

\* A write that the registry was not made to forget is in its entry while it
\* is live.
Remembered ==
  \A r \in log : clock < r.at + Ttl =>
    /\ r.item \in DOMAIN entries
    /\ r.columns \subseteq entries[r.item].columns
    /\ r.at + Ttl <= entries[r.item].expires

Past == \A r \in log : r.at <= clock
Size == IsFiniteSet(DOMAIN entries) /\ Bounded

IInv == TypeOK /\ Past /\ Burst /\ Remembered /\ Size

\* The set K that pruning keeps, the entries of a record, and the log.
RecordStep(K, i, C) ==
  /\ Kept(K)
  /\ entries' = [j \in K \cup {i} |-> IF j = i THEN Merged(K, i, C) ELSE entries[j]]
  /\ log' = {r \in log : r.item \notin Fresh \ K}
              \cup {[item |-> i, columns |-> C, at |-> clock]}

LEMMA InitInv == Init => IInv
<1> SUFFICES ASSUME Init PROVE IInv
  OBVIOUS
<1>1. DOMAIN entries = {} /\ log = {} /\ clock = 0
  BY DEF Init
<1>2. TypeOK
  BY <1>1, Assumptions DEF Init, TypeOK
<1>3. Past /\ Burst /\ Remembered
  BY <1>1 DEF Past, Burst, Remembered
<1>4. Size
  BY <1>1, FS_EmptySet, Assumptions DEF Size, Bounded
<1> QED
  BY <1>2, <1>3, <1>4 DEF IInv

\* Pruning leaves no more than the bound, and a record adds one entry.
LEMMA RecordKeepsSize ==
  ASSUME IInv, NEW K \in SUBSET Fresh, NEW i \in Items, NEW C,
         RecordStep(K, i, C)
  PROVE  Size'
<1>1. IsFiniteSet(DOMAIN entries)
  BY DEF IInv, Size
<1>2. IsFiniteSet(Fresh) /\ Cardinality(Fresh) \in Nat
  BY <1>1, FS_Subset, FS_CardinalityType DEF Fresh
<1>3. IsFiniteSet(K) /\ Cardinality(K) \in Nat
  BY <1>2, FS_Subset, FS_CardinalityType
<1>4. Cardinality(K) <= MaxEntries
  BY <1>2, Assumptions DEF RecordStep, Kept
<1>5. DOMAIN entries' = K \cup {i}
  BY DEF RecordStep
<1>6. /\ IsFiniteSet(K \cup {i})
      /\ Cardinality(K \cup {i}) <= MaxEntries + 1
  <2>1. /\ IsFiniteSet(K \cup {i})
        /\ Cardinality(K \cup {i}) = IF i \in K THEN Cardinality(K)
                                                ELSE Cardinality(K) + 1
    BY <1>3, FS_AddElement, Zenon
  <2> QED
    BY <1>3, <1>4, <2>1, Assumptions
<1> QED
  BY <1>5, <1>6 DEF Size, Bounded

LEMMA RecordKeepsType ==
  ASSUME IInv, NEW K \in SUBSET Fresh, NEW i \in items, NEW C \in SUBSET Everything,
         C # {}, RecordStep(K, i, C), UNCHANGED <<clock, items>>,
         unread' \subseteq unread \ {i}
  PROVE  TypeOK' /\ Past'
<1>1. TypeOK /\ Past /\ clock \in Nat
  BY Assumptions DEF IInv, TypeOK
<1>2. DOMAIN entries' = K \cup {i} /\ K \subseteq DOMAIN entries
  BY DEF RecordStep, Fresh
<1>3. \A j \in DOMAIN entries' :
         /\ entries'[j].expires \in Nat /\ entries'[j].expires <= clock + Ttl
         /\ entries'[j].columns \subseteq Everything
  <2> TAKE j \in DOMAIN entries'
  <2>1. CASE j = i
    BY <1>1, <1>2, <2>1, Assumptions DEF RecordStep, Merged, TypeOK
  <2>2. CASE j # i
    BY <1>1, <1>2, <2>2 DEF RecordStep, TypeOK
  <2> QED
    BY <2>1, <2>2
<1>4. \A r \in log' : r \in log \/ r = [item |-> i, columns |-> C, at |-> clock]
  BY DEF RecordStep
<1>5. log' \subseteq Record /\ Past'
  BY <1>1, <1>4 DEF TypeOK, Record, Past
<1>6. unread' \subseteq items' \ DOMAIN entries'
  BY <1>1, <1>2 DEF TypeOK
<1> QED
  BY <1>1, <1>2, <1>3, <1>5, <1>6 DEF TypeOK

LEMMA RecordKeepsRemembered ==
  ASSUME IInv, NEW K \in SUBSET Fresh, NEW i \in items, NEW C \in SUBSET Everything,
         RecordStep(K, i, C), UNCHANGED clock
  PROVE  Remembered'
<1>1. TypeOK /\ Past /\ Remembered /\ clock \in Nat
  BY Assumptions DEF IInv, TypeOK
<1>2. DOMAIN entries' = K \cup {i}
  BY DEF RecordStep
<1> SUFFICES ASSUME NEW r \in log', clock < r.at + Ttl
             PROVE  /\ r.item \in DOMAIN entries'
                    /\ r.columns \subseteq entries'[r.item].columns
                    /\ r.at + Ttl <= entries'[r.item].expires
  BY DEF Remembered
<1>3. CASE r = [item |-> i, columns |-> C, at |-> clock]
  BY <1>1, <1>2, <1>3, Assumptions DEF RecordStep, Merged
<1>4. CASE r \in log /\ r.item \notin Fresh \ K
  <2>1. /\ r.item \in DOMAIN entries
        /\ r.columns \subseteq entries[r.item].columns
        /\ r.at + Ttl <= entries[r.item].expires
        /\ r.at \in Nat /\ r.at <= clock
    BY <1>1, <1>4 DEF Remembered, TypeOK, Record, Past
  <2>2. entries[r.item].expires \in Nat
    BY <1>1, <2>1 DEF TypeOK
  <2>3. r.item \in K
    BY <1>1, <1>4, <2>1, <2>2, Assumptions DEF Fresh
  <2>4. CASE r.item = i
    BY <1>1, <1>2, <2>1, <2>3, <2>4, Assumptions DEF RecordStep, Merged
  <2>5. CASE r.item # i
    BY <1>2, <2>1, <2>3, <2>5 DEF RecordStep
  <2> QED
    BY <2>4, <2>5
<1> QED
  BY <1>3, <1>4 DEF RecordStep

LEMMA RecordKeepsBurst ==
  ASSUME IInv, NEW K \in SUBSET Fresh, NEW i \in items, NEW C \in SUBSET Everything,
         RecordStep(K, i, C), UNCHANGED clock
  PROVE  Burst'
<1> DEFINE new == [item |-> i, columns |-> C, at |-> clock]
<1>1. TypeOK /\ Past /\ Burst /\ clock \in Nat
  BY Assumptions DEF IInv, TypeOK
<1>2. DOMAIN entries' = K \cup {i} /\ K \subseteq DOMAIN entries
  BY DEF RecordStep, Fresh
<1>3. new \in Records(i)'
  BY DEF RecordStep, Records
<1>4. \A j \in K : Records(j) \subseteq Records(j)'
  BY DEF RecordStep, Records
<1> SUFFICES ASSUME NEW j \in DOMAIN entries', NEW c \in entries'[j].columns
             PROVE  \E r \in Records(j)' : c \in r.columns /\ Unbroken(j, r)'
  BY DEF Burst
<1>5. CASE j # i
  <2>1. j \in K /\ entries'[j] = entries[j]
    BY <1>2, <1>5 DEF RecordStep
  <2>2. PICK r \in Records(j) : c \in r.columns /\ Unbroken(j, r)
    BY <1>1, <1>2, <2>1 DEF Burst
  <2>3. Unbroken(j, r)'
    BY <1>4, <2>1, <2>2 DEF Unbroken, Covers
  <2> QED
    BY <1>4, <2>1, <2>2, <2>3
<1>6. CASE j = i
  <2>1. entries'[i] = Merged(K, i, C) /\ entries'[i].expires = clock + Ttl
    BY <1>2 DEF RecordStep, Merged
  <2>2. /\ new.at = clock
        /\ \A t \in clock .. (clock + Ttl) - 1 : Covers(new, t)
    BY <1>1, Assumptions DEF Covers
  <2>3. CASE c \in C
    <3>1. \A t \in new.at .. entries'[i].expires - 1 :
             \E q \in Records(i)' : Covers(q, t)
      <4> HIDE DEF new
      <4>1. entries'[i].expires - 1 = (clock + Ttl) - 1
        BY <2>1
      <4>2. \A t \in new.at .. entries'[i].expires - 1 : t \in clock .. (clock + Ttl) - 1
        BY <2>2, <4>1
      <4> QED
        BY <1>3, <2>2, <4>2
    <3> QED
      BY <1>3, <1>6, <2>3, <3>1 DEF Unbroken, Covers
  <2>4. CASE c \notin C
    <3>1. i \in K /\ c \in entries[i].columns /\ entries[i].expires > clock
      BY <1>6, <2>1, <2>4 DEF Merged, Fresh
    <3>2. PICK r \in Records(i) : c \in r.columns /\ Unbroken(i, r)
      BY <1>1, <1>2, <3>1 DEF Burst
    <3>3. r.at \in Nat /\ r.at <= clock /\ entries[i].expires \in Nat
      BY <1>1, <1>2, <3>1, <3>2 DEF TypeOK, Record, Records, Past
    <3>4. ASSUME NEW t \in r.at .. (clock + Ttl) - 1
          PROVE  \E q \in Records(i)' : Covers(q, t)
      <4>1. CASE t < clock
        <5>1. t \in r.at .. entries[i].expires - 1
          BY <1>1, <3>1, <3>3, <4>1, Assumptions
        <5> QED
          BY <1>4, <3>1, <3>2, <5>1 DEF Unbroken
      <4>2. CASE ~(t < clock)
        <5>1. t \in clock .. (clock + Ttl) - 1
          BY <1>1, <3>3, <4>2, Assumptions
        <5> QED
          BY <1>3, <2>2, <5>1
      <4> QED
        BY <4>1, <4>2
    <3>5. Unbroken(i, r)'
      BY <2>1, <3>4 DEF Unbroken, Covers
    <3> QED
      BY <1>4, <1>6, <3>1, <3>2, <3>5
  <2> QED
    BY <2>3, <2>4
<1> QED
  BY <1>5, <1>6

LEMMA RecordKeepsInv ==
  ASSUME IInv, NEW i \in items, NEW C \in SUBSET Everything, C # {},
         RecordWrite(i, C), UNCHANGED <<clock, items>>,
         unread' \subseteq unread \ {i}
  PROVE  IInv'
<1>1. PICK K \in SUBSET Fresh : RecordStep(K, i, C)
  BY DEF RecordWrite, RecordStep
<1>2. i \in Items
  BY DEF IInv, TypeOK
<1>3. Size'
  BY <1>1, <1>2, RecordKeepsSize
<1>4. TypeOK' /\ Past'
  BY <1>1, RecordKeepsType
<1>5. Remembered' /\ Burst'
  BY <1>1, RecordKeepsRemembered, RecordKeepsBurst
<1> QED
  BY <1>3, <1>4, <1>5 DEF IInv

\* Time passing takes nothing from the registry; what is live only shrinks.
LEMMA TickKeepsInv == IInv /\ Tick => IInv'
<1> SUFFICES ASSUME IInv, Tick PROVE IInv'
  OBVIOUS
<1>1. /\ TypeOK /\ Past /\ Burst /\ Remembered /\ Size
      /\ clock \in Nat /\ clock' = clock + 1 /\ clock' \in 0 .. MaxTime
  BY Assumptions DEF IInv, TypeOK, Tick
<1>2. UNCHANGED <<entries, items, unread, log>>
  BY DEF Tick
<1>3. TypeOK'
  BY <1>1, <1>2, Assumptions DEF TypeOK
<1>4. Past'
  BY <1>1, <1>2 DEF Past, TypeOK, Record
<1>5. Burst'
  BY <1>1, <1>2 DEF Burst, Unbroken, Records, Covers
<1>6. Remembered'
  <2> SUFFICES ASSUME NEW r \in log, clock' < r.at + Ttl
               PROVE  /\ r.item \in DOMAIN entries
                      /\ r.columns \subseteq entries[r.item].columns
                      /\ r.at + Ttl <= entries[r.item].expires
    BY <1>2 DEF Remembered
  <2>1. r.at \in Nat
    BY <1>1 DEF TypeOK, Record
  <2>2. clock < r.at + Ttl
    BY <1>1, <2>1, Assumptions
  <2> QED
    BY <1>1, <2>2 DEF Remembered
<1>7. Size'
  BY <1>1, <1>2 DEF Size, Bounded
<1> QED
  BY <1>3, <1>4, <1>5, <1>6, <1>7 DEF IInv

\* A restart, and the steps that leave the registry alone.
LEMMA RestartKeepsInv == IInv /\ Restart => IInv'
<1> SUFFICES ASSUME IInv, Restart PROVE IInv'
  OBVIOUS
<1>1. DOMAIN entries' = {} /\ log' = {} /\ unread' = {} /\ UNCHANGED <<clock, items>>
  BY DEF Restart
<1>2. TypeOK'
  BY <1>1 DEF IInv, TypeOK
<1>3. Past' /\ Burst' /\ Remembered'
  BY <1>1 DEF Past, Burst, Remembered
<1>4. Size'
  BY <1>1, FS_EmptySet, Assumptions DEF Size, Bounded
<1> QED
  BY <1>2, <1>3, <1>4 DEF IInv

LEMMA OthersKeepInv ==
  ASSUME IInv, UNCHANGED <<clock, entries, log>>, TypeOK'
  PROVE  IInv'
<1>1. Past' /\ Burst' /\ Remembered' /\ Size'
  BY DEF IInv, Past, Burst, Unbroken, Records, Covers, Remembered, Size, Bounded
<1> QED
  BY <1>1 DEF IInv

LEMMA NextKeepsInv == IInv /\ [Next]_vars => IInv'
<1> SUFFICES ASSUME IInv, [Next]_vars PROVE IInv'
  OBVIOUS
<1>1. TypeOK
  BY DEF IInv
<1>2. CASE Tick
  BY <1>2, TickKeepsInv
<1>3. CASE Restart
  BY <1>3, RestartKeepsInv
<1>4. ASSUME NEW i \in Items, NEW C \in Scopes, SendUpdate(i, C)
      PROVE  IInv'
  <2>1. C \in SUBSET Everything /\ C # {}
    BY DEF Scopes, Everything
  <2>2. /\ i \in items /\ RecordWrite(i, C) /\ UNCHANGED <<clock, items>>
        /\ unread' \subseteq unread \ {i}
    BY <1>4 DEF SendUpdate
  <2> QED
    BY <2>1, <2>2, RecordKeepsInv
<1>5. ASSUME NEW i \in Items, RunCreate(i)
      PROVE  IInv'
  <2>1. TypeOK'
    BY <1>1, <1>5 DEF RunCreate, TypeOK
  <2> QED
    BY <1>5, <2>1, OthersKeepInv DEF RunCreate
<1>6. ASSUME NEW i \in unread, ReadReply(i)
      PROVE  IInv'
  <2>1. Everything \in SUBSET Everything /\ Everything # {} /\ i \in items
    BY <1>1 DEF Everything, TypeOK
  <2>2. /\ RecordWrite(i, Everything) /\ UNCHANGED <<clock, items>>
        /\ unread' \subseteq unread \ {i}
    BY <1>6 DEF ReadReply
  <2> QED
    BY <2>1, <2>2, RecordKeepsInv
<1>7. ASSUME NEW i \in unread, LoseReply(i)
      PROVE  IInv'
  <2>1. TypeOK'
    BY <1>1, <1>7 DEF LoseReply, TypeOK
  <2> QED
    BY <1>7, <2>1, OthersKeepInv DEF LoseReply
<1>8. CASE UNCHANGED vars
  <2>1. TypeOK'
    BY <1>1, <1>8 DEF vars, TypeOK
  <2> QED
    BY <1>8, <2>1, OthersKeepInv DEF vars
<1> QED
  BY <1>2, <1>3, <1>4, <1>5, <1>6, <1>7, <1>8 DEF Next

\* IInv is an invariant of the registry.
THEOREM RegistryInvariant == Spec => []IInv
  BY InitInv, NextKeepsInv, PTL DEF Spec

\* The type invariant holds for every set of items and columns.
THEOREM RegistryTypeCorrect == Spec => []TypeOK
<1>1. IInv => TypeOK
  BY DEF IInv
<1> QED
  BY <1>1, RegistryInvariant, PTL

\* An edit is dropped only within a burst of the engine's own writes to the
\* item, one of which wrote the column; so never on an item that it does not
\* write, nor a TTL after its last write.
THEOREM DroppedInOneBurstAlways == Spec => []DroppedInOneBurst
<1>1. IInv => DroppedInOneBurst
  <2> SUFFICES ASSUME IInv, NEW i \in Items, NEW c \in Everything,
                      IsEngineEcho(i, c)
               PROVE  \E r \in Records(i) :
                        /\ c \in r.columns
                        /\ \A t \in r.at .. clock : \E q \in Records(i) : Covers(q, t)
    BY DEF DroppedInOneBurst
  <2>1. /\ i \in DOMAIN entries /\ c \in entries[i].columns
        /\ entries[i].expires > clock /\ entries[i].expires \in Nat /\ clock \in Nat
    BY Assumptions DEF IsEngineEcho, IInv, TypeOK
  <2>2. PICK r \in Records(i) : c \in r.columns /\ Unbroken(i, r)
    BY <2>1 DEF IInv, Burst
  <2>3. r.at \in Nat
    BY <2>2 DEF IInv, TypeOK, Record, Records
  <2>4. \A t \in r.at .. clock : t \in r.at .. entries[i].expires - 1
    BY <2>1, <2>3
  <2> QED
    BY <2>2, <2>4 DEF Unbroken
<1> QED
  BY <1>1, RegistryInvariant, PTL

\* An echo that arrives within the TTL is dropped, unless the bound on the
\* registry evicted its item or a restart emptied it.
THEOREM EchoesCaughtAlways == Spec => []EchoesCaught
<1>1. IInv => EchoesCaught
  <2> SUFFICES ASSUME IInv, NEW r \in log, NEW c \in Everything,
                      c \in r.columns, Covers(r, clock)
               PROVE  IsEngineEcho(r.item, c)
    BY DEF EchoesCaught
  <2>1. /\ clock < r.at + Ttl /\ clock \in Nat /\ r.at \in Nat
    BY Assumptions DEF Covers, IInv, TypeOK, Record
  <2>2. /\ r.item \in DOMAIN entries
        /\ r.columns \subseteq entries[r.item].columns
        /\ r.at + Ttl <= entries[r.item].expires
    BY <2>1 DEF IInv, Remembered
  <2>3. entries[r.item].expires \in Nat
    BY <2>2 DEF IInv, TypeOK
  <2>4. entries[r.item].expires > clock
    BY <2>1, <2>2, <2>3, Assumptions
  <2> QED
    BY <2>2, <2>4 DEF IsEngineEcho
<1> QED
  BY <1>1, RegistryInvariant, PTL

\* The registry never holds more than one entry over the bound.
THEOREM BoundedAlways == Spec => []Bounded
<1>1. IInv => Bounded
  BY DEF IInv, Size
<1> QED
  BY <1>1, RegistryInvariant, PTL
=============================================================================
