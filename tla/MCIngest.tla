------------------------------ MODULE MCIngest ------------------------------
(***************************************************************************)
(* An item with the Blend Record made from it, and a record of the Gray    *)
(* Space flow, which has no item.  The sheets: a plain one, the            *)
(* default route, kitting, kitting without a breakdown, samples, a route   *)
(* and a product the engine does not know, a flavor and a packaging that   *)
(* do not exist, text that is no payload, and an item without a sheet.     *)
(***************************************************************************)
EXTENDS Ingest

CONSTANTS i1, b1, b2

Sheet(route, product, index, packs) ==
  [route |-> route, product |-> product, index |-> index, flavors |-> <<packs>>]

MCSource == [b \in Blends |-> IF b = b1 THEN i1 ELSE None]
MCCommitOrder == [press |-> TRUE, slices |-> <<"Bottle">>]
MCSheets ==
  {Sheet("Manufacturing", "Tablets", 1, <<"blisters">>),
   Sheet("", "Tablets", 1, <<>>),
   Sheet("Kitting Only", "Tablets", 1, <<"SACHETS", "Bottle">>),
   Sheet("Kitting Only", "Tablets", 1, <<>>),
   Sheet("Samples", "Tablets", 1, <<"Bottle">>),
   Sheet("Reprocess", "Tablets", 1, <<"Bottle">>),
   Sheet("Manufacturing", "Capsules", 1, <<"Bottle">>),
   Sheet("Manufacturing", "Tablets", 2, <<"Bottle">>),
   Sheet("Kitting Only", "Tablets", 1, <<"Tin">>),
   Malformed, Blank}
MCCells ==
  {[text |-> p, value |-> Blank] : p \in MCSheets}
    \cup {[text |-> Blank, value |-> Sheet("Ship Bulk", "Tablets", 1, <<"Bottle">>)]}
MCEdited == {c \in MCCells : c.text \notin {Blank, Malformed}
                              /\ c.text.flavors \in {<<<<"blisters">>>>, <<<<"SACHETS", "Bottle">>>>}}
=============================================================================
