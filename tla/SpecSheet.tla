------------------------------ MODULE SpecSheet ------------------------------
(***************************************************************************)
(* From the spec sheet of a Production Schedule item to an order           *)
(* (engine/core/spec_sheet.py, engine/io/spec_sheet_io.py).  A sheet is a  *)
(* record [route, product, index, flavors]; flavors is a sequence, each    *)
(* entry the sequence of its packaging types, as the form spells them.     *)
(* What an order only carries along (quantities, mg, names) is left out.   *)
(***************************************************************************)
EXTENDS Naturals, Sequences

CONSTANTS
  Blank,       \* no text in a cell
  Malformed    \* text that is not JSON, or breaks the schema

\* ROUTE_RULES: should_schedule and include_press.
PressRoutes   == {"Manufacturing", "Manufacturing + Kitting",
                  "Keep for Kitting", "Ship Bulk"}
NoPressRoutes == {"Kitting Only"}
Route(sheet)  == IF sheet.route = "" THEN "Manufacturing + Kitting" ELSE sheet.route
ShouldSchedule(sheet) == Route(sheet) \in PressRoutes \cup NoPressRoutes
IncludePress_missing(sheet) == sheet.route \in PressRoutes
IncludePress(sheet) == Route(sheet) \in PressRoutes

\* The spellings of a container group: any case, singular or plural.
Spellings ==
  [Clamshell |-> {"Clamshell", "clamshells"}, Sachet |-> {"Sachet", "SACHETS"},
   Blister   |-> {"Blister", "blisters"},     Bottle |-> {"Bottle", "bottles"}]
IsPackaging(name) == \E g \in DOMAIN Spellings : name \in Spellings[g]
Group(name) == CHOOSE g \in DOMAIN Spellings : name \in Spellings[g]

\* A long-text cell has its content in text or, now and then, in value.
PayloadText(cell) == IF cell.text # Blank THEN cell.text ELSE cell.value

\* SpecSheetPayload, of which every field has this type once it is parsed, or
\* a cell from which none can be made.
Sheets == [route : STRING, product : STRING, index : Nat, flavors : Seq(Seq(STRING))]
            \cup {Blank, Malformed}

\* The exception that ends ingestion, the first that applies; "none" if an
\* order is built.
Refusal(sheet) ==
  IF sheet = Blank THEN "SpecSheetPayloadAbsent" ELSE
  IF sheet = Malformed THEN "SpecSheetParseError" ELSE
  IF ~ShouldSchedule(sheet) THEN "UnsupportedManufacturingRoute" ELSE
  IF sheet.product # "Tablets" THEN "UnsupportedProductType" ELSE
  IF sheet.index \notin DOMAIN sheet.flavors THEN "SpecSheetParseError" ELSE
  IF \E k \in DOMAIN sheet.flavors[sheet.index] :
       ~IsPackaging(sheet.flavors[sheet.index][k])
  THEN "UnknownPackagingType" ELSE "none"
Accepted(sheet) == Refusal(sheet) = "none"

\* ScheduleNewOrder, for an accepted sheet: without a breakdown there are no
\* slices, whatever packaging type the header of the sheet names.
BuildPackagingBreakdown_raw(sheet) == sheet.flavors[sheet.index]
BuildPackagingBreakdown(sheet) ==
  LET flavor == sheet.flavors[sheet.index]
  IN [k \in DOMAIN flavor |-> Group(flavor[k])]
BuildScheduleOrder(sheet) ==
  [press |-> IncludePress(sheet), slices |-> BuildPackagingBreakdown(sheet)]

\* ScheduleNewOrder, as far as its stages depend on it.
Orders == [press : BOOLEAN, slices : Seq(DOMAIN Spellings)]

\* The stages of an order's chain, those of _build_stage_specs under a recipe
\* with one press stage.
PressStage == <<0, "Pressing">>
Chain(order) ==
  (IF order.press THEN {PressStage} ELSE {})
    \cup {<<k, order.slices[k]>> : k \in DOMAIN order.slices}
=============================================================================
