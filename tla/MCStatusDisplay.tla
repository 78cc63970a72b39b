--------------------------- MODULE MCStatusDisplay --------------------------
(* StatusDisplay for TLC.  Three messages let a screen be left and come    *)
(* back; two may wait at a time.  A message has what its screen needs,     *)
(* with or without the overwriting text that says that nobody transmits,   *)
(* or lacks the elements the scanner leaves out when it has no name.       *)
EXTENDS StatusDisplay

AllElementSets == {Elements, Elements \ {"OverWrite"},
                   Elements \ {"OverWrite", "UnitID", "Department"}}

(* Each message changes every hold the one before it may have had.         *)
AllHoldSets == {{"System_Hold"}, Holds \ {"System_Hold"}}
=============================================================================
