------------------------------ MODULE MCEventReport ------------------------------
(* Small instances of EventReport: one kind of event, one saving thread,   *)
(* one or two channels, and fewer numbers than the code's 256 and 16.      *)
EXTENDS EventReport, TLC

CONSTANTS e1, s1, c1, c2

OneErc == {e1}
OneSaver == {s1}
OneSaves == [s \in OneSaver |-> {e1}]
OneChannel == {c1}
TwoChannels == {c1, c2}
Symmetry == Permutations(TwoChannels)

Bounds(saves, flags, restarts) ==
  [c \in Causes |-> CASE c = "saves"    -> saves
                      [] c = "flags"    -> flags
                      [] c = "restarts" -> restarts
                      [] OTHER          -> 0]

OneEvent      == Bounds(1, 0, 0)
OneAndCrash   == Bounds(1, 0, 1)
ThreeEvents   == Bounds(3, 0, 0)
TwoAndCrash   == Bounds(2, 0, 1)
================================================================================
