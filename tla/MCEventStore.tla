------------------------------ MODULE MCEventStore ------------------------------
(* Small instances of EventStore.  The limits of the code (10 records of a *)
(* kind, counters up to 80) shrink to 2 and 3, so that a handful of saves  *)
(* reaches them.  Each Bound lets some causes occur and excludes the rest. *)
EXTENDS EventStore

CONSTANTS e1, e2, s1, s2

MCErc == {e1, e2}
OneErc == {e1}
OneSaver == {s1}
TwoSavers == {s1, s2}

OneSaves  == [s \in OneSaver |-> {e1}]
SameKind  == [s \in TwoSavers |-> {e1}]
OwnKinds  == [s \in TwoSavers |-> IF s = s1 THEN {e1} ELSE {e2}]

Bounds(saves, flags, clocksets, restarts, resets, failures) ==
  [c \in Causes |-> CASE c = "saves"     -> saves
                      [] c = "flags"     -> flags
                      [] c = "clocksets" -> clocksets
                      [] c = "restarts"  -> restarts
                      [] c = "resets"    -> resets
                      [] c = "failures"  -> failures]

Turbulent  == Bounds(4, 1, 1, 1, 1, 1)
TwoThreads == Bounds(4, 1, 0, 1, 1, 0)
OnlySaves  == Bounds(5, 0, 0, 0, 0, 0)
================================================================================
