------------------------------- MODULE AcReadings -------------------------------
(* Readings and groups of detectors for instances of AcEvents: volts, tenths *)
(* of amperes and degrees.  A group is watched alone, for the product of all *)
(* detectors is large and only the two of the order of phases look at others. *)
EXTENDS Sequences

Per(x, y, z) == [A |-> x, B |-> y, C |-> z]
Reading(u, i, y, p) == [U |-> u, I |-> i, Y |-> y, PhSregpq |-> p]

Readings ==
  {\* as it should be
   Reading(Per(220, 220, 220), Per(50, 50, 50), Per(0, 120, 240), Per(0, 0, 0)),
   \* lost, low and too high; too much current; B and C exchanged
   Reading(Per(100, 170, 300), Per(50, 50, 150), Per(0, 240, 120), Per(0, 0, 0)),
   \* no current in A, unbalanced; off the angle but in order
   Reading(Per(220, 220, 220), Per(0, 50, 120), Per(0, 100, 250), Per(30, 50, 200)),
   \* nothing, one phase only, and loaded phases without voltage
   Reading(Per(0, 0, 0), Per(0, 0, 0), Per(0, 0, 0), Per(0, 0, 0)),
   Reading(Per(0, 220, 0), Per(0, 50, 0), Per(0, 120, 240), Per(0, 0, 0)),
   Reading(Per(100, 100, 100), Per(50, 50, 50), Per(0, 120, 240), Per(0, 0, 0))}

NoPhases == << <<"A", "NO_PHSREGPQ">>, <<"B", "NO_PHSREGPQ">>, <<"C", "NO_PHSREGPQ">> >>

Groups ==
  {<< <<"A", "NO_VOLTAGE">>, <<"A", "LOW_VOLTAGE">> >>,
   << <<"B", "LOW_VOLTAGE">>, <<"C", "OVER_VOLTAGE">> >>,
   << <<"A", "NO_CURRENT">>, <<"C", "OVER_CURRENT">> >>,
   NoPhases \o << <<"ABC", "VOLTAGE_PHSREGPQ_ERR">> >>,
   NoPhases \o << <<"ABC", "CURRENT_PHSREGPQ_ERR">> >>,
   << <<"ABC", "ALL_NO_VOLTAGE">>, <<"ABC", "CURRENT_UNBALANCE">>,
      <<"ABC", "VOLTAGE_UNBALANCE">> >>}

Seconds ==
  [k \in {"NO_VOLTAGE", "LOW_VOLTAGE", "OVER_VOLTAGE", "NO_PHSREGPQ", "NO_CURRENT",
          "OVER_CURRENT", "ALL_NO_VOLTAGE", "VOLTAGE_PHSREGPQ_ERR",
          "CURRENT_PHSREGPQ_ERR", "CURRENT_UNBALANCE", "VOLTAGE_UNBALANCE"} |->
     IF k = "NO_PHSREGPQ" THEN 1 ELSE 2]
================================================================================
