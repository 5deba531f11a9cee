------------------------------ MODULE MCEventQueue ------------------------------
(* QueueUsers, one of the three at a time.  "serial": the ring as one thread *)
(* uses it, with real wrap-around: four slots, so three usable ones.        *)
(* "threads": two threads on a ring of three slots, so of at most two       *)
(* events, call by call in any interleaving of loads and stores.            *)
(* "sampling": the detectors of one sampling chip.                          *)
EXTENDS QueueUsers, AcReadings

CONSTANTS a, b, t1, t2

VARIABLE which

tvars == <<tdata, tfront, trear, tcount, pc, reg, overlapped>>
avars == <<watched, now, at, ev, flag, seconds, held, stale>>

MCEvent == {a, b}
MCThread == {t1, t2}
MCThreadEvent == {a}

BothInit ==
  /\ Init /\ T!Init /\ A!Init
  /\ which \in {"serial", "threads", "sampling"}
  /\ which = "sampling" \/ watched = CHOOSE w \in Groups : TRUE
BothNext ==
  \/ which = "serial" /\ Next /\ UNCHANGED <<which, tvars, avars>>
  \/ which = "threads" /\ T!Next /\ UNCHANGED <<which, vars, avars>>
  \/ which = "sampling" /\ A!Next /\ UNCHANGED <<which, vars, tvars>>

Both == BothInit /\ [][BothNext]_<<vars, tvars, avars, which>>
================================================================================
