------------------------------ MODULE MCLocalWorker ------------------------------
(* LocalWorker, one side at a time: "list" is the timer list, "ta" the     *)
(* watch on the current transformers that one of its timers runs.  Three   *)
(* pieces of memory, so that a list of three is over its limit of two and  *)
(* a deleted timer's memory is soon another timer's.  The module finds     *)
(* nothing, a short circuit of phase B, or no current in phase A.  "esam"  *)
(* are the other requests to the same chips.                               *)
EXTENDS LocalWorker

CONSTANTS a1, a2, a3, s1, s2, r1, r2, w1, w2

VARIABLE which

listvars == <<list, timer, running, LedAppUt, added, sets, connects>>
esamvars == <<function, step, arg, buf, chip, mainStatRandom4, BaudMac, result,
              status, switches, rate, rates>>

MCAddress == {a1, a2, a3}
MCStatus == {s1, s2}
MCRandom == {r1, r2}
MCWords == {w1, w2}

Finds(phases, none) ==
  [bits |-> [p \in {"A", "B", "C"} |-> IF p \in phases THEN {1} ELSE {}], none |-> none]
MCReadings == {Finds({}, {}), Finds({"B"}, {}), Finds({}, {"A"})}

ASSUME L!TimerAssumption

BothInit ==
  /\ Init /\ L!Init /\ E!Init
  /\ which \in {"list", "ta", "esam"}
  /\ which # "ta" => reading = Finds({}, {})
  /\ which # "esam" => arg = r1 /\ chip = s1 /\ status = s1 /\ rate = w1

ListStep(A) == which = "list" /\ A /\ UNCHANGED <<which, vars, esamvars>>
TaStep(A) == which = "ta" /\ A /\ UNCHANGED <<which, listvars, esamvars>>
EsamStep(A) == which = "esam" /\ A /\ UNCHANGED <<which, vars, listvars>>

BothNext == ListStep(L!Next) \/ TaStep(Next) \/ EsamStep(E!Next)

all == <<vars, listvars, esamvars, which>>

(* Each side's own fairness: local_worker goes on, and so does the clock.  *)
Both ==
  /\ BothInit /\ [][BothNext]_all
  /\ WF_all(ListStep(\E a \in MCAddress : L!Fire(a)))
  /\ WF_all(ListStep(L!Return))
  /\ WF_all(ListStep(L!Second))
  /\ WF_all(TaStep(local_worker))
================================================================================
