------------------------------- MODULE MCFlowStat -------------------------------
(* ConnectionWork, one side at a time: "sampling" are two threads that ask  *)
(* the sampling program over one connection, with two descriptors to use;  *)
(* "flow" is FlowStat with one connection and the timer thread, months of  *)
(* two days, and bounds that name what may happen and how often.           *)
EXTENDS ConnectionWork

CONSTANTS worker, other_worker

VARIABLE which

samplingvars == <<FD, CONNECT_FLAG, desc, at, why, reconnected, recv_645_buf, began,
                  done, ACdate, alive, calls, faults, overlapped, strayed>>
all == <<vars, samplingvars, which>>

MCWorker == {worker}
MCThread == {worker, other_worker}
MCBound == [pieces |-> 2, cuts |-> 1, inits |-> 1, sets |-> 1]

ASSUME FlowAssumption

BothInit == Init /\ S!Init /\ which \in {"flow", "sampling"}

(* The sampling may end: the process by SIGPIPE, the model by its bounds.  *)
BothNext ==
  \/ which = "flow" /\ Next /\ UNCHANGED <<which, samplingvars>>
  \/ which = "sampling" /\ (S!Next \/ UNCHANGED samplingvars) /\ UNCHANGED <<which, vars>>

Both == BothInit /\ [][BothNext]_all
================================================================================
