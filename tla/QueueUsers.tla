------------------------------- MODULE QueueUsers -------------------------------
(***************************************************************************)
(* The event queue and those who use it: the ring as one thread sees it    *)
(* (EventQueue), the ring as several threads use it without a lock         *)
(* (QueueThreads), and the detectors of one sampling chip whose event bits *)
(* would become events (AcEvents).  The three have their own variables.    *)
(***************************************************************************)
EXTENDS EventQueue

CONSTANTS
  Thread, ThreadEvent, MaxDrift,
  RingSize,  \* the slots of the ring that the threads share
  Measured, Watched, TIME, BYTE, NO_VOLTAGE_U, NO_VOLTAGE_I, LOW_VOLTAGE_U,
  LOW_VOLTAGE_I, OVER_VOLTAGE_U, NO_PHSREGPQ_U, NO_PHSREGPQ_I, START_U, START_I,
  RATED_I, PHSREGPQ_ERR, CURRENT_PCT, VOLTAGE_PCT

ASSUME RingAssumption == RingSize \in Nat /\ RingSize >= 2

(* The seconds of a detector, the phase and the kind it is, and readings.  *)
PerPhase == [{"A", "B", "C"} -> Int]
ASSUME DetectorAssumption ==
  /\ BYTE \in Nat \ {0}
  /\ TIME \in [DOMAIN TIME -> Nat]
  /\ Watched \subseteq Seq({"A", "B", "C", "ABC"} \X DOMAIN TIME)
  /\ Measured \subseteq [U : PerPhase, I : PerPhase, Y : PerPhase, PhSregpq : PerPhase]
  /\ Measured # {} /\ OVER_VOLTAGE_U \in Int

VARIABLES
  tdata, tfront, trear, tcount, pc, reg, overlapped,
  watched, now, at, ev, flag, seconds, held, stale

T == INSTANCE QueueThreads
       WITH Event <- ThreadEvent, QUEUEMAXSIZE <- RingSize,
            data <- tdata, front <- tfront, rear <- trear, count <- tcount
A == INSTANCE AcEvents WITH count <- seconds

(* Calls of different threads that never overlap leave the counter exact.  *)
CountExactWithoutOverlap == T!CountExactWithoutOverlap

(* A disturbance shorter than its TIME changes no event bit of the chip.   *)
ChangedAfterTime == A!ChangedAfterTime
=================================================================================
