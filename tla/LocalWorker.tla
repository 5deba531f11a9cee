------------------------------- MODULE LocalWorker -------------------------------
(***************************************************************************)
(* What local_worker does: it ticks the timer list (TimerList), and one of *)
(* the timers polls the TA module (TaMonitor).  Beside them the other      *)
(* requests to the same chips (EsamCommands), which nothing calls yet.     *)
(***************************************************************************)
EXTENDS TaMonitor

CONSTANTS
  Address, NULL, MAX_TIMER_NUM, MaxLag, MaxSets, MaxBack, MaxConnects,
  Status, Random, Words,
  MaxSwitches  \* bound: how often the state of the ESAM changes

VARIABLES
  list, timer, running, LedAppUt, added, sets, connects,
  function, step, arg, buf, chip, mainStatRandom4, BaudMac, result,
  status, switches, rate, rates

L == INSTANCE TimerList
E == INSTANCE EsamCommands WITH MaxChanges <- MaxSwitches

(* However many connections were made, one timer at most blinks the LED.   *)
OneBlinkTimer == L!OneBlinkTimer
(* A periodic timer of main stays on the list.                             *)
PeriodicKept == L!PeriodicKept
(* Every timer on the list is called back, or deleted, in the end.         *)
EveryTimerFires == L!EveryTimerFires
(* What a request to the ESAM or the module returns as a success is one    *)
(* consistent report of the documented layout.                             *)
GenuineAnswers == E!GenuineAnswers
=================================================================================
