------------------------------- MODULE TimerList --------------------------------
(***************************************************************************)
(* The timer list of ListTimer.c over list.c, and the timers the program   *)
(* puts on it: the periodic check of EvevtCallBack, the TA module's poll,  *)
(* the blinking LED of a connection, and the one-shot that takes over new  *)
(* IP settings.  local_worker calls TimerTick again and again.             *)
(*                                                                         *)
(* A timer is a piece of memory that malloc returned; a freed one may be   *)
(* returned again.  out_time is kept as the seconds from the terminal's    *)
(* clock to it, so setting the clock moves every timer.  A callback takes  *)
(* time: the clock and the other threads go on while one is running.       *)
(***************************************************************************)
EXTENDS Integers, Sequences, SequencesExt

CONSTANTS
  Address,       \* the pieces of memory malloc may return
  NULL,
  MAX_TIMER_NUM, \* a list longer than this takes no further timer
  MaxLag,        \* bound: later than this a timer counts as just this late
  MaxSets,       \* bound: how often the station sets the clock back,
  MaxBack,       \*        and by how many seconds at most
  MaxConnects    \* bound: how often a connection is made

Kind == {"event", "ta", "led", "ip"}
(* timeout and period of the calls of add_timer.                           *)
Timeout == [event |-> 2, ta |-> 2, led |-> 1, ip |-> 5]
Period == [event |-> 6, ta |-> 10, led |-> 1, ip |-> 0]

(* What the module that gives the constants their values checks of them.   *)
TimerAssumption ==
  /\ NULL \notin Address \union [kind : Kind, due : Int]
  /\ {MAX_TIMER_NUM, MaxLag, MaxSets, MaxBack, MaxConnects} \subseteq Nat
  /\ MaxBack <= MaxLag

VARIABLES
  list,          \* ListTimer, from head to tail
  timer,         \* what each address holds: a timer, or NULL when it is free
  running,       \* the timer whose callback is running, or NULL
  LedAppUt,
  added,         \* the periodic timers that main has added
  sets, connects

vars == <<list, timer, running, LedAppUt, added, sets, connects>>
bounds == <<sets, connects>>

Init ==
  /\ list = <<>>
  /\ timer = [a \in Address |-> NULL]
  /\ running = NULL
  /\ LedAppUt = NULL
  /\ added = {}
  /\ sets = 0
  /\ connects = 0

Listed == Range(list)
Free == {a \in Address : timer[a] = NULL}

(* ListRemove: the first node that is the timer's is taken out, if any is. *)
Place(l, a) == CHOOSE i \in DOMAIN l : l[i] = a /\ \A j \in 1 .. i - 1 : l[j] # a
Without(l, a) == IF a \in Range(l) THEN RemoveAt(l, Place(l, a)) ELSE l
-----------------------------------------------------------------------------
(* load_timer: the tail of the list, unless the list is too long.          *)
load_timer_head(l, a) == IF Len(l) > MAX_TIMER_NUM THEN l ELSE <<a>> \o l
load_timer(l, a) == IF Len(l) > MAX_TIMER_NUM THEN l ELSE Append(l, a)

(* add_timer on a list l and a memory t, which has a free address.  A      *)
(* timer that load_timer refuses stays allocated.                          *)
add_timer(l, t, a, kind) ==
  /\ t[a] = NULL
  /\ timer' = [t EXCEPT ![a] = [kind |-> kind, due |-> Timeout[kind]]]
  /\ list' = load_timer(l, a)

(* main: check_evevt_time, and later TaModuleInit if the module answers.   *)
AddPeriodic(a, kind) ==
  /\ kind \in {"event", "ta"} \ added
  /\ kind = "ta" => "event" \in added
  /\ add_timer(list, timer, a, kind)
  /\ added' = added \union {kind}
  /\ UNCHANGED <<running, LedAppUt, bounds>>

(* AFN 04 F7: the new settings are taken over 5 seconds later.             *)
SetF7(a) ==
  /\ "event" \in added
  /\ add_timer(list, timer, a, "ip")
  /\ UNCHANGED <<running, LedAppUt, added, bounds>>

(* del_timer(&LedAppUt): the timer is freed if it is on the list.          *)
Deleted_none == {}
Deleted == {LedAppUt} \intersect Listed

(* LedAppFlicker, when a connection is made: the old timer is deleted, and *)
(* the new one may get the same memory.  Here it is not called while a     *)
(* callback runs: TimerTick would go on with a timer that was freed.       *)
LedAppFlicker(a) ==
  /\ "event" \in added
  /\ running = NULL
  /\ connects < MaxConnects
  /\ connects' = connects + 1
  /\ add_timer(IF Deleted = {} THEN list ELSE Without(list, LedAppUt),
               [x \in Address |-> IF x \in Deleted THEN NULL ELSE timer[x]], a, "led")
  /\ LedAppUt' = a
  /\ UNCHANGED <<running, added, sets>>
-----------------------------------------------------------------------------
Expired == {a \in Listed : timer[a].due <= 0}
IsFirst(a, set) == \A i, j \in DOMAIN list : list[i] = a /\ list[j] \in set => i <= j

(* TimerTick calls back the first expired timer of the list, and only it.  *)
Fire(a) ==
  /\ running = NULL
  /\ a \in Expired
  /\ IsFirst(a, Expired)
  /\ running' = a
  /\ UNCHANGED <<list, timer, LedAppUt, added, bounds>>

(* adjust_timer: off the list, and on again.                               *)
adjust_timer_tests_first(l, a) ==
  IF Len(l) > MAX_TIMER_NUM THEN Without(l, a) ELSE load_timer(Without(l, a), a)
adjust_timer(l, a) == load_timer(Without(l, a), a)

(* The callback returns: a periodic timer is due again in one period from  *)
(* now, a one-shot is deleted.                                             *)
Return ==
  /\ running # NULL
  /\ LET kind == timer[running].kind
     IN IF Period[kind] # 0
        THEN /\ list' = adjust_timer(list, running)
             /\ timer' = [timer EXCEPT ![running].due = Period[kind]]
        ELSE /\ list' = Without(list, running)
             /\ timer' = [timer EXCEPT ![running] = NULL]
  /\ running' = NULL
  /\ UNCHANGED <<LedAppUt, added, bounds>>
-----------------------------------------------------------------------------
Moved(d, by) == IF d + by < -MaxLag THEN -MaxLag ELSE d + by
MoveClock(by) ==
  timer' = [a \in Address |->
              IF a \in Listed THEN [timer[a] EXCEPT !.due = Moved(@, by)] ELSE timer[a]]

(* Time is wall clock time.                                                *)
Second ==
  /\ MoveClock(-1)
  /\ UNCHANGED <<list, running, LedAppUt, added, bounds>>

(* AFN 05 F31: the station sets the clock back.                            *)
SetBack ==
  /\ sets < MaxSets
  /\ sets' = sets + 1
  /\ \E by \in 1 .. MaxBack : MoveClock(by)
  /\ UNCHANGED <<list, running, LedAppUt, added, connects>>

Next ==
  \/ \E a \in Address :
       \/ \E kind \in Kind : AddPeriodic(a, kind)
       \/ SetF7(a) \/ LedAppFlicker(a) \/ Fire(a)
  \/ Return \/ Second \/ SetBack

Spec == Init /\ [][Next]_vars

(* local_worker ticks for ever, callbacks return, and the clock goes on.   *)
Fairness ==
  /\ WF_vars(\E a \in Address : Fire(a))
  /\ WF_vars(Return)
  /\ WF_vars(Second)
FairSpec == Spec /\ Fairness
-----------------------------------------------------------------------------
Due == -MaxLag .. 10 + MaxSets * MaxBack

(* The list holds allocated timers, each once; what runs is on the list.   *)
TypeOK ==
  /\ IsInjective(list) /\ Listed \subseteq Address \ Free
  /\ timer \in [Address -> [kind : Kind, due : Due] \union {NULL}]
  /\ running \in Listed \union {NULL}
  /\ LedAppUt \in Address \union {NULL}

(* However many connections were made, one timer at most blinks the LED.   *)
OneBlinkTimer ==
  \A a, b \in Listed : timer[a].kind = "led" /\ timer[b].kind = "led" => a = b

(* A periodic timer of main stays on the list, also when the list is at    *)
(* its limit at the moment the timer is put back.                          *)
PeriodicKept ==
  [][\A a \in Listed : timer[a].kind \in {"event", "ta"} => a \in Listed']_vars

(* Every timer on the list is called back, or deleted, in the end, also    *)
(* when the station has set the clock back.                                *)
EveryTimerFires == \A a \in Address : a \in Listed ~> (running = a \/ a \notin Listed)
================================================================================
