-------------------------------- MODULE FlowStat --------------------------------
(***************************************************************************)
(* The traffic statistics of EventRecord.c and the file they are kept in.  *)
(* Every serrver_worker adds the bytes it received to to_read_, and both   *)
(* the serrver_workers and the timer callback of local_worker run dealFlow *)
(* and save_comm_flow(1) every few seconds, without a lock.                *)
(*                                                                         *)
(* A thread's call is a sequence of tasks; a task is a step that touches   *)
(* shared memory or the file.  `x += v` is a load and a store.  The file   *)
(* is rewritten by saveconfparam: read it, open it for writing (which      *)
(* empties it), and write the new contents when it is closed.              *)
(*                                                                         *)
(* Nothing in the code adds to to_write_ and bytes_to_write returns 0, so  *)
(* the written traffic is the constant 0: its key is saved all the same.   *)
(* A date is the number of a day.                                          *)
(***************************************************************************)
EXTENDS Integers, Sequences, FiniteSetsExt, Functions

CONSTANTS
  Main,          \* the thread that starts the program
  Worker,        \* the serrver_worker threads
  Local,         \* local_worker, which runs the timer callbacks
  Overlap,       \* TRUE: calls of several threads may be under way at once
  CutsInside,    \* TRUE: the power may fail in the middle of a call
  FluxLimitor,   \* the month's limit; 0 is no limit
  DaysPerMonth,
  LastDate,      \* bound: the last day considered
  Bound          \* bounds: how many "pieces" are received, "cuts" of power,
                 \* "inits" by the station and "sets" of the clock happen;
                 \* an init is considered without cuts and sets

(* What the module that gives the constants their values checks of them.   *)
FlowAssumption ==
  /\ Main \notin Worker /\ Local \notin Worker /\ Main # Local
  /\ Overlap \in BOOLEAN /\ CutsInside \in BOOLEAN
  /\ FluxLimitor \in Nat /\ DaysPerMonth \in Nat \ {0} /\ LastDate \in Nat
  /\ DOMAIN Bound = {"pieces", "cuts", "inits", "sets"}

Threads == Worker \union {Main, Local}
Dealer == Worker \union {Local}
Date == 0 .. LastDate

VARIABLES
  to_read_,               \* bytes received and not yet dealt with
  comm_read_flow_, comm_curr_month_flow_, comm_last_day_flow_,
  current_day_,           \* the date the counters belong to
  flow_event_reported_,
  file,                   \* Comm_flow.conf: the keys it has and their values
  date,                   \* the terminal's clock
  todo,                   \* what is left of each thread's call
  locals,                 \* each thread's local variables
  dealt,                  \* history: bytes dealt with under each date
  raised,                 \* history: limit events raised under each date
  received,               \* history: bytes received, but for those that a power
                          \* cut took from to_read_
  torn,                   \* history: whether the power failed inside a call
  used                    \* how much of each bound is used

counters == <<comm_read_flow_, comm_curr_month_flow_, comm_last_day_flow_,
              current_day_, flow_event_reported_>>
memory == <<to_read_, counters>>
history == <<dealt, raised, received, torn>>
vars == <<memory, file, date, todo, locals, history, used>>

Month(d) == d \div DaysPerMonth
MonthKey(d) == <<"month", Month(d)>>
DayKey(d) == <<"day", d>>
ReadKey == <<"read", 0>>
WriteKey == <<"write", 0>>
EmptyFile == [k \in {} |-> 0]
Saved(f, key) == IF key \in DOMAIN f THEN f[key] ELSE 0
Put(f, key, value) == [k \in DOMAIN f \union {key} |-> IF k = key THEN value ELSE f[k]]

(* save_comm_flow_month_without_lock: the order in which values are saved. *)
SaveTasks_total_first == <<"save_read", "save_month", "save_day", "save_write">>
SaveTasks == <<"save_month", "save_day", "save_read", "save_write">>
DealTasks ==
  <<"copy", "clear", "add_read", "store_read", "add_month", "store_month", "limit",
    "add_nothing", "store_month", "limit", "event">> \o SaveTasks \o <<"check">>
LoadTasks_no_month == <<"reset", "get_day", "set_day">>
LoadTasks == <<"reset", "get_month", "set_month", "get_day", "set_day">>
BootTasks == <<"get_read", "set_read", "get_write">> \o LoadTasks

NoLocals == [value |-> 0, sum |-> 0, over |-> FALSE, copy |-> EmptyFile]

PowerUp ==
  /\ to_read_' = 0
  /\ comm_read_flow_' = 0
  /\ comm_curr_month_flow_' = 0
  /\ comm_last_day_flow_' = 0
  /\ current_day_' = -1
  /\ flow_event_reported_' = 0
  /\ todo' = [t \in Threads |-> IF t = Main THEN BootTasks ELSE <<>>]
  /\ locals' = [t \in Threads |-> NoLocals]

Init ==
  /\ to_read_ = 0
  /\ comm_read_flow_ = 0
  /\ comm_curr_month_flow_ = 0
  /\ comm_last_day_flow_ = 0
  /\ current_day_ = -1
  /\ flow_event_reported_ = 0
  /\ file = EmptyFile
  /\ date = 0
  /\ todo = [t \in Threads |-> IF t = Main THEN BootTasks ELSE <<>>]
  /\ locals = [t \in Threads |-> NoLocals]
  /\ dealt = [d \in Date |-> 0]
  /\ raised = [d \in Date |-> 0]
  /\ received = 0
  /\ torn = FALSE
  /\ used = [b \in DOMAIN Bound |-> 0]

Idle == \A t \in Threads : todo[t] = <<>>
Spend(b) == used[b] < Bound[b] /\ used' = [used EXCEPT ![b] = @ + 1]
Never(b) == used[b] = 0

(* A call begins when main is through and, without Overlap, alone.         *)
Begin(t, tasks) ==
  /\ todo[t] = <<>> /\ todo[Main] = <<>>
  /\ Overlap \/ Idle
  /\ todo' = [todo EXCEPT ![t] = tasks]

At(t, task) == todo[t] # <<>> /\ Head(todo[t]) = task
Done(t) == todo' = [todo EXCEPT ![t] = Tail(@)]
Then(t, tasks) == todo' = [todo EXCEPT ![t] = tasks \o Tail(@)]
Set(t, name, value) == locals' = [locals EXCEPT ![t][name] = value]
-----------------------------------------------------------------------------
(* serrver_worker: to_read_ += len.                                        *)
Receive(t) ==
  /\ t \in Worker
  /\ Spend("pieces")
  /\ Begin(t, <<"store_piece">>)
  /\ Set(t, "sum", to_read_ + 1)
  /\ UNCHANGED <<memory, file, date, history>>

StorePiece(t) ==
  /\ At(t, "store_piece")
  /\ to_read_' = locals[t].sum
  /\ received' = received + 1
  /\ Set(t, "sum", 0)
  /\ Done(t)
  /\ UNCHANGED <<counters, file, date, dealt, raised, torn, used>>

(* dealFlow and save_comm_flow(1), from serrver_worker or EvevtCallBack.   *)
Deal(t) ==
  /\ t \in Dealer
  /\ Begin(t, DealTasks)
  /\ UNCHANGED <<memory, file, date, locals, history, used>>

(* bytes_to_read: two statements.                                          *)
Copy(t) ==
  /\ At(t, "copy")
  /\ Set(t, "value", to_read_)
  /\ Done(t)
  /\ UNCHANGED <<memory, file, date, history, used>>

Clear_not(t) ==
  /\ At(t, "clear")
  /\ Done(t)
  /\ UNCHANGED <<memory, file, date, locals, history, used>>

Clear(t) ==
  /\ At(t, "clear")
  /\ to_read_' = 0
  /\ Done(t)
  /\ UNCHANGED <<counters, file, date, locals, history, used>>

(* set_comm_read_flow.                                                     *)
AddRead(t) ==
  /\ At(t, "add_read")
  /\ Set(t, "sum", comm_read_flow_ + locals[t].value)
  /\ Done(t)
  /\ UNCHANGED <<memory, file, date, history, used>>

StoreRead(t) ==
  /\ At(t, "store_read")
  /\ comm_read_flow_' = locals[t].sum
  /\ dealt' = [dealt EXCEPT ![current_day_] = @ + locals[t].value]
  /\ Done(t)
  /\ UNCHANGED <<to_read_, comm_curr_month_flow_, comm_last_day_flow_, current_day_,
                 flow_event_reported_, file, date, locals, raised, received, torn, used>>

(* set_month_flows_, called for the read bytes and then for the written    *)
(* ones, which are none.                                                   *)
AddMonth(t) ==
  /\ \/ At(t, "add_month") /\ Set(t, "sum", comm_curr_month_flow_ + locals[t].value)
     \/ At(t, "add_nothing") /\ Set(t, "sum", comm_curr_month_flow_)
  /\ Done(t)
  /\ UNCHANGED <<memory, file, date, history, used>>

StoreMonth(t) ==
  /\ At(t, "store_month")
  /\ comm_curr_month_flow_' = locals[t].sum
  /\ Done(t)
  /\ UNCHANGED <<to_read_, comm_read_flow_, comm_last_day_flow_, current_day_,
                 flow_event_reported_, file, date, locals, history, used>>

OverLimit ==
  /\ flow_event_reported_ = 0
  /\ FluxLimitor > 0
  /\ comm_curr_month_flow_ > FluxLimitor

TestLimit(t) ==
  /\ At(t, "limit")
  /\ IF OverLimit THEN Then(t, <<"mark">>) ELSE Done(t)
  /\ UNCHANGED <<memory, file, date, locals, history, used>>

Mark(t) ==
  /\ At(t, "mark")
  /\ flow_event_reported_' = 1
  /\ Set(t, "over", TRUE)
  /\ Done(t)
  /\ UNCHANGED <<to_read_, comm_read_flow_, comm_curr_month_flow_, comm_last_day_flow_,
                 current_day_, file, date, history, used>>

(* dealFlow: CreateEvent32 when one of the two calls returned 4.           *)
RaiseEvent(t) ==
  /\ At(t, "event")
  /\ raised' = IF locals[t].over THEN [raised EXCEPT ![current_day_] = @ + 1] ELSE raised
  /\ Done(t)
  /\ UNCHANGED <<memory, file, date, locals, dealt, received, torn, used>>
-----------------------------------------------------------------------------
(* saveconfparam: the new contents are made from what the file holds now.  *)
SaveValue(t, key, value) ==
  /\ Set(t, "copy", Put(file, key, value))
  /\ Then(t, <<"truncate", "write">>)

Save(t) ==
  /\ \/ At(t, "save_month") /\ SaveValue(t, MonthKey(current_day_), comm_curr_month_flow_)
     \/ At(t, "save_day") /\ SaveValue(t, DayKey(current_day_), comm_read_flow_)
     \/ At(t, "save_read") /\ SaveValue(t, ReadKey, comm_read_flow_)
     \/ At(t, "save_write") /\ SaveValue(t, WriteKey, 0)
  /\ UNCHANGED <<memory, file, date, history, used>>

Truncate(t) ==
  /\ At(t, "truncate")
  /\ file' = EmptyFile
  /\ Done(t)
  /\ UNCHANGED <<memory, date, locals, history, used>>

Write(t) ==
  /\ At(t, "write")
  /\ file' = locals[t].copy
  /\ Set(t, "copy", EmptyFile)
  /\ Done(t)
  /\ UNCHANGED <<memory, date, history, used>>

(* is_day_accross_without_lock, and what save_comm_flow does about it.     *)
Check(t) ==
  /\ At(t, "check")
  /\ IF date # current_day_ THEN Then(t, LoadTasks \o SaveTasks) ELSE Done(t)
  /\ locals' = [locals EXCEPT ![t] = NoLocals]
  /\ UNCHANGED <<memory, file, date, history, used>>

(* load_comm_flow_month_without_lock, up to its first use of the file.     *)
Reset_keeps_mark(t) ==
  /\ At(t, "reset")
  /\ comm_curr_month_flow_' = 0
  /\ comm_last_day_flow_' = comm_read_flow_
  /\ current_day_' = date
  /\ Done(t)
  /\ UNCHANGED <<to_read_, comm_read_flow_, flow_event_reported_, file, date, locals,
                 history, used>>

Reset(t) ==
  /\ At(t, "reset")
  /\ comm_curr_month_flow_' = 0
  /\ comm_last_day_flow_' = comm_read_flow_
  /\ current_day_' = date
  /\ flow_event_reported_' = 0
  /\ Done(t)
  /\ UNCHANGED <<to_read_, comm_read_flow_, file, date, locals, history, used>>

(* getconfparam into a variable preset to `default`; a key that is missing *)
(* is saved with that value.                                               *)
GetOrSave(t, key, default) ==
  IF key \in DOMAIN file
  THEN Set(t, "value", file[key]) /\ Done(t)
  ELSE /\ locals' = [locals EXCEPT ![t].value = default, ![t].copy = Put(file, key, default)]
       /\ Then(t, <<"truncate", "write">>)

(* The month's key is that of current_day_, set from the same clock value; *)
(* the other day is yesterday by the clock as it is read now.              *)
Get(t) ==
  /\ \/ At(t, "get_read") /\ GetOrSave(t, ReadKey, 0)
     \/ At(t, "get_write") /\ GetOrSave(t, WriteKey, 0)
     \/ At(t, "get_month") /\ GetOrSave(t, MonthKey(current_day_), 0)
     \/ At(t, "get_day") /\ GetOrSave(t, DayKey(date - 1), comm_read_flow_)
  /\ UNCHANGED <<memory, file, date, history, used>>

SetRead(t) ==
  /\ At(t, "set_read")
  /\ comm_read_flow_' = locals[t].value
  /\ Done(t)
  /\ UNCHANGED <<to_read_, comm_curr_month_flow_, comm_last_day_flow_, current_day_,
                 flow_event_reported_, file, date, locals, history, used>>

SetMonth(t) ==
  /\ At(t, "set_month")
  /\ comm_curr_month_flow_' = locals[t].value
  /\ Done(t)
  /\ UNCHANGED <<to_read_, comm_read_flow_, comm_last_day_flow_, current_day_,
                 flow_event_reported_, file, date, locals, history, used>>

SetDay(t) ==
  /\ At(t, "set_day")
  /\ comm_last_day_flow_' = locals[t].value
  /\ Set(t, "value", 0)
  /\ Done(t)
  /\ UNCHANGED <<to_read_, comm_read_flow_, comm_curr_month_flow_, current_day_,
                 flow_event_reported_, file, date, history, used>>
-----------------------------------------------------------------------------
(* AFN 01 F2 and F3: the file is opened with "w+" and closed.              *)
FlowDataInit(t) ==
  /\ t \in Worker
  /\ Spend("inits") /\ Never("cuts") /\ Never("sets")
  /\ Begin(t, <<>>)
  /\ file' = EmptyFile
  /\ UNCHANGED <<memory, date, locals, history>>

(* A day is long and a call is short: a call sees one midnight at most.    *)
NextDay ==
  /\ date < LastDate
  /\ Idle \/ current_day_ \in {date, -1}
  /\ date' = date + 1
  /\ UNCHANGED <<memory, file, todo, locals, history, used>>

(* F31: the station sets the clock.                                        *)
SetClock ==
  /\ Spend("sets") /\ Never("inits")
  /\ todo[Main] = <<>>
  /\ \E d \in Date \ {date} : date' = d
  /\ UNCHANGED <<memory, file, todo, locals, history>>

(* The power fails and comes back; main loads the counters from the file.  *)
(* What was received and not yet dealt with is lost.                       *)
PowerCut ==
  /\ Spend("cuts") /\ Never("inits")
  /\ CutsInside \/ Idle
  /\ PowerUp
  /\ received' = received - to_read_
  /\ torn' = (torn \/ ~Idle)
  /\ UNCHANGED <<file, date, dealt, raised>>

Step(t) ==
  \/ StorePiece(t) \/ Copy(t) \/ Clear(t)
  \/ AddRead(t) \/ StoreRead(t) \/ AddMonth(t) \/ StoreMonth(t)
  \/ TestLimit(t) \/ Mark(t) \/ RaiseEvent(t)
  \/ Save(t) \/ Truncate(t) \/ Write(t) \/ Check(t)
  \/ Reset(t) \/ Get(t) \/ SetRead(t) \/ SetMonth(t) \/ SetDay(t)

Next ==
  \/ \E t \in Threads : Step(t) \/ Receive(t) \/ Deal(t) \/ FlowDataInit(t)
  \/ NextDay \/ SetClock \/ PowerCut

Spec == Init /\ [][Next]_vars
-----------------------------------------------------------------------------
Task == {"store_piece", "truncate", "write", "mark", "check"}
          \union Range(DealTasks) \union Range(BootTasks)
File(f) == DOMAIN f \subseteq {"month", "day", "read", "write"} \X (-1 .. LastDate)

(* What the variables hold between and within calls.                       *)
TypeOK ==
  /\ to_read_ \in Nat /\ comm_read_flow_ \in Nat
  /\ comm_curr_month_flow_ \in Nat /\ comm_last_day_flow_ \in Nat
  /\ current_day_ \in Date \union {-1}
  /\ flow_event_reported_ \in {0, 1}
  /\ File(file) /\ \A k \in DOMAIN file : file[k] \in Nat
  /\ date \in Date
  /\ \A t \in Threads : Range(todo[t]) \subseteq Task /\ File(locals[t].copy)
  /\ received \in Int /\ torn \in BOOLEAN

SumOver(dates) == MapThenSumSet(LAMBDA d : dealt[d], dates)
InMonth(m) == {d \in Date : Month(d) = m}
MonthSum(f) == MapThenSumSet(LAMBDA k : f[k], {k \in DOMAIN f : k[1] = "month"})

(* Between calls, every byte received is either still to be dealt with or  *)
(* in the cumulative count (bytes_to_read, set_comm_read_flow), across     *)
(* days, clock changes, initialisations and power cuts between calls.      *)
TrafficConserved == (Idle /\ ~torn) => comm_read_flow_ + to_read_ = received

(* Between calls, the month's counter is what was dealt with under the     *)
(* dates of that month, across restarts and whatever the station does to   *)
(* the clock (load_comm_flow_month_without_lock).                          *)
MonthExact ==
  (Idle /\ ~torn) =>
    comm_curr_month_flow_ = SumOver(InMonth(Month(current_day_)))

(* get_curr_day_flow, which AFN 0C answers with: between calls it is what  *)
(* was dealt with under the current date, if the clock only runs forward.  *)
(* Just after midnight it may be wrong until the next check of the date:   *)
(* load_comm_flow_month reads the clock twice, and midnight may fall in    *)
(* between.                                                                *)
DayExact ==
  (Idle /\ date = current_day_ /\ ~torn /\ Never("sets")) =>
    comm_read_flow_ - comm_last_day_flow_ = dealt[current_day_]

(* What AFN 0C answers with, the traffic of the day and of the month.      *)
CalendarExact == DayExact /\ MonthExact

(* Wherever the power fails, also between emptying and writing the file,   *)
(* the months in the file account for at least the total in the file: the  *)
(* total is saved after the month.                                         *)
MonthsCoverTotal == Never("inits") => MonthSum(file) >= Saved(file, ReadKey)

(* The limit event is raised at most once under one date: the mark keeps   *)
(* "frequent reports of the exceeded limit" away, until a restart or a     *)
(* change of the date resets it.                                           *)
EventOncePerDay ==
  Never("cuts") /\ Never("sets") => \A d \in Date : raised[d] <= 1

(* When dealFlow ends, and save_comm_flow begins, a month over the limit   *)
(* has been reported under the current date: no mark of an earlier date,   *)
(* month or life of the program is in the way.                             *)
OverLimitReported ==
  \A t \in Dealer :
    todo[t] = SaveTasks \o <<"check">> /\ FluxLimitor > 0 /\ comm_curr_month_flow_ > FluxLimitor
      => raised[current_day_] > 0

(* The limit event is neither frequent nor missed.                         *)
LimitEventRight == EventOncePerDay /\ OverLimitReported
================================================================================
