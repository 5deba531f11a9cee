------------------------------ MODULE QueueThreads ------------------------------
(***************************************************************************)
(* The event queue of queue.c as several threads use it.  client_worker,   *)
(* one serrver_worker per connection and the RS-485 and infrared workers   *)
(* all call sequeue_input and sequeue_output on the one global queue, and  *)
(* the queue has no lock.  A call is broken into the loads and stores of   *)
(* the compiled code: the guard, the slot, the index and the counter.      *)
(* "q->rear = (q->rear + 1) % N" and "q->count++" are a load and a store   *)
(* each.                                                                   *)
(***************************************************************************)
EXTENDS Integers

CONSTANTS
  Thread,        \* the threads that use the queue
  Event,         \* the events they queue
  QUEUEMAXSIZE,  \* number of slots of the ring, at least 2
  Nothing,       \* an uninitialised slot
  MaxDrift       \* bound: no call starts once races drove |count| this far

VARIABLES
  data, front, rear, count,
  pc,            \* where each thread is in its call
  reg,           \* the value each thread loaded last
  overlapped     \* history: two calls have been under way at the same time

vars == <<data, front, rear, count, pc, reg, overlapped>>
ring == <<data, front, rear, count>>

Slot == 0 .. QUEUEMAXSIZE - 1
After(i) == (i + 1) % QUEUEMAXSIZE
Label == {"idle",
          "put_slot", "put_rear", "put_rear_store", "put_count", "put_count_store",
          "get_slot", "get_front", "get_front_store", "get_count", "get_count_store"}

Init ==
  /\ data = [i \in Slot |-> Nothing]
  /\ front = 0
  /\ rear = 0
  /\ count = 0
  /\ pc = [t \in Thread |-> "idle"]
  /\ reg = [t \in Thread |-> 0]
  /\ overlapped = FALSE

Quiet == \A t \in Thread : pc[t] = "idle"

Goto(t, l) == pc' = [pc EXCEPT ![t] = l]
Load(t, v) == reg' = [reg EXCEPT ![t] = v]
Enter(t) == overlapped' = (overlapped \/ ~Quiet)

(* The guards: sequeue_full and sequeue_empty.  A failed guard ends the    *)
(* call at once and changes nothing.  MaxDrift bounds how far races may    *)
(* drive the counter before no further call is considered.                 *)
PutGuard(t) ==
  /\ pc[t] = "idle"
  /\ count < MaxDrift
  /\ \/ /\ After(rear) # front
        /\ Goto(t, "put_slot")
        /\ Enter(t)
     \/ /\ After(rear) = front
        /\ UNCHANGED <<pc, overlapped>>
  /\ UNCHANGED <<ring, reg>>

GetGuard(t) ==
  /\ pc[t] = "idle"
  /\ count > -MaxDrift
  /\ \/ /\ rear # front
        /\ Goto(t, "get_slot")
        /\ Enter(t)
     \/ /\ rear = front
        /\ UNCHANGED <<pc, overlapped>>
  /\ UNCHANGED <<ring, reg>>

PutSlot(t, e) ==
  /\ pc[t] = "put_slot"
  /\ data' = [data EXCEPT ![rear] = e]
  /\ Goto(t, "put_rear")
  /\ UNCHANGED <<front, rear, count, reg, overlapped>>

(* What *d becomes is of no interest here, only that the slot exists.      *)
GetSlot(t) ==
  /\ pc[t] = "get_slot"
  /\ Goto(t, "get_front")
  /\ UNCHANGED <<ring, reg, overlapped>>

LoadRear(t) ==
  /\ pc[t] = "put_rear"
  /\ Load(t, After(rear))
  /\ Goto(t, "put_rear_store")
  /\ UNCHANGED <<ring, overlapped>>

StoreRear(t) ==
  /\ pc[t] = "put_rear_store"
  /\ rear' = reg[t]
  /\ Goto(t, "put_count")
  /\ UNCHANGED <<data, front, count, reg, overlapped>>

LoadFront(t) ==
  /\ pc[t] = "get_front"
  /\ Load(t, After(front))
  /\ Goto(t, "get_front_store")
  /\ UNCHANGED <<ring, overlapped>>

StoreFront(t) ==
  /\ pc[t] = "get_front_store"
  /\ front' = reg[t]
  /\ Goto(t, "get_count")
  /\ UNCHANGED <<data, rear, count, reg, overlapped>>

OneLess_forgotten(n) == n
OneLess(n) == n - 1

LoadCount(t) ==
  \/ /\ pc[t] = "put_count"
     /\ Load(t, count + 1)
     /\ Goto(t, "put_count_store")
     /\ UNCHANGED <<ring, overlapped>>
  \/ /\ pc[t] = "get_count"
     /\ Load(t, OneLess(count))
     /\ Goto(t, "get_count_store")
     /\ UNCHANGED <<ring, overlapped>>

StoreCount(t) ==
  /\ pc[t] \in {"put_count_store", "get_count_store"}
  /\ count' = reg[t]
  /\ Goto(t, "idle")
  /\ Load(t, 0)
  /\ UNCHANGED <<data, front, rear, overlapped>>

Step(t) ==
  \/ PutGuard(t) \/ (\E e \in Event : PutSlot(t, e)) \/ LoadRear(t) \/ StoreRear(t)
  \/ GetGuard(t) \/ GetSlot(t) \/ LoadFront(t) \/ StoreFront(t)
  \/ LoadCount(t) \/ StoreCount(t)

Next == \E t \in Thread : Step(t)

Spec == Init /\ [][Next]_vars
--------------------------------------------------------------------------------
(* However the calls interleave, front and rear stay indices of the ring:  *)
(* no race makes a call touch memory outside data[QUEUEMAXSIZE].           *)
TypeOK ==
  /\ data \in [Slot -> Event \cup {Nothing}]
  /\ front \in Slot
  /\ rear \in Slot
  /\ count \in Int
  /\ pc \in [Thread -> Label]
  /\ reg \in [Thread -> Int]
  /\ overlapped \in BOOLEAN

Distance == IF rear >= front THEN rear - front ELSE rear - front + QUEUEMAXSIZE

(* Calls of different threads that never overlap leave the counter exact.  *)
CountExactWithoutOverlap == Quiet /\ ~overlapped => count = Distance
================================================================================
