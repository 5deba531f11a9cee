------------------------------- MODULE EventQueue -------------------------------
(***************************************************************************)
(* The event queue of the terminal (PROTO/queue.c, PROTO/queue.h): one     *)
(* global ring of QUEUEMAXSIZE slots with the indices "front" and "rear"   *)
(* and a separate element counter "count".  Full is detected by            *)
(* (rear + 1) % QUEUEMAXSIZE = front, so one slot is never used; "count"   *)
(* is not consulted by the queue itself, only by the loops of send_event   *)
(* and AFN_00H that walk over the queue.                                   *)
(*                                                                         *)
(* This module is the queue as one thread uses it: every call is one step. *)
(* QueueThreads breaks the calls up for several threads.                   *)
(***************************************************************************)
EXTENDS Integers, Sequences

CONSTANTS
  Event,         \* the events that can be queued (Eventdata)
  QUEUEMAXSIZE,  \* number of slots of the ring
  Nothing        \* uninitialised slot, and the output of a failed call

ASSUME QueueAssumption ==
  /\ QUEUEMAXSIZE \in Nat
  /\ QUEUEMAXSIZE >= 2
  /\ Nothing \notin Event

VARIABLES
  data,          \* the slots of the ring
  front,         \* index of the oldest event
  rear,          \* index of the slot after the newest event
  count,         \* "number of elements"
  reply          \* what the last call answered: its result and *d

vars == <<data, front, rear, count, reply>>

Slot == 0 .. QUEUEMAXSIZE - 1
Next1(i) == (i + 1) % QUEUEMAXSIZE

Ok(e) == [ret |-> 0, out |-> e]
Failed == [ret |-> 1, out |-> Nothing]

(* sequeue_create, called once by sequeue_init: malloc leaves the slots    *)
(* uninitialised.                                                          *)
Init ==
  /\ data = [i \in Slot |-> Nothing]
  /\ front = 0
  /\ rear = 0
  /\ count = 0
  /\ reply = Failed

IsEmpty == rear = front
IsFull_unwrapped == rear + 1 = front
IsFull == Next1(rear) = front

sequeue_input(e) ==
  \/ /\ IsFull
     /\ reply' = Failed
     /\ UNCHANGED <<data, front, rear, count>>
  \/ /\ ~IsFull
     /\ data' = [data EXCEPT ![rear] = e]
     /\ rear' = Next1(rear)
     /\ count' = count + 1
     /\ reply' = Ok(Nothing)
     /\ UNCHANGED front

sequeue_output_uncounted ==
  /\ ~IsEmpty
  /\ front' = Next1(front)
  /\ reply' = Ok(data[front])
  /\ UNCHANGED <<data, rear, count>>

sequeue_output ==
  \/ /\ IsEmpty
     /\ reply' = Failed
     /\ UNCHANGED <<data, front, rear, count>>
  \/ /\ ~IsEmpty
     /\ front' = Next1(front)
     /\ count' = count - 1
     /\ reply' = Ok(data[front])
     /\ UNCHANGED <<data, rear>>

Next ==
  \/ \E e \in Event : sequeue_input(e)
  \/ sequeue_output

Spec == Init /\ [][Next]_vars
--------------------------------------------------------------------------------
TypeOK ==
  /\ data \in [Slot -> Event \cup {Nothing}]
  /\ front \in Slot
  /\ rear \in Slot
  /\ count \in Int
  /\ reply \in [ret : {0, 1}, out : Event \cup {Nothing}]

(* The counter that the walking loops trust is the number of events        *)
(* between front and rear, and it stays below the number of slots.         *)
Distance == IF rear >= front THEN rear - front ELSE rear - front + QUEUEMAXSIZE

CountIsLength == count = Distance

(* The i-th oldest event sits i - 1 slots after front.                     *)
Place(i) == IF front + i - 1 < QUEUEMAXSIZE
            THEN front + i - 1
            ELSE front + i - 1 - QUEUEMAXSIZE

(* Slots between front and rear hold real events, never the leftovers of   *)
(* malloc: what a call hands over was once put in.                         *)
LiveSlots == \A i \in 1 .. Distance : data[Place(i)] \in Event

(* The events in the ring, oldest first: the queue the callers see.        *)
Contents == [i \in 1 .. Distance |-> data[Place(i)]]

(* The ring implements the bounded first-in first-out queue of queue.h,    *)
(* with room for QUEUEMAXSIZE - 1 events: events come out once, in the     *)
(* order in which they went in, and a call fails exactly when the queue is *)
(* full or empty.                                                          *)
Fifo == INSTANCE BoundedFifo
          WITH Capacity <- QUEUEMAXSIZE - 1, items <- Contents

FifoSpec == Fifo!Spec
================================================================================
