------------------------------ MODULE BoundedFifo ------------------------------
(***************************************************************************)
(* What queue.h promises its callers: a first-in first-out queue of at     *)
(* most Capacity events.  "sequeue_input" answers 0 when the event was     *)
(* appended and 1 when there is no room; "sequeue_output" answers 0 and    *)
(* hands over the oldest event, or answers 1 when there is none.           *)
(***************************************************************************)
EXTENDS Naturals, Sequences

CONSTANTS
  Event,      \* the events that can be queued (Eventdata)
  Capacity,   \* the number of events that fit
  Nothing     \* the value handed over by a call that hands over no event

VARIABLES
  items,      \* the queued events, oldest first
  reply       \* what the last call answered

vars == <<items, reply>>

Ok(e) == [ret |-> 0, out |-> e]
Failed == [ret |-> 1, out |-> Nothing]

Init ==
  /\ items = <<>>
  /\ reply = Failed

Put(e) ==
  /\ Len(items) < Capacity
  /\ items' = Append(items, e)
  /\ reply' = Ok(Nothing)

PutFull ==
  /\ Len(items) = Capacity
  /\ reply' = Failed
  /\ UNCHANGED items

Get ==
  /\ items # <<>>
  /\ items' = Tail(items)
  /\ reply' = Ok(Head(items))

GetEmpty ==
  /\ items = <<>>
  /\ reply' = Failed
  /\ UNCHANGED items

Next ==
  \/ \E e \in Event : Put(e)
  \/ PutFull
  \/ Get
  \/ GetEmpty

Spec == Init /\ [][Next]_vars
================================================================================
