---------------------------- MODULE EventQueueProofs ----------------------------
(***************************************************************************)
(* What holds of the event queue for every capacity and every set of       *)
(* events: the element counter is exact, live slots hold real events, and  *)
(* the ring implements the bounded queue of BoundedFifo.  Then the ring as *)
(* any number of threads use it without a lock, and the detectors of a     *)
(* sampling chip for any thresholds, seconds and order of detectors.       *)
(***************************************************************************)
EXTENDS QueueUsers, SequenceTheorems, TLAPS

(* Advancing an index wraps around at the last slot (queue.c:41, 58).      *)
LEMMA AdvanceWraps ==
  ASSUME NEW i \in Slot
  PROVE  /\ Next1(i) = IF i = QUEUEMAXSIZE - 1 THEN 0 ELSE i + 1
         /\ Next1(i) \in Slot
<1>1. QUEUEMAXSIZE \in Nat /\ QUEUEMAXSIZE >= 2
  BY QueueAssumption
<1>2. CASE i = QUEUEMAXSIZE - 1
  <2>1. QUEUEMAXSIZE % QUEUEMAXSIZE = 0
    BY <1>1, SMTT(30)
  <2>2. QED
    BY <1>1, <1>2, <2>1 DEF Next1, Slot
<1>3. CASE i # QUEUEMAXSIZE - 1
  <2>1. i + 1 \in 0 .. QUEUEMAXSIZE - 1
    BY <1>1, <1>3 DEF Slot
  <2>2. (i + 1) % QUEUEMAXSIZE = i + 1
    BY <1>1, <2>1, SMTT(30)
  <2>3. QED
    BY <1>1, <1>3, <2>1, <2>2 DEF Next1, Slot
<1>4. QED
  BY <1>2, <1>3

(* The reachable rings: well typed, counter exact, live slots filled.      *)
QueueInv == TypeOK /\ CountIsLength /\ LiveSlots

LEMMA InitQueueInv == Init => QueueInv
BY QueueAssumption
   DEF Init, QueueInv, TypeOK, CountIsLength, LiveSlots, Distance, Slot, Failed

(* How full the ring is decides what a call may do.                        *)
LEMMA DistanceBounds ==
  ASSUME TypeOK
  PROVE  /\ Distance \in 0 .. QUEUEMAXSIZE - 1
         /\ IsEmpty <=> Distance = 0
         /\ IsFull <=> Distance = QUEUEMAXSIZE - 1
         /\ \A i \in 1 .. Distance : Place(i) \in Slot /\ Place(i) # rear
         /\ \A i, j \in 1 .. Distance : i # j => Place(i) # Place(j)
<1>1. QUEUEMAXSIZE \in Nat /\ QUEUEMAXSIZE >= 2 /\ front \in Slot /\ rear \in Slot
  BY QueueAssumption DEF TypeOK
<1>2. Distance \in 0 .. QUEUEMAXSIZE - 1 /\ (IsEmpty <=> Distance = 0)
  BY <1>1 DEF Distance, IsEmpty, Slot
<1>3. IsFull <=> Distance = QUEUEMAXSIZE - 1
  BY <1>1, AdvanceWraps DEF Distance, IsFull, Slot
<1>4. \A i \in 1 .. Distance : Place(i) \in Slot /\ Place(i) # rear
  BY <1>1 DEF Distance, Place, Slot
<1>5. \A i, j \in 1 .. Distance : i # j => Place(i) # Place(j)
  BY <1>1, <1>2 DEF Place, Slot
<1>6. QED
  BY <1>2, <1>3, <1>4, <1>5

(* A successful sequeue_input adds the new event behind the others.        *)
LEMMA InputEffect ==
  ASSUME QueueInv, NEW e \in Event, ~IsFull, sequeue_input(e)
  PROVE  /\ TypeOK'
         /\ Distance' = Distance + 1
         /\ count' = count + 1
         /\ Distance < QUEUEMAXSIZE - 1
         /\ \A i \in 1 .. Distance : data'[Place(i)'] = data[Place(i)]
         /\ \A i \in Nat : i = Distance + 1 => data'[Place(i)'] = e
         /\ reply' = Ok(Nothing)
<1>1. /\ data' = [data EXCEPT ![rear] = e]
      /\ rear' = Next1(rear)
      /\ count' = count + 1
      /\ reply' = Ok(Nothing)
      /\ front' = front
  BY DEF sequeue_input
<1>2. /\ QUEUEMAXSIZE \in Nat /\ QUEUEMAXSIZE >= 2
      /\ front \in Slot /\ rear \in Slot /\ count \in Int
      /\ data \in [Slot -> Event \cup {Nothing}]
  BY QueueAssumption DEF QueueInv, TypeOK
<1>3. /\ Next1(rear) = IF rear = QUEUEMAXSIZE - 1 THEN 0 ELSE rear + 1
      /\ Next1(rear) \in Slot
  BY <1>2, AdvanceWraps
<1>4. TypeOK'
  BY <1>1, <1>2, <1>3 DEF TypeOK, Ok
<1>5. Distance \in 0 .. QUEUEMAXSIZE - 1 /\ Distance # QUEUEMAXSIZE - 1
  BY DistanceBounds DEF QueueInv
<1>6. Distance' = Distance + 1
  BY <1>1, <1>2, <1>3, <1>5 DEF Distance, Slot, IsFull
<1>7. \A i \in 1 .. Distance + 1 : Place(i)' = Place(i)
  BY <1>1 DEF Place
<1>8. Place(Distance + 1) = rear
  BY <1>2, <1>5 DEF Place, Distance, Slot
<1>9. \A i \in Nat : i = Distance + 1 => data'[Place(i)'] = e
  BY <1>1, <1>2, <1>5, <1>7, <1>8
<1>10. \A i \in 1 .. Distance : data'[Place(i)'] = data[Place(i)]
  BY <1>1, <1>2, <1>5, <1>7, DistanceBounds DEF QueueInv
<1>11. QED
  BY <1>1, <1>2, <1>4, <1>5, <1>6, <1>9, <1>10

(* A successful sequeue_output moves every other event one place forward.  *)
LEMMA OutputEffect ==
  ASSUME QueueInv, ~IsEmpty, sequeue_output
  PROVE  /\ TypeOK'
         /\ Distance > 0
         /\ Distance' = Distance - 1
         /\ count' = count - 1
         /\ \A i \in 1 .. Distance - 1 : data'[Place(i)'] = data[Place(i + 1)]
         /\ reply' = Ok(data[Place(1)])
<1>1. /\ front' = Next1(front)
      /\ count' = count - 1
      /\ reply' = Ok(data[front])
      /\ data' = data
      /\ rear' = rear
  BY DEF sequeue_output
<1>2. /\ QUEUEMAXSIZE \in Nat /\ QUEUEMAXSIZE >= 2
      /\ front \in Slot /\ rear \in Slot /\ count \in Int
      /\ data \in [Slot -> Event \cup {Nothing}]
  BY QueueAssumption DEF QueueInv, TypeOK
<1>3. /\ Next1(front) = IF front = QUEUEMAXSIZE - 1 THEN 0 ELSE front + 1
      /\ Next1(front) \in Slot
  BY <1>2, AdvanceWraps
<1>4. Distance \in 1 .. QUEUEMAXSIZE - 1
  BY DistanceBounds DEF QueueInv
<1>5. TypeOK'
  BY <1>1, <1>2, <1>3 DEF TypeOK, Ok
<1>6. Distance' = Distance - 1
  BY <1>1, <1>2, <1>3, <1>4 DEF Distance, Slot, IsEmpty
<1>7. \A i \in 1 .. Distance - 1 : Place(i)' = Place(i + 1)
  BY <1>1, <1>2, <1>3, <1>4 DEF Place, Slot, Distance
<1>8. Place(1) = front
  BY <1>2 DEF Place, Slot
<1>9. QED
  BY <1>1, <1>4, <1>5, <1>6, <1>7, <1>8

(* A call that fails leaves the ring alone.                                *)
LEMMA FailureEffect ==
  ASSUME QueueInv, UNCHANGED <<data, front, rear, count>>,
         reply' = Failed \/ reply' = reply
  PROVE  QueueInv'
BY DEF QueueInv, TypeOK, CountIsLength, LiveSlots, Distance, Place, Failed

LEMMA NextQueueInv == QueueInv /\ [Next]_vars => QueueInv'
<1> SUFFICES ASSUME QueueInv, [Next]_vars
             PROVE  QueueInv'
  OBVIOUS
<1>1. ASSUME NEW e \in Event, sequeue_input(e), ~IsFull
      PROVE  QueueInv'
  <2>1. TypeOK' /\ CountIsLength'
    BY <1>1, InputEffect DEF QueueInv, CountIsLength
  <2>2. LiveSlots'
    <3> SUFFICES ASSUME NEW i \in 1 .. Distance'
                 PROVE  data'[Place(i)'] \in Event
      BY DEF LiveSlots
    <3>1. Distance \in Nat /\ Distance' = Distance + 1 /\ i \in Nat
      BY <1>1, InputEffect, DistanceBounds, QueueAssumption DEF QueueInv
    <3>2. CASE i = Distance + 1
      BY <1>1, <3>1, <3>2, InputEffect
    <3>3. CASE i \in 1 .. Distance
      BY <1>1, <3>3, InputEffect DEF QueueInv, LiveSlots
    <3>4. QED
      BY <3>1, <3>2, <3>3
  <2>3. QED
    BY <2>1, <2>2 DEF QueueInv
<1>2. ASSUME sequeue_output, ~IsEmpty
      PROVE  QueueInv'
  <2>1. TypeOK' /\ CountIsLength'
    BY <1>2, OutputEffect DEF QueueInv, CountIsLength
  <2>2. LiveSlots'
    <3> SUFFICES ASSUME NEW i \in 1 .. Distance'
                 PROVE  data'[Place(i)'] \in Event
      BY DEF LiveSlots
    <3>1. Distance \in Nat /\ Distance' = Distance - 1
      BY <1>2, OutputEffect, DistanceBounds, QueueAssumption DEF QueueInv
    <3>2. i \in 1 .. Distance - 1 /\ i + 1 \in 1 .. Distance
      BY <3>1
    <3>3. data'[Place(i)'] = data[Place(i + 1)]
      BY <1>2, <3>2, OutputEffect
    <3>4. QED
      BY <3>2, <3>3 DEF QueueInv, LiveSlots
  <2>3. QED
    BY <2>1, <2>2 DEF QueueInv
<1>3. ASSUME NEW e \in Event, sequeue_input(e), IsFull
      PROVE  QueueInv'
  BY <1>3, FailureEffect DEF sequeue_input
<1>4. ASSUME sequeue_output, IsEmpty
      PROVE  QueueInv'
  BY <1>4, FailureEffect DEF sequeue_output
<1>5. CASE UNCHANGED vars
  BY <1>5, FailureEffect DEF vars
<1>6. QED
  BY <1>1, <1>2, <1>3, <1>4, <1>5 DEF Next

(* Every reachable ring satisfies the invariant.                           *)
THEOREM QueueInvariant == Spec => []QueueInv
BY InitQueueInv, NextQueueInv, PTL DEF Spec

(* The counter that send_event and AFN_00H use as the length of the queue  *)
(* (EventRecord.c:905, Mrs_fw_proto376_1.c:604) is the length.             *)
THEOREM CounterExact == Spec => []CountIsLength
<1>1. QueueInv => CountIsLength
  BY DEF QueueInv
<1>2. QED
  BY <1>1, QueueInvariant, PTL

(* What sequeue_output hands over was put in, never an uninitialised slot. *)
THEOREM LiveSlotsFilled == Spec => []LiveSlots
<1>1. QueueInv => LiveSlots
  BY DEF QueueInv
<1>2. QED
  BY <1>1, QueueInvariant, PTL
--------------------------------------------------------------------------------
(* Functions on 1 .. n are sequences, and what Append and Tail make of one *)
(* is determined by its length and its elements.                           *)
LEMMA FunctionIsSequence ==
  ASSUME NEW S, NEW n \in Nat, NEW f \in [1 .. n -> S]
  PROVE  f \in Seq(S) /\ Len(f) = n
<1>1. f \in Seq(S)
  BY SeqDef
<1>2. DOMAIN f = 1 .. n /\ DOMAIN f = 1 .. Len(f) /\ Len(f) \in Nat
  BY <1>1, LenProperties
<1>3. QED
  BY <1>1, <1>2

LEMMA SameAsAppend ==
  ASSUME NEW S, NEW s \in Seq(S), NEW e \in S, NEW t \in Seq(S),
         Len(t) = Len(s) + 1,
         \A i \in 1 .. Len(s) : t[i] = s[i],
         t[Len(s) + 1] = e
  PROVE  t = Append(s, e)
<1>1. /\ Append(s, e) \in Seq(S)
      /\ Len(Append(s, e)) = Len(s) + 1
      /\ \A i \in 1 .. Len(s) : Append(s, e)[i] = s[i]
      /\ Append(s, e)[Len(s) + 1] = e
      /\ Len(s) \in Nat
  BY LenProperties
<1>2. \A i \in 1 .. Len(t) : t[i] = Append(s, e)[i]
  BY <1>1
<1>3. QED
  BY <1>1, <1>2, SeqEqual

LEMMA SameAsTail ==
  ASSUME NEW S, NEW s \in Seq(S), s # <<>>, NEW t \in Seq(S),
         Len(t) = Len(s) - 1,
         \A i \in 1 .. Len(t) : t[i] = s[i + 1]
  PROVE  t = Tail(s)
BY HeadTailProperties, SeqEqual

(* The events in the ring, as a sequence, before and after a step.         *)
LEMMA ContentsIsSequence ==
  ASSUME QueueInv
  PROVE  /\ Contents \in Seq(Event)
         /\ Len(Contents) = Distance
         /\ Distance \in 0 .. QUEUEMAXSIZE - 1
         /\ \A i \in 1 .. Distance : Contents[i] = data[Place(i)]
<1>1. Distance \in 0 .. QUEUEMAXSIZE - 1 /\ Distance \in Nat
  BY DistanceBounds, QueueAssumption DEF QueueInv
<1>2. Contents \in [1 .. Distance -> Event]
  BY DEF Contents, QueueInv, LiveSlots
<1>3. QED
  BY <1>1, <1>2, FunctionIsSequence DEF Contents

LEMMA NextContentsIsSequence ==
  ASSUME QueueInv', Distance' \in Nat
  PROVE  /\ Contents' \in Seq(Event)
         /\ Len(Contents') = Distance'
         /\ \A i \in 1 .. Distance' : Contents'[i] = data'[Place(i)']
<1>1. Contents' = [i \in 1 .. Distance' |-> data'[Place(i)']]
  BY DEF Contents
<1>2. Contents' \in [1 .. Distance' -> Event]
  BY <1>1 DEF QueueInv, LiveSlots
<1>3. QED
  BY <1>1, <1>2, FunctionIsSequence

(* sequeue_input with room left is Put.                                    *)
LEMMA InputImplementsPut ==
  ASSUME QueueInv, QueueInv', NEW e \in Event, ~IsFull, sequeue_input(e)
  PROVE  Fifo!Put(e)
<1>1. /\ Contents \in Seq(Event) /\ Len(Contents) = Distance
      /\ \A i \in 1 .. Distance : Contents[i] = data[Place(i)]
      /\ Distance \in Nat
  BY ContentsIsSequence, QueueAssumption
<1>2. Distance' = Distance + 1 /\ Distance < QUEUEMAXSIZE - 1
  BY InputEffect
<1>3. /\ Contents' \in Seq(Event) /\ Len(Contents') = Distance'
      /\ \A i \in 1 .. Distance' : Contents'[i] = data'[Place(i)']
  BY <1>1, <1>2, NextContentsIsSequence
<1>4. \A i \in 1 .. Len(Contents) : Contents'[i] = Contents[i]
  BY <1>1, <1>2, <1>3, InputEffect
<1>5. Contents'[Len(Contents) + 1] = e
  BY <1>1, <1>2, <1>3, InputEffect
<1>6. Contents' = Append(Contents, e)
  BY <1>1, <1>2, <1>3, <1>4, <1>5, SameAsAppend
<1>7. reply' = Fifo!Ok(Nothing)
  BY InputEffect DEF Ok, Fifo!Ok
<1>8. QED
  BY <1>1, <1>2, <1>6, <1>7 DEF Fifo!Put

(* sequeue_output with an event waiting is Get.                            *)
LEMMA OutputImplementsGet ==
  ASSUME QueueInv, QueueInv', ~IsEmpty, sequeue_output
  PROVE  Fifo!Get
<1>1. /\ Contents \in Seq(Event) /\ Len(Contents) = Distance
      /\ \A i \in 1 .. Distance : Contents[i] = data[Place(i)]
      /\ Distance \in Nat
  BY ContentsIsSequence, QueueAssumption
<1>2. Distance' = Distance - 1 /\ Distance > 0 /\ Distance' \in Nat
  BY <1>1, OutputEffect
<1>3. /\ Contents' \in Seq(Event) /\ Len(Contents') = Distance'
      /\ \A i \in 1 .. Distance' : Contents'[i] = data'[Place(i)']
  BY <1>2, NextContentsIsSequence
<1>4. Contents # <<>>
  BY <1>1, <1>2, EmptySeq
<1>5. ASSUME NEW i \in 1 .. Len(Contents') PROVE Contents'[i] = Contents[i + 1]
  <2>1. i \in 1 .. Distance' /\ i \in 1 .. Distance - 1 /\ i + 1 \in 1 .. Distance
    BY <1>1, <1>2, <1>3
  <2>2. Contents'[i] = data'[Place(i)']
    BY <1>3, <2>1
  <2>3. data'[Place(i)'] = data[Place(i + 1)]
    BY <2>1, OutputEffect
  <2>4. Contents[i + 1] = data[Place(i + 1)]
    BY <1>1, <2>1
  <2>5. QED
    BY <2>2, <2>3, <2>4
<1>6. Contents' = Tail(Contents)
  BY <1>1, <1>2, <1>3, <1>4, <1>5, SameAsTail
<1>7. reply' = Fifo!Ok(Head(Contents))
  BY <1>1, <1>2, <1>4, OutputEffect DEF Ok, Fifo!Ok
<1>8. QED
  BY <1>4, <1>6, <1>7 DEF Fifo!Get

(* A call that fails is the failing call of the bounded queue.             *)
LEMMA FailureImplements ==
  ASSUME QueueInv, UNCHANGED <<data, front, rear, count>>, reply' = Failed
  PROVE  /\ IsFull => Fifo!PutFull
         /\ IsEmpty => Fifo!GetEmpty
<1>1. Contents' = Contents
  BY DEF Contents, Distance, Place
<1>2. /\ IsFull => Len(Contents) = QUEUEMAXSIZE - 1
      /\ IsEmpty => Contents = <<>>
  BY ContentsIsSequence, DistanceBounds, EmptySeq DEF QueueInv
<1>3. QED
  BY <1>1, <1>2 DEF Fifo!PutFull, Fifo!GetEmpty, Failed, Fifo!Failed

LEMMA InitImplements == Init => Fifo!Init
<1> SUFFICES ASSUME Init
             PROVE  Fifo!Init
  OBVIOUS
<1>1. Contents = <<>>
  <2>1. QueueInv /\ Distance = 0
    BY InitQueueInv, QueueAssumption DEF Init, Distance
  <2>2. QED
    BY <2>1, ContentsIsSequence, EmptySeq
<1>2. QED
  BY <1>1 DEF Init, Fifo!Init, Failed, Fifo!Failed

LEMMA StepImplements == QueueInv /\ QueueInv' /\ [Next]_vars => [Fifo!Next]_(Fifo!vars)
<1> SUFFICES ASSUME QueueInv, QueueInv', [Next]_vars
             PROVE  [Fifo!Next]_(Fifo!vars)
  OBVIOUS
<1>1. CASE \E e \in Event : sequeue_input(e)
  <2>1. PICK e \in Event : sequeue_input(e)
    BY <1>1
  <2>2. CASE IsFull
    BY <2>1, <2>2, FailureImplements DEF sequeue_input, Fifo!Next
  <2>3. CASE ~IsFull
    BY <2>1, <2>3, InputImplementsPut DEF Fifo!Next
  <2>4. QED
    BY <2>2, <2>3
<1>2. CASE sequeue_output
  <2>1. CASE IsEmpty
    BY <1>2, <2>1, FailureImplements DEF sequeue_output, Fifo!Next
  <2>2. CASE ~IsEmpty
    BY <1>2, <2>2, OutputImplementsGet DEF Fifo!Next
  <2>3. QED
    BY <2>1, <2>2
<1>3. CASE UNCHANGED vars
  BY <1>3 DEF vars, Fifo!vars, Contents, Distance, Place
<1>4. QED
  BY <1>1, <1>2, <1>3 DEF Next

(* The ring of queue.c is a first-in first-out queue of QUEUEMAXSIZE - 1   *)
(* events for every ring size: no event is lost, repeated or reordered     *)
(* between a sequeue_input that answers 0 and the sequeue_output that      *)
(* hands it over, and a call fails only when it must.                      *)
THEOREM RingImplementsFifo == Spec => FifoSpec
BY InitImplements, StepImplements, QueueInvariant, PTL DEF Spec, FifoSpec, Fifo!Spec
-----------------------------------------------------------------------------
(* The ring as several threads use it, call by call.                       *)
(***************************************************************************)
LEMMA AfterInRing ==
  ASSUME NEW i \in T!Slot
  PROVE  /\ T!After(i) \in T!Slot
         /\ T!After(i) = IF i = RingSize - 1 THEN 0 ELSE i + 1
<1>1. RingSize \in Nat /\ RingSize >= 2 /\ i \in 0..RingSize - 1
  BY RingAssumption DEF T!Slot
<1>2. CASE i = RingSize - 1
  <2>1. RingSize % RingSize = 0
    BY <1>1, SMTT(30)
  <2>2. QED
    BY <1>1, <1>2, <2>1 DEF T!After, T!Slot
<1>3. CASE i # RingSize - 1
  <2>1. (i + 1) % RingSize = i + 1
    BY <1>1, <1>3, SMTT(30)
  <2>2. QED
    BY <1>1, <1>3, <2>1 DEF T!After, T!Slot
<1>4. QED
  BY <1>2, <1>3

(* An index that is about to be stored is one of the ring.                 *)
IndexInv ==
  /\ tfront \in T!Slot /\ trear \in T!Slot
  /\ pc \in [Thread -> T!Label] /\ reg \in [Thread -> Int] /\ tcount \in Int
  /\ tdata \in [T!Slot -> ThreadEvent \cup {Nothing}]
  /\ \A t \in Thread : pc[t] \in {"put_rear_store", "get_front_store"} => reg[t] \in T!Slot

LEMMA InitIndex == ASSUME T!Init PROVE IndexInv
BY RingAssumption DEF T!Init, IndexInv, T!Slot, T!Label

LEMMA StepIndex ==
  ASSUME IndexInv, NEW t \in Thread, T!Step(t)
  PROVE  IndexInv'
<1> USE DEF IndexInv
<1>1. CASE T!PutGuard(t) \/ T!GetGuard(t)
  BY <1>1 DEF T!PutGuard, T!GetGuard, T!Goto, T!ring, T!Label
<1>2. CASE \E e \in ThreadEvent : T!PutSlot(t, e)
  BY <1>2 DEF T!PutSlot, T!Goto, T!Label
<1>3. CASE T!GetSlot(t)
  BY <1>3 DEF T!GetSlot, T!Goto, T!ring, T!Label
<1>4. CASE T!LoadRear(t) \/ T!LoadFront(t)
  <2>1. T!After(trear) \in T!Slot /\ T!After(tfront) \in T!Slot /\ T!Slot \subseteq Int
    BY AfterInRing DEF T!Slot
  <2>2. QED
    BY <1>4, <2>1 DEF T!LoadRear, T!LoadFront, T!Load, T!Goto, T!ring, T!Label
<1>5. CASE T!StoreRear(t) \/ T!StoreFront(t)
  BY <1>5 DEF T!StoreRear, T!StoreFront, T!Goto, T!Label
<1>6. CASE T!LoadCount(t)
  BY <1>6 DEF T!LoadCount, T!Load, T!Goto, T!ring, T!Label, T!OneLess
<1>7. CASE T!StoreCount(t)
  BY <1>7 DEF T!StoreCount, T!Load, T!Goto, T!Label
<1>8. QED
  BY <1>1, <1>2, <1>3, <1>4, <1>5, <1>6, <1>7 DEF T!Step

LEMMA NextIndex == IndexInv /\ [T!Next]_(T!vars) => IndexInv'
<1>1. ASSUME IndexInv, UNCHANGED T!vars PROVE IndexInv'
  BY <1>1 DEF IndexInv, T!vars, T!ring
<1>2. QED
  BY <1>1, StepIndex DEF T!Next

(* However the loads and stores of the threads interleave, front and rear  *)
(* stay indices of data[QUEUEMAXSIZE] (queue.c:38-63).                     *)
THEOREM IndicesStayInRing == T!Spec => [](tfront \in T!Slot /\ trear \in T!Slot)
<1>1. IndexInv => tfront \in T!Slot /\ trear \in T!Slot
  BY DEF IndexInv
<1>2. T!Init => IndexInv
  BY InitIndex
<1>3. QED
  BY <1>1, <1>2, NextIndex, PTL DEF T!Spec
-----------------------------------------------------------------------------
(* Where a call of thread t is, the counter differs from the distance of   *)
(* the indices by what the call has yet to do.                             *)
Exact(t) ==
  /\ pc[t] \in {"put_slot", "put_rear", "put_rear_store"} =>
       tcount = T!Distance /\ T!After(trear) # tfront
  /\ pc[t] = "put_rear_store" => reg[t] = T!After(trear)
  /\ pc[t] \in {"put_count", "put_count_store"} => tcount + 1 = T!Distance
  /\ pc[t] = "put_count_store" => reg[t] = tcount + 1
  /\ pc[t] \in {"get_slot", "get_front", "get_front_store"} =>
       tcount = T!Distance /\ trear # tfront
  /\ pc[t] = "get_front_store" => reg[t] = T!After(tfront)
  /\ pc[t] \in {"get_count", "get_count_store"} => tcount - 1 = T!Distance
  /\ pc[t] = "get_count_store" => reg[t] = tcount - 1

Alone == \A t, u \in Thread : pc[t] # "idle" /\ pc[u] # "idle" => t = u

ExactInv ==
  ~overlapped => Alone /\ (T!Quiet => tcount = T!Distance) /\ \A t \in Thread : Exact(t)

LEMMA InitExact == ASSUME T!Init PROVE ExactInv
<1>1. \A t \in Thread : pc[t] = "idle"
  BY DEF T!Init
<1>2. tcount = T!Distance
  BY DEF T!Init, T!Distance
<1>3. Alone /\ \A t \in Thread : Exact(t)
  BY <1>1 DEF Alone, Exact
<1>4. QED
  BY <1>2, <1>3 DEF ExactInv

(* One slot more, or one less, between front and rear.                     *)
Between(f, r) == IF r >= f THEN r - f ELSE r - f + RingSize

LEMMA RearMoves ==
  ASSUME NEW f \in T!Slot, NEW r \in T!Slot, T!After(r) # f
  PROVE  Between(f, T!After(r)) = Between(f, r) + 1
<1>1. T!After(r) = IF r = RingSize - 1 THEN 0 ELSE r + 1
  BY AfterInRing
<1>2. RingSize \in Nat /\ f \in 0..RingSize - 1 /\ r \in 0..RingSize - 1
  BY RingAssumption DEF T!Slot
<1>3. QED
  BY <1>1, <1>2 DEF Between

LEMMA FrontMoves ==
  ASSUME NEW f \in T!Slot, NEW r \in T!Slot, r # f
  PROVE  Between(T!After(f), r) = Between(f, r) - 1
<1>1. T!After(f) = IF f = RingSize - 1 THEN 0 ELSE f + 1
  BY AfterInRing
<1>2. RingSize \in Nat /\ f \in 0..RingSize - 1 /\ r \in 0..RingSize - 1
  BY RingAssumption DEF T!Slot
<1>3. QED
  BY <1>1, <1>2 DEF Between

(* A step of the only thread that is in a call.                            *)
LEMMA AloneStep ==
  ASSUME Alone, IndexInv, NEW t \in Thread, pc[t] # "idle",
         NEW l \in T!Label, pc' = [pc EXCEPT ![t] = l]
  PROVE  /\ Alone'
         /\ \A u \in Thread : u # t => pc'[u] = "idle"
         /\ pc'[t] = l
         /\ l # "idle" => ~T!Quiet'
<1>1. \A u \in Thread : u # t => pc[u] = "idle"
  BY DEF Alone
<1>2. pc \in [Thread -> T!Label]
  BY DEF IndexInv
<1>3. \A u \in Thread : u # t => pc'[u] = "idle"
  BY <1>1, <1>2
<1>4. pc'[t] = l
  BY <1>2
<1>5. QED
  BY <1>3, <1>4 DEF Alone, T!Quiet

LEMMA StepExact ==
  ASSUME IndexInv, ExactInv, NEW t \in Thread, T!Step(t)
  PROVE  ExactInv'
<1> SUFFICES ASSUME ~overlapped'
             PROVE  Alone' /\ (T!Quiet' => tcount' = T!Distance') /\ \A u \in Thread : Exact(u)'
  BY Zenon DEF ExactInv
<1>a. ~overlapped
  <2>1. CASE T!PutGuard(t) \/ T!GetGuard(t)
    BY <2>1, Zenon DEF T!PutGuard, T!GetGuard, T!Enter
  <2>2. CASE (\E e \in ThreadEvent : T!PutSlot(t, e)) \/ T!GetSlot(t)
    BY <2>2, Zenon DEF T!PutSlot, T!GetSlot
  <2>3. CASE T!LoadRear(t) \/ T!LoadFront(t)
    BY <2>3, Zenon DEF T!LoadRear, T!LoadFront
  <2>4. CASE T!StoreRear(t) \/ T!StoreFront(t)
    BY <2>4, Zenon DEF T!StoreRear, T!StoreFront
  <2>5. CASE T!LoadCount(t) \/ T!StoreCount(t)
    BY <2>5, Zenon DEF T!LoadCount, T!StoreCount
  <2>6. QED
    BY <2>1, <2>2, <2>3, <2>4, <2>5 DEF T!Step
<1>b. Alone /\ (T!Quiet => tcount = T!Distance) /\ Exact(t)
  BY <1>a, Zenon DEF ExactInv
<1>c. /\ tfront \in T!Slot /\ trear \in T!Slot /\ tcount \in Int
      /\ pc \in [Thread -> T!Label] /\ reg \in [Thread -> Int]
  BY DEF IndexInv
<1>d. T!Slot \subseteq Int
  BY DEF T!Slot
<1>e. T!Distance = Between(tfront, trear) /\ T!Distance' = Between(tfront', trear')
  BY DEF T!Distance, Between
<1>1. ASSUME T!PutGuard(t) \/ T!GetGuard(t)
      PROVE  Alone' /\ (T!Quiet' => tcount' = T!Distance') /\ \A u \in Thread : Exact(u)'
  <2>1. UNCHANGED <<tfront, trear, tcount>> /\ pc[t] = "idle"
    BY <1>1 DEF T!PutGuard, T!GetGuard, T!ring
  <2>2. CASE pc' = pc
    <3>1. \A u \in Thread : Exact(u) => Exact(u)'
      <4>1. reg' = reg
        BY <1>1 DEF T!PutGuard, T!GetGuard
      <4>2. QED
        BY <2>1, <2>2, <4>1 DEF Exact, T!Distance
    <3>2. \A u \in Thread : Exact(u)
      BY <1>a, Zenon DEF ExactInv
    <3>3. QED
      BY <1>b, <2>1, <2>2, <3>1, <3>2 DEF Alone, T!Quiet, T!Distance
  <2>3. CASE T!Enter(t) /\ \/ T!After(trear) # tfront /\ pc' = [pc EXCEPT ![t] = "put_slot"]
                           \/ trear # tfront /\ pc' = [pc EXCEPT ![t] = "get_slot"]
    <3>1. T!Quiet
      BY <2>3, Zenon DEF T!Enter
    <3>2. tcount = T!Distance /\ \A u \in Thread : u # t => pc'[u] = "idle"
      BY <1>b, <1>c, <2>3, <3>1 DEF T!Quiet
    <3>3. pc'[t] \in {"put_slot", "get_slot"}
      BY <1>c, <2>3
    <3>4. Exact(t)'
      BY <1>c, <2>1, <2>3, <3>2, <3>3 DEF Exact, T!Distance
    <3>5. \A u \in Thread : u # t => Exact(u)'
      BY <3>2 DEF Exact
    <3>6. Alone' /\ ~T!Quiet'
      BY <3>2, <3>3 DEF Alone, T!Quiet
    <3>7. QED
      BY <3>4, <3>5, <3>6
  <2>4. QED
    BY <1>1, <2>2, <2>3 DEF T!PutGuard, T!GetGuard, T!Goto
<1>2. ASSUME pc[t] # "idle", NEW l \in T!Label, pc' = [pc EXCEPT ![t] = l],
             l = "idle" => tcount' = T!Distance', pc'[t] = l => Exact(t)'
      PROVE  Alone' /\ (T!Quiet' => tcount' = T!Distance') /\ \A u \in Thread : Exact(u)'
  <2>1. Alone' /\ (\A u \in Thread : u # t => pc'[u] = "idle") /\ pc'[t] = l
        /\ (l # "idle" => ~T!Quiet')
    BY <1>b, <1>2, AloneStep
  <2>2. \A u \in Thread : u # t => Exact(u)'
    BY <2>1 DEF Exact
  <2>3. QED
    BY <1>2, <2>1, <2>2
<1>3. CASE (\E e \in ThreadEvent : T!PutSlot(t, e)) \/ T!GetSlot(t)
  <2>1. UNCHANGED <<tfront, trear, tcount, reg>>
        /\ \/ pc[t] = "put_slot" /\ pc' = [pc EXCEPT ![t] = "put_rear"]
           \/ pc[t] = "get_slot" /\ pc' = [pc EXCEPT ![t] = "get_front"]
    BY <1>3 DEF T!PutSlot, T!GetSlot, T!Goto, T!ring
  <2>2. QED
    BY <1>b, <1>c, <1>2, <2>1 DEF Exact, T!Distance, T!Label
<1>4. CASE T!LoadRear(t) \/ T!LoadFront(t)
  <2>1. UNCHANGED <<tfront, trear, tcount>>
        /\ \/ pc[t] = "put_rear" /\ pc' = [pc EXCEPT ![t] = "put_rear_store"]
              /\ reg' = [reg EXCEPT ![t] = T!After(trear)]
           \/ pc[t] = "get_front" /\ pc' = [pc EXCEPT ![t] = "get_front_store"]
              /\ reg' = [reg EXCEPT ![t] = T!After(tfront)]
    BY <1>4 DEF T!LoadRear, T!LoadFront, T!Load, T!Goto, T!ring
  <2>2. T!After(trear)' = T!After(trear) /\ T!After(tfront)' = T!After(tfront)
    BY <2>1 DEF T!After
  <2>3. QED
    BY <1>b, <1>c, <1>2, <2>1, <2>2 DEF Exact, T!Distance, T!Label
<1>5. CASE T!StoreRear(t)
  <2>1. UNCHANGED <<tfront, tcount, reg>> /\ pc[t] = "put_rear_store"
        /\ pc' = [pc EXCEPT ![t] = "put_count"] /\ trear' = reg[t]
    BY <1>5 DEF T!StoreRear, T!Goto
  <2>2. tcount = Between(tfront, trear) /\ T!After(trear) # tfront /\ trear' = T!After(trear)
    BY <1>b, <1>e, <2>1 DEF Exact
  <2>3. tcount + 1 = T!Distance'
    BY <1>c, <1>e, <2>1, <2>2, RearMoves
  <2>4. QED
    BY <1>c, <1>2, <2>1, <2>3 DEF Exact, T!Label
<1>6. CASE T!StoreFront(t)
  <2>1. UNCHANGED <<trear, tcount, reg>> /\ pc[t] = "get_front_store"
        /\ pc' = [pc EXCEPT ![t] = "get_count"] /\ tfront' = reg[t]
    BY <1>6 DEF T!StoreFront, T!Goto
  <2>2. tcount = Between(tfront, trear) /\ trear # tfront /\ tfront' = T!After(tfront)
    BY <1>b, <1>e, <2>1 DEF Exact
  <2>3. tcount - 1 = T!Distance'
    BY <1>c, <1>e, <2>1, <2>2, FrontMoves
  <2>4. QED
    BY <1>c, <1>2, <2>1, <2>3 DEF Exact, T!Label
<1>7. CASE T!LoadCount(t)
  <2>1. UNCHANGED <<tfront, trear, tcount>>
        /\ \/ pc[t] = "put_count" /\ pc' = [pc EXCEPT ![t] = "put_count_store"]
              /\ reg' = [reg EXCEPT ![t] = tcount + 1]
           \/ pc[t] = "get_count" /\ pc' = [pc EXCEPT ![t] = "get_count_store"]
              /\ reg' = [reg EXCEPT ![t] = tcount - 1]
    BY <1>7 DEF T!LoadCount, T!Load, T!Goto, T!ring, T!OneLess
  <2>2. QED
    BY <1>b, <1>c, <1>2, <2>1 DEF Exact, T!Distance, T!Label
<1>8. CASE T!StoreCount(t)
  <2>1. UNCHANGED <<tfront, trear>> /\ pc[t] \in {"put_count_store", "get_count_store"}
        /\ pc' = [pc EXCEPT ![t] = "idle"] /\ tcount' = reg[t]
    BY <1>8 DEF T!StoreCount, T!Goto
  <2>2. tcount' = T!Distance'
    BY <1>b, <1>c, <2>1 DEF Exact, T!Distance
  <2>3. QED
    BY <1>c, <1>2, <2>1, <2>2 DEF Exact, T!Label
<1>9. QED
  BY <1>1, <1>3, <1>4, <1>5, <1>6, <1>7, <1>8 DEF T!Step

LEMMA NextExact == IndexInv /\ ExactInv /\ [T!Next]_(T!vars) => ExactInv'
<1>1. ASSUME ExactInv, UNCHANGED T!vars PROVE ExactInv'
  <2>1. UNCHANGED <<tfront, trear, tcount, pc, reg>>
    BY <1>1 DEF T!vars, T!ring
  <2>2. overlapped' <=> overlapped
    BY <1>1, Zenon DEF T!vars
  <2>3. \A t \in Thread : Exact(t)' <=> Exact(t)
    BY <2>1 DEF Exact, T!Distance, T!After
  <2>4. (Alone' <=> Alone) /\ (T!Quiet' <=> T!Quiet) /\ T!Distance' = T!Distance /\ tcount' = tcount
    BY <2>1 DEF Alone, T!Quiet, T!Distance
  <2>5. QED
    BY <1>1, <2>2, <2>3, <2>4, Zenon DEF ExactInv
<1>2. QED
  BY <1>1, StepExact DEF T!Next

(* Calls of different threads that never overlap leave the counter of the  *)
(* ring exact (queue.c:38-63).                                             *)
THEOREM ExactWithoutOverlap == T!Spec => []CountExactWithoutOverlap
<1>1. ExactInv => CountExactWithoutOverlap
  BY Zenon DEF ExactInv, CountExactWithoutOverlap, T!CountExactWithoutOverlap
<1>2. T!Init => IndexInv /\ ExactInv
  BY InitIndex, InitExact
<1>3. QED
  BY <1>1, <1>2, NextIndex, NextExact, PTL DEF T!Spec
-----------------------------------------------------------------------------
(* The detectors of the sampling chip.                                     *)
(***************************************************************************)
(* A second more on a counter of BYTE values (ATT7022E.c: uint8_t).        *)
LEMMA SecondMore ==
  ASSUME NEW c \in 0 .. BYTE - 1
  PROVE  (c + 1) % BYTE \in 0 .. BYTE - 1 /\ (c + 1) % BYTE <= c + 1
<1>1. BYTE \in Nat /\ BYTE >= 1 /\ c \in 0 .. BYTE - 1
  BY DetectorAssumption
<1>2. CASE c = BYTE - 1
  <2>1. BYTE % BYTE = 0
    BY <1>1, SMTT(30)
  <2>2. QED
    BY <1>1, <1>2, <2>1
<1>3. CASE c # BYTE - 1
  <2>1. (c + 1) % BYTE = c + 1
    BY <1>1, <1>3, SMTT(30)
  <2>2. QED
    BY <1>1, <1>3, <2>1
<1>4. QED
  BY <1>2, <1>3

Time(d) == TIME[d[2]]

(* While a detector counts, the checks have seen its condition contradict  *)
(* its bit at least as long as it has counted, or for TIME seconds.        *)
Counted(d) ==
  /\ flag[d] = 0 => seconds[d] = 0
  /\ flag[d] # 0 => \/ stale[d]
                    \/ ev[d] /\ d \in A!OtherWayBack
                    \/ held[d] >= 0 /\ (held[d] = Time(d) \/ held[d] >= seconds[d])

Readings == [U : PerPhase, I : PerPhase, Y : PerPhase, PhSregpq : PerPhase]
ReadingInv == now \in Readings

DetectorInv ==
  /\ watched \in Watched
  /\ ev \in [A!Detectors -> BOOLEAN] /\ stale \in [A!Detectors -> BOOLEAN]
  /\ flag \in [A!Detectors -> 0 .. 2]
  /\ seconds \in [A!Detectors -> 0 .. BYTE - 1]
  /\ held \in [A!Detectors -> Int]
  /\ \A d \in A!Detectors : held[d] >= -1 /\ held[d] <= Time(d)
  /\ \A d \in A!Detectors : Counted(d)
  /\ at[2] = "compare" /\ at[1] \in 1 .. Len(watched) => flag[watched[at[1]]] # 0

LEMMA TimesAreNumbers ==
  ASSUME watched \in Watched, NEW d \in A!Detectors
  PROVE  Time(d) \in Nat
BY DetectorAssumption DEF A!Detectors, Time

LEMMA WatchedAt ==
  ASSUME NEW d, NEW s, A!IsAt(d, s)
  PROVE  d \in A!Detectors
BY DEF A!IsAt, A!Detectors

LEMMA InitDetectors == ASSUME A!Init PROVE DetectorInv
<1>1. watched \in Watched /\ \A d \in A!Detectors : Time(d) \in Nat
  BY TimesAreNumbers DEF A!Init
<1>2. QED
  BY <1>1, DetectorAssumption DEF A!Init, DetectorInv, Counted

(* What a look at the condition of d does, whatever the condition is.      *)
Looked(d) ==
  /\ A!IsAt(d, "look")
  /\ \/ A!Restart(d) /\ A!GoOn /\ \E h \in {-1, 0, held[d]} : held' = [held EXCEPT ![d] = h]
     \/ /\ flag' = [flag EXCEPT ![d] = IF ev[d] THEN 2 ELSE 1]
        /\ at' = <<at[1], "compare">>
        /\ UNCHANGED <<seconds, stale>>
        /\ \E h \in {-1, 0, held[d]} :
             /\ held' = [held EXCEPT ![d] = h]
             /\ h = (IF held[d] = -1 THEN 0 ELSE held[d]) \/ (ev[d] /\ d \in A!OtherWayBack)
  /\ UNCHANGED <<watched, now, ev>>

LEMMA LookedKeeps ==
  ASSUME DetectorInv, NEW d, Looked(d)
  PROVE  DetectorInv'
<1>1. d \in A!Detectors /\ A!IsAt(d, "look") /\ UNCHANGED <<watched, ev>>
  BY WatchedAt DEF Looked
<1>2. \A u \in A!Detectors : Time(u) \in Nat
  BY TimesAreNumbers DEF DetectorInv
<1>3. A!Detectors' = A!Detectors
  BY <1>1 DEF A!Detectors
<1>4. CASE A!Restart(d) /\ A!GoOn /\ \E h \in {-1, 0, held[d]} : held' = [held EXCEPT ![d] = h]
  BY <1>1, <1>2, <1>3, <1>4, DetectorAssumption DEF DetectorInv, Counted, A!Restart, A!GoOn, Time
<1>5. CASE /\ flag' = [flag EXCEPT ![d] = IF ev[d] THEN 2 ELSE 1]
           /\ at' = <<at[1], "compare">>
           /\ UNCHANGED <<seconds, stale>>
           /\ \E h \in {-1, 0, held[d]} :
                /\ held' = [held EXCEPT ![d] = h]
                /\ h = (IF held[d] = -1 THEN 0 ELSE held[d]) \/ (ev[d] /\ d \in A!OtherWayBack)
  <2>1. \A u \in A!Detectors : Counted(u)'
    BY <1>1, <1>2, <1>3, <1>5, DetectorAssumption DEF DetectorInv, Counted, Time
  <2>2. flag'[watched[at[1]]] # 0
    BY <1>1, <1>5 DEF DetectorInv, A!IsAt
  <2>3. QED
    BY <1>1, <1>2, <1>3, <1>5, <2>1, <2>2, DetectorAssumption DEF DetectorInv, Time
<1>6. QED
  BY <1>4, <1>5 DEF Looked

LEMMA DecideKeeps ==
  ASSUME DetectorInv, NEW d, A!Decide(d)
  PROVE  DetectorInv'
<1>1. d \in A!Detectors /\ UNCHANGED watched
  BY WatchedAt DEF A!Decide
<1>2. Time(d) \in Nat
  BY <1>1, TimesAreNumbers DEF DetectorInv
<1>3. A!Detectors' = A!Detectors
  BY <1>1 DEF A!Detectors
<1>4. at'[2] # "compare"
  BY DEF A!Decide, A!GoOn
<1>5. CASE A!Restart(d) /\ ev' = [ev EXCEPT ![d] = ~@] /\ held' = [held EXCEPT ![d] = -1]
  <2>1. ev' \in [A!Detectors -> BOOLEAN]
    BY <1>1, <1>5 DEF DetectorInv
  <2>2. /\ stale' \in [A!Detectors -> BOOLEAN] /\ flag' \in [A!Detectors -> 0 .. 2]
        /\ seconds' \in [A!Detectors -> 0 .. BYTE - 1] /\ held' \in [A!Detectors -> Int]
    BY <1>1, <1>5, DetectorAssumption DEF DetectorInv, A!Restart
  <2>3. \A u \in A!Detectors : Counted(u)'
    BY <1>1, <1>5 DEF DetectorInv, Counted, A!Restart, Time
  <2>4. \A u \in A!Detectors : held'[u] >= -1 /\ held'[u] <= Time(u)
    BY <1>1, <1>2, <1>5 DEF DetectorInv
  <2>5. QED
    BY <1>1, <1>3, <1>4, <2>1, <2>2, <2>3, <2>4 DEF DetectorInv, Time
<1>6. CASE UNCHANGED <<ev, flag, seconds, held, stale>>
  BY <1>1, <1>3, <1>4, <1>6 DEF DetectorInv, Counted, Time
<1>7. QED
  BY <1>5, <1>6 DEF A!Decide

LEMMA SkipKeeps ==
  ASSUME DetectorInv, NEW d, A!Skip(d)
  PROVE  DetectorInv'
<1>1. d \in A!Detectors /\ UNCHANGED <<watched, ev, flag, seconds>>
  BY WatchedAt DEF A!Skip
<1>2. Time(d) \in Nat
  BY <1>1, TimesAreNumbers DEF DetectorInv
<1>3. A!Detectors' = A!Detectors
  BY <1>1 DEF A!Detectors
<1>4. at'[2] # "compare" /\ held' = [held EXCEPT ![d] = -1]
  BY DEF A!Skip, A!GoOn
<1>5. PICK b \in BOOLEAN : b <=> flag[d] # 0
  OBVIOUS
<1>6. stale' = [stale EXCEPT ![d] = b]
  BY <1>5 DEF A!Skip
<1>7. stale' \in [A!Detectors -> BOOLEAN] /\ held' \in [A!Detectors -> Int]
  BY <1>1, <1>4, <1>6 DEF DetectorInv
<1>8. \A u \in A!Detectors : Counted(u)'
  BY <1>1, <1>4, <1>5, <1>6 DEF DetectorInv, Counted, Time
<1>9. \A u \in A!Detectors : held'[u] >= -1 /\ held'[u] <= Time(u)
  BY <1>1, <1>2, <1>4 DEF DetectorInv
<1>10. QED
  BY <1>1, <1>3, <1>4, <1>7, <1>8, <1>9 DEF DetectorInv, Time

LEMMA TimerKeeps ==
  ASSUME DetectorInv, A!Timer1000ms
  PROVE  DetectorInv'
<1>1. UNCHANGED <<watched, at, ev, flag, stale>> /\ A!Detectors' = A!Detectors
  BY DEF A!Timer1000ms, A!Detectors
<1>2. ASSUME NEW d \in A!Detectors
      PROVE  /\ seconds'[d] \in 0 .. BYTE - 1
             /\ held'[d] \in Int /\ held'[d] >= -1 /\ held'[d] <= Time(d)
             /\ Counted(d)'
  <2>1. Time(d) \in Nat /\ seconds[d] \in 0 .. BYTE - 1 /\ held[d] \in Int
        /\ held[d] >= -1 /\ held[d] <= Time(d) /\ Counted(d)
    BY <1>2, TimesAreNumbers DEF DetectorInv
  <2>2. PICK c \in 0 .. BYTE - 1 : c = (seconds[d] + 1) % BYTE /\ c <= seconds[d] + 1
    BY <2>1, SecondMore
  <2>3. seconds'[d] = IF flag[d] # 0 THEN c ELSE seconds[d]
    BY <1>2, <2>2 DEF A!Timer1000ms
  <2>4. held'[d] = IF held[d] \in 0 .. Time(d) - 1 THEN held[d] + 1 ELSE held[d]
    BY <1>2 DEF A!Timer1000ms, Time
  <2>5. BYTE \in Nat /\ c \in Int /\ seconds[d] \in Int
    BY <2>1, <2>2, DetectorAssumption
  <2>6. Counted(d)'
    BY <1>1, <2>1, <2>2, <2>3, <2>4, <2>5 DEF Counted, Time
  <2>7. QED
    BY <2>1, <2>2, <2>3, <2>4, <2>5, <2>6
<1>3. seconds' \in [A!Detectors -> 0 .. BYTE - 1] /\ held' \in [A!Detectors -> Int]
  <2>1. seconds' = [d \in A!Detectors |-> seconds'[d]] /\ held' = [d \in A!Detectors |-> held'[d]]
    BY DEF A!Timer1000ms
  <2>2. QED
    BY <1>2, <2>1
<1>4. QED
  BY <1>1, <1>2, <1>3 DEF DetectorInv, Time

(* What a detector asks is true or false, and what sets its bit keeps it,  *)
(* but for two.                                                            *)
LEMMA LookLooks ==
  ASSUME DetectorInv, NEW d, NEW sets \in BOOLEAN, NEW keeps \in BOOLEAN,
         sets = keeps \/ d \in A!OtherWayBack, A!Look(d, sets, keeps)
  PROVE  Looked(d)
<1>1. d \in A!Detectors /\ ev[d] \in BOOLEAN
  BY WatchedAt DEF A!Look, DetectorInv
<1>2. PICK h : h = IF sets = ev[d] THEN -1 ELSE IF held[d] = -1 THEN 0 ELSE held[d]
  OBVIOUS
<1>3. h \in {-1, 0, held[d]} /\ held' = [held EXCEPT ![d] = h]
  BY <1>1, <1>2 DEF A!Look, DetectorInv
<1>4. CASE ~ (IF ev[d] THEN keeps ELSE ~sets)
  <2>1. sets # ev[d] \/ (ev[d] /\ d \in A!OtherWayBack)
    <3>1. CASE ev[d]
      <4>1. keeps = FALSE /\ ev[d] = TRUE
        BY <1>1, <1>4, <3>1
      <4>2. QED
        BY <3>1, <4>1
    <3>2. CASE ~ev[d]
      <4>1. sets = TRUE /\ ev[d] = FALSE
        BY <1>1, <1>4, <3>2
      <4>2. QED
        BY <4>1
    <3>3. QED
      BY <3>1, <3>2
  <2>2. h = (IF held[d] = -1 THEN 0 ELSE held[d]) \/ (ev[d] /\ d \in A!OtherWayBack)
    BY <1>2, <2>1
  <2>3. QED
    BY <1>3, <1>4, <2>2 DEF A!Look, Looked
<1>5. CASE IF ev[d] THEN keeps ELSE ~sets
  BY <1>3, <1>5 DEF A!Look, Looked
<1>6. QED
  BY <1>4, <1>5

(* The detectors of one phase, and of all three.                           *)
Watches(d) == Looked(d) \/ A!Decide(d) \/ A!Skip(d)

LEMMA PhaseWatches ==
  ASSUME DetectorInv, ReadingInv, NEW p \in A!Phase,
         \/ A!NoVoltage(p) \/ A!LowVoltage(p) \/ A!OverVoltage(p)
         \/ A!NoPhSregpq(p) \/ A!NoCurrent(p) \/ A!OverCurrent(p)
  PROVE  \E d : Watches(d)
<1>1. CASE A!NoVoltage(p)
  <2>1. PICK c \in BOOLEAN : c = (now.U[p] < NO_VOLTAGE_U /\ now.I[p] > NO_VOLTAGE_I)
    OBVIOUS
  <2>2. A!Look(<<p, "NO_VOLTAGE">>, c, c) \/ A!Decide(<<p, "NO_VOLTAGE">>)
    BY <1>1, <2>1 DEF A!NoVoltage, A!Detect
  <2>3. QED
    BY <2>2, LookLooks DEF Watches
<1>2. CASE A!LowVoltage(p)
  <2>1. PICK c \in BOOLEAN : c = (now.U[p] < LOW_VOLTAGE_U /\ now.U[p] > NO_VOLTAGE_U /\ now.I[p] > LOW_VOLTAGE_I)
    OBVIOUS
  <2>2. A!Look(<<p, "LOW_VOLTAGE">>, c, c) \/ A!Decide(<<p, "LOW_VOLTAGE">>)
    BY <1>2, <2>1 DEF A!LowVoltage, A!Detect
  <2>3. QED
    BY <2>2, LookLooks DEF Watches
<1>3. CASE A!OverVoltage(p)
  <2>0. now.U[p] \in Int /\ OVER_VOLTAGE_U \in Int
    BY DetectorAssumption DEF ReadingInv, Readings, PerPhase, A!Phase
  <2>1. PICK c \in BOOLEAN : c <=> (now.U[p] > OVER_VOLTAGE_U)
    OBVIOUS
  <2>2. A!Look(<<p, "OVER_VOLTAGE">>, c, c) \/ A!Decide(<<p, "OVER_VOLTAGE">>)
    BY <1>3, <2>0, <2>1 DEF A!OverVoltage, A!Detect, A!Look
  <2>3. QED
    BY <2>2, LookLooks DEF Watches
<1>4. CASE A!NoCurrent(p)
  <2>1. PICK c \in BOOLEAN : c = (A!Started /\ now.I[p] < START_I /\ \E q \in A!Phase \ {p} : A!Loaded(q))
    OBVIOUS
  <2>2. A!Look(<<p, "NO_CURRENT">>, c, c) \/ A!Decide(<<p, "NO_CURRENT">>)
    BY <1>4, <2>1 DEF A!NoCurrent, A!Detect
  <2>3. QED
    BY <2>2, LookLooks DEF Watches
<1>5. CASE A!OverCurrent(p)
  <2>1. PICK c \in BOOLEAN : c = (A!Started /\ now.I[p] > RATED_I)
    OBVIOUS
  <2>2. A!Look(<<p, "OVER_CURRENT">>, c, c) \/ A!Decide(<<p, "OVER_CURRENT">>)
    BY <1>5, <2>1 DEF A!OverCurrent, A!Detect
  <2>3. QED
    BY <2>2, LookLooks DEF Watches
<1>6. CASE A!NoPhSregpq(p)
  <2> DEFINE q == IF p = "C" THEN "B" ELSE p
             d == <<p, "NO_PHSREGPQ">>
  <2>1. PICK c \in BOOLEAN : c = (now.U[p] < NO_PHSREGPQ_U /\ now.I[p] < NO_PHSREGPQ_I)
    OBVIOUS
  <2>2. PICK k \in BOOLEAN : k = (now.U[q] < NO_PHSREGPQ_U /\ now.I[q] < NO_PHSREGPQ_I)
    OBVIOUS
  <2>3. c = k \/ d \in A!OtherWayBack
    BY <2>1, <2>2 DEF A!OtherWayBack
  <2>4. A!Look(d, c, k) \/ A!Decide(d)
    BY <1>6, <2>1, <2>2 DEF A!NoPhSregpq, A!Detect
  <2>5. QED
    BY <2>3, <2>4, LookLooks DEF Watches
<1>7. QED
  BY <1>1, <1>2, <1>3, <1>4, <1>5, <1>6

LEMMA AllPhasesWatch ==
  ASSUME DetectorInv,
         \/ A!AllNoVoltage \/ A!VoltagePhSregpqErr \/ A!CurrentPhSregpqErr
         \/ A!CurrentUnBalance \/ A!VoltageUnBalance
  PROVE  \E d : Watches(d)
<1>1. CASE A!AllNoVoltage
  <2>1. PICK c \in BOOLEAN : c = (\A p \in A!Phase : now.U[p] < START_U /\ A!Loaded(p))
    OBVIOUS
  <2>2. A!Look(<<"ABC", "ALL_NO_VOLTAGE">>, c, c) \/ A!Decide(<<"ABC", "ALL_NO_VOLTAGE">>)
    BY <1>1, <2>1 DEF A!AllNoVoltage, A!Detect
  <2>3. QED
    BY <2>2, LookLooks DEF Watches
<1>2. CASE A!CurrentUnBalance
  <2>1. PICK c \in BOOLEAN : c = ((\E p \in A!Phase : A!Loaded(p)) /\ A!Spread(now.I, CURRENT_PCT))
    OBVIOUS
  <2>2. A!Look(<<"ABC", "CURRENT_UNBALANCE">>, c, c) \/ A!Decide(<<"ABC", "CURRENT_UNBALANCE">>)
    BY <1>2, <2>1 DEF A!CurrentUnBalance, A!Detect
  <2>3. QED
    BY <2>2, LookLooks DEF Watches
<1>3. CASE A!VoltageUnBalance
  <2>1. PICK c \in BOOLEAN : c = ((\E p \in A!Phase : now.U[p] > START_U) /\ A!Spread(now.U, VOLTAGE_PCT))
    OBVIOUS
  <2>2. A!Look(<<"ABC", "VOLTAGE_UNBALANCE">>, c, c) \/ A!Decide(<<"ABC", "VOLTAGE_UNBALANCE">>)
    BY <1>3, <2>1 DEF A!VoltageUnBalance, A!Detect
  <2>3. QED
    BY <2>2, LookLooks DEF Watches
<1>4. CASE A!VoltagePhSregpqErr
  <2> DEFINE d == <<"ABC", "VOLTAGE_PHSREGPQ_ERR">>
  <2>1. PICK c \in BOOLEAN : c = (\/ A!Off(now.Y["A"], 0) > PHSREGPQ_ERR
                                 \/ A!Off(now.Y["B"], 120) > PHSREGPQ_ERR
                                 \/ A!Off(now.Y["C"], 240) > PHSREGPQ_ERR)
    OBVIOUS
  <2>2. PICK k \in BOOLEAN : k = A!Disordered(now.Y)
    BY DEF A!Disordered
  <2>3. d \in A!OtherWayBack
    BY DEF A!OtherWayBack
  <2>4. A!Look(d, c, k) \/ A!Decide(d) \/ A!Skip(d)
    BY <1>4, <2>1, <2>2 DEF A!VoltagePhSregpqErr
  <2>5. QED
    BY <2>3, <2>4, LookLooks DEF Watches
<1>5. CASE A!CurrentPhSregpqErr
  <2> DEFINE d == <<"ABC", "CURRENT_PHSREGPQ_ERR">>
             yi == [p \in A!Phase |-> now.Y[p] + now.PhSregpq[p]]
  <2>1. PICK c \in BOOLEAN : c = A!Disordered(yi)
    BY DEF A!Disordered
  <2>2. A!Look(d, c, c) \/ A!Decide(d) \/ A!Skip(d)
    BY <1>5, <2>1 DEF A!CurrentPhSregpqErr
  <2>3. QED
    BY <2>2, LookLooks DEF Watches
<1>6. QED
  BY <1>1, <1>2, <1>3, <1>4, <1>5

LEMMA InitReading == ASSUME A!Init PROVE ReadingInv
BY DetectorAssumption DEF A!Init, ReadingInv, Readings

LEMMA NextReading == ReadingInv /\ [A!Next]_(A!vars) => ReadingInv'
<1>1. ASSUME ReadingInv, A!Measure PROVE ReadingInv'
  <2>1. PICK m \in Measured : \E angle \in {m.PhSregpq, now.PhSregpq} :
          now' = [m EXCEPT !.PhSregpq = angle]
    BY <1>1 DEF A!Measure
  <2>4. PICK angle \in {m.PhSregpq, now.PhSregpq} : now' = [m EXCEPT !.PhSregpq = angle]
    BY <2>1
  <2>2. m \in Readings /\ angle \in PerPhase
    BY <1>1, <2>4, DetectorAssumption DEF ReadingInv, Readings
  <2>3. QED
    BY <2>4, <2>2 DEF ReadingInv, Readings
<1>2. ASSUME UNCHANGED now PROVE ReadingInv => ReadingInv'
  BY <1>2 DEF ReadingInv
<1>3. A!Next => A!Measure \/ UNCHANGED now
  BY DEF A!Next, A!NoVoltage, A!LowVoltage, A!OverVoltage, A!NoPhSregpq, A!NoCurrent,
         A!OverCurrent, A!AllNoVoltage, A!VoltagePhSregpqErr, A!CurrentPhSregpqErr,
         A!CurrentUnBalance, A!VoltageUnBalance, A!Detect, A!Look, A!Decide, A!Skip, A!Timer1000ms
<1>4. QED
  BY <1>1, <1>2, <1>3 DEF A!vars

LEMMA NextWatches ==
  ASSUME DetectorInv, ReadingInv, A!Next
  PROVE  A!Measure \/ A!Timer1000ms \/ \E d : Watches(d)
BY PhaseWatches, AllPhasesWatch DEF A!Next

LEMMA NextDetectors == DetectorInv /\ ReadingInv /\ [A!Next]_(A!vars) => DetectorInv'
<1>1. ASSUME DetectorInv, A!Measure PROVE DetectorInv'
  <2>1. A!Detectors' = A!Detectors /\ at'[2] # "compare"
    BY <1>1 DEF A!Measure, A!Detectors
  <2>2. QED
    BY <1>1, <2>1 DEF A!Measure, DetectorInv, Counted, Time
<1>2. ASSUME DetectorInv, UNCHANGED A!vars PROVE DetectorInv'
  <2>1. A!Detectors' = A!Detectors
    BY <1>2 DEF A!vars, A!Detectors
  <2>2. QED
    BY <1>2, <2>1 DEF A!vars, DetectorInv, Counted, Time
<1>3. QED
  BY <1>1, <1>2, NextWatches, LookedKeeps, DecideKeeps, SkipKeeps, TimerKeeps DEF Watches

(* What changes a bit is a comparison with TIME.                           *)
LEMMA ChangesAfterTime ==
  ASSUME DetectorInv, ReadingInv, [A!Next]_(A!vars),
         NEW d \in A!Detectors, ev'[d] # ev[d]
  PROVE  held[d] = Time(d) \/ stale[d] \/ (ev[d] /\ d \in A!OtherWayBack)
<1>1. CASE A!Measure \/ A!Timer1000ms \/ UNCHANGED A!vars
  BY <1>1 DEF A!Measure, A!Timer1000ms, A!vars
<1>2. CASE \E u : Looked(u) \/ A!Skip(u)
  BY <1>2 DEF Looked, A!Skip
<1>3. ASSUME NEW u, A!Decide(u)
      PROVE  held[d] = Time(d) \/ stale[d] \/ (ev[d] /\ d \in A!OtherWayBack)
  <2>1. u = d /\ seconds[d] >= Time(d) /\ A!IsAt(d, "compare")
    BY <1>3 DEF A!Decide, DetectorInv, Time
  <2>2. flag[d] # 0
    BY <2>1 DEF A!IsAt, DetectorInv
  <2>3. Time(d) \in Nat /\ held[d] \in Int /\ held[d] <= Time(d) /\ seconds[d] \in Int
    BY TimesAreNumbers, DetectorAssumption DEF DetectorInv
  <2>4. \/ stale[d] \/ (ev[d] /\ d \in A!OtherWayBack)
        \/ held[d] >= 0 /\ (held[d] = Time(d) \/ held[d] >= seconds[d])
    BY <2>2 DEF DetectorInv, Counted
  <2>5. held[d] >= seconds[d] => held[d] = Time(d)
    BY <2>1, <2>3
  <2>6. QED
    BY <2>4, <2>5
<1>4. QED
  BY <1>1, <1>2, <1>3, NextWatches DEF Watches

(* ATT7022E_ACSample_Event and its timer: an event bit changes only after  *)
(* every check of TIME seconds has seen its condition contradict it, but   *)
(* where a check was skipped while the detector counted and for the two    *)
(* detectors that clear their bit on another condition.                    *)
THEOREM BitsChangeAfterTime == A!Spec => ChangedAfterTime
<1>1. DetectorInv /\ ReadingInv /\ [A!Next]_(A!vars) =>
        [\A d \in A!Detectors :
           ev'[d] # ev[d] => \/ held[d] = TIME[d[2]]
                             \/ stale[d]
                             \/ ev[d] /\ d \in A!OtherWayBack]_(A!vars)
  BY ChangesAfterTime DEF Time
<1>2. A!Init => DetectorInv /\ ReadingInv
  BY InitDetectors, InitReading
<1>3. QED
  BY <1>1, <1>2, NextDetectors, NextReading, PTL
     DEF A!Spec, ChangedAfterTime, A!ChangedAfterTime
================================================================================
