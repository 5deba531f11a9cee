--------------------------- MODULE LocalWorkerProofs ---------------------------
(***************************************************************************)
(* What holds of local_worker's work for all values of the constants.      *)
(*                                                                         *)
(* The watch on the current transformers (TaMonitor): the module is polled *)
(* only after the ESAM has accepted it, an answer is taken for another one *)
(* only when a request was sent while an older answer was still due, and   *)
(* otherwise the recorded short circuits have been found since the last    *)
(* callback began.  The reports of the ESAM (EsamCommands): one that is    *)
(* returned as a success is consistent, whatever changes between its       *)
(* parts.  The timer list (TimerList): one timer blinks the LED, and the   *)
(* periodic ones stay.                                                     *)
(***************************************************************************)
EXTENDS LocalWorker, TLAPS

(* Where the program waits for an answer: pc names the request.            *)
Waiting == {"first", "second", "status", "current"}

(* What PolledIsVerified rests on: the authentication of TaModuleInit has  *)
(* passed the ESAM before it waits for the second answer.                  *)
VerifiedInv ==
  /\ caller = "TaModuleInit" =>
       pc \in {"open", "authenticate", "first", "second", "idle", "ended"}
  /\ pc \in {"second", "idle"} \/ caller = "TaModuleCallBack" => verified
  /\ caller \in {"TaModuleInit", "TaModuleCallBack"}

LEMMA InitVerified == Init => VerifiedInv
BY DEF Init, VerifiedInv

LEMMA NextVerified == VerifiedInv /\ [Next]_vars => VerifiedInv'
<1> SUFFICES ASSUME VerifiedInv, [Next]_vars PROVE VerifiedInv'
  OBVIOUS
<1> USE DEF VerifiedInv
<1>1. CASE TaModuleInit
  BY <1>1 DEF TaModuleInit
<1>2. CASE FirstFrame
  BY <1>2 DEF FirstFrame, AuthenticationFails
<1>3. CASE SecondFrame
  BY <1>3 DEF SecondFrame, AuthenticationFails, EsamAccepts
<1>4. CASE Authenticated
  BY <1>4 DEF Authenticated, AuthenticationFails
<1>5. CASE AskStatus
  BY <1>5 DEF AskStatus, Again
<1>6. CASE StoreStatus
  BY <1>6 DEF StoreStatus, Again
<1>7. CASE CheckMac
  BY <1>7 DEF CheckMac, Again
<1>8. CASE AskCurrent
  BY <1>8 DEF AskCurrent, Again
<1>9. CASE StoreBypass
  BY <1>9 DEF StoreBypass, Again
<1>10. CASE TaModuleCallBack
  BY <1>10 DEF TaModuleCallBack
<1>11. CASE ModuleAnswers \/ AnswerLost \/ ReadingChanges \/ CheckTAEvent
  BY <1>11 DEF ModuleAnswers, AnswerLost, ReadingChanges, CheckTAEvent
<1>12. CASE UNCHANGED vars
  BY <1>12 DEF vars
<1>13. QED
  BY <1>1, <1>2, <1>3, <1>4, <1>5, <1>6, <1>7, <1>8, <1>9, <1>10, <1>11, <1>12
     DEF Next, local_worker

(* The module is polled only if the ESAM has once accepted its answer to   *)
(* the random number (Ta_Module.c:119-138, GetTerminalESAMData.c).         *)
THEOREM PolledOnlyVerified == Spec => []PolledIsVerified
<1>1. VerifiedInv => PolledIsVerified
  BY DEF VerifiedInv, PolledIsVerified
<1>2. QED
  BY InitVerified, NextVerified, <1>1, PTL DEF Spec
-----------------------------------------------------------------------------
(* What OwnAnswers rests on: while no request was sent over an older       *)
(* answer, what is on the line and in the driver belongs to the request    *)
(* that is waited for.                                                     *)
Matches(r, l, b) ==
  /\ \A i \in 1..Len(l) : l[i] = r
  /\ \A i \in 1..Len(b) : b[i].request = r

LineInv ==
  /\ line \in Seq(Request) /\ buffer \in Seq(Answer)
  /\ reading \in Readings
  /\ ~overdue /\ pc \in Waiting => Matches(pc, line, buffer)
  /\ foreign => overdue

LEMMA InitLine == Init => LineInv
<1> SUFFICES ASSUME Init PROVE LineInv
  OBVIOUS
<1>1. pc \notin Waiting /\ reading \in Readings
  BY DEF Init, Waiting
<1>2. line \in Seq(Request) /\ buffer \in Seq(Answer)
  BY DEF Init
<1>3. foreign => overdue
  BY DEF Init
<1>4. QED
  BY <1>1, <1>2, <1>3 DEF LineInv

LEMMA StillDueIsSeq == StillDue \in Seq(Request)
<1>1. "older" \in Request
  BY DEF Request
<1>2. <<>> \in Seq(Request) /\ <<"older">> \in Seq(Request)
  BY <1>1
<1>3. CASE line = <<>>
  BY <1>2, <1>3 DEF StillDue
<1>4. CASE line # <<>>
  BY <1>2, <1>4 DEF StillDue
<1>5. QED
  BY <1>3, <1>4

(* A request that is written, and one whose write failed.                  *)
LEMMA SendingLine ==
  ASSUME LineInv, NEW r \in Waiting, ComTaUart_Send(r)
  PROVE  /\ line' \in Seq(Request) /\ buffer' \in Seq(Answer)
         /\ overdue => overdue'
         /\ ~overdue' => Matches(r, line', buffer')
<1>1. line' = Append(StillDue, r) /\ buffer' = <<>>
  BY DEF ComTaUart_Send, Flushed
<1>2. ASSUME overdue PROVE overdue'
  BY <1>2, Zenon DEF ComTaUart_Send
<1>2a. ASSUME ~overdue' PROVE line = <<>>
  BY <1>2a, Zenon DEF ComTaUart_Send
<1>3. StillDue \in Seq(Request) /\ r \in Request
  BY StillDueIsSeq DEF Request, Waiting
<1>4. line = <<>> => line' = <<r>>
  BY <1>1 DEF StillDue
<1>5. line = <<>> => Matches(r, line', buffer')
  BY <1>1, <1>4 DEF Matches
<1>6. line' \in Seq(Request) /\ buffer' \in Seq(Answer)
  BY <1>1, <1>3
<1>7. QED
  BY <1>2, <1>2a, <1>5, <1>6

LEMMA FailedSendLine ==
  ASSUME LineInv, SendFails
  PROVE  /\ line' \in Seq(Request) /\ buffer' \in Seq(Answer)
         /\ overdue => overdue'
         /\ ~overdue' => \A r : Matches(r, line', buffer')
<1>1. line' = StillDue /\ buffer' = <<>>
  BY DEF SendFails, Flushed
<1>2. ASSUME overdue PROVE overdue'
  BY <1>2, Zenon DEF SendFails
<1>2a. ASSUME ~overdue' PROVE line = <<>>
  BY <1>2a, Zenon DEF SendFails
<1>3. line' \in Seq(Request) /\ buffer' \in Seq(Answer)
  BY <1>1, StillDueIsSeq
<1>4. line = <<>> => \A r : Matches(r, line', buffer')
  BY <1>1 DEF StillDue, Matches
<1>5. QED
  BY <1>2, <1>2a, <1>3, <1>4

(* The answer that is taken, or the lack of one.                           *)
LEMMA TakingLine ==
  ASSUME LineInv, pc \in Waiting, Take(pc) \/ NoAnswer
  PROVE  /\ line' \in Seq(Request) /\ buffer' \in Seq(Answer)
         /\ overdue => overdue'
         /\ foreign' => overdue'
<1>1. line' = line /\ buffer' = <<>> /\ (overdue <=> overdue')
  BY DEF Take, NoAnswer
<1>2. ASSUME Take(pc), ~overdue PROVE ~foreign'
  <2>1. Head(buffer).request = pc
    BY <1>2 DEF LineInv, Matches, Take, Accepted
  <2>2. QED
    BY <1>2, <2>1, Zenon DEF LineInv, Take
<1>3. NoAnswer => (foreign' => overdue)
  BY Zenon DEF LineInv, NoAnswer
<1>4. QED
  BY <1>1, <1>2, <1>3 DEF LineInv

LEMMA KeptLine ==
  ASSUME LineInv,
         line' \in Seq(Request), buffer' \in Seq(Answer), reading' \in Readings,
         overdue => overdue', foreign' => foreign \/ overdue',
         ~overdue' /\ pc' \in Waiting => Matches(pc', line', buffer')
  PROVE  LineInv'
BY Zenon DEF LineInv

LEMMA NextLine == LineInv /\ [Next]_vars => LineInv'
<1> SUFFICES ASSUME LineInv, [Next]_vars PROVE LineInv'
  OBVIOUS
<1>a. /\ line \in Seq(Request) /\ buffer \in Seq(Answer) /\ reading \in Readings
      /\ ~overdue /\ pc \in Waiting => Matches(pc, line, buffer)
  BY DEF LineInv
<1>1. CASE TaModuleInit
  <2>1. \/ pc' = "authenticate" /\ buffer' = <<>>
        \/ pc' = "ended" /\ buffer' = buffer
    BY <1>1, Zenon DEF TaModuleInit
  <2>2. line' = line /\ reading' = reading /\ overdue' = overdue /\ foreign' = foreign
    BY <1>1, Zenon DEF TaModuleInit, world
  <2>3. pc' \notin Waiting /\ buffer' \in Seq(Answer)
    <3>1. pc' \in {"authenticate", "ended"} /\ buffer' \in {<<>>, buffer}
      BY <2>1
    <3>2. <<>> \in Seq(Answer) /\ buffer \in Seq(Answer)
      BY <1>a
    <3>3. QED
      BY <3>1, <3>2 DEF Waiting
  <2>4. QED
    BY <1>a, <2>2, <2>3, KeptLine
<1>2. CASE FirstFrame
  <2>1. reading' = reading /\ (foreign' <=> foreign)
    BY <1>2, Zenon DEF FirstFrame, world
  <2>2. CASE ComTaUart_Send("first") /\ pc' = "first"
    <3>1. "first" \in Waiting
      BY DEF Waiting
    <3>2. QED
      BY <1>a, <2>1, <2>2, <3>1, SendingLine, KeptLine
  <2>3. CASE SendFails
    BY <1>a, <2>1, <2>3, FailedSendLine, KeptLine
  <2>4. CASE AuthenticationFails /\ UNCHANGED serial
    <3>1. pc' \notin Waiting
      BY <2>4 DEF AuthenticationFails, Waiting
    <3>2. UNCHANGED <<line, buffer>> /\ (overdue <=> overdue')
      BY <2>4, Zenon DEF serial
    <3>3. QED
      BY <1>a, <2>1, <3>1, <3>2, KeptLine
  <2>5. QED
    BY <1>2, <2>2, <2>3, <2>4 DEF FirstFrame
<1>3. CASE SecondFrame
  <2>1. pc = "first" /\ pc \in Waiting /\ "second" \in Waiting /\ reading' = reading
    BY <1>3 DEF SecondFrame, Waiting, world
  <2>2. CASE EsamAccepts /\ ComTaUart_Send("second") /\ pc' = "second"
               /\ foreign' = (foreign \/ Head(buffer).request # "first")
    <3>1. foreign' => foreign
      BY <2>2, Zenon DEF EsamAccepts
    <3>2. QED
      BY <1>a, <2>1, <2>2, <3>1, SendingLine, KeptLine
  <2>3. CASE (Take("first") \/ NoAnswer) /\ AuthenticationFails
    <3>1. pc' \notin Waiting
      BY <2>3 DEF AuthenticationFails, Waiting
    <3>2. QED
      BY <1>a, <2>1, <2>3, <3>1, TakingLine, KeptLine
  <2>4. QED
    BY <1>3, <2>2, <2>3 DEF SecondFrame
<1>4. CASE Authenticated \/ StoreStatus \/ StoreBypass
  <2>1. pc \in Waiting /\ (Take(pc) \/ NoAnswer)
    BY <1>4 DEF Authenticated, StoreStatus, StoreBypass, Waiting
  <2>2. pc' \notin Waiting
    BY <1>4 DEF Authenticated, StoreStatus, StoreBypass, AuthenticationFails, Again, Waiting
  <2>3. reading' = reading
    BY <1>4 DEF Authenticated, StoreStatus, StoreBypass, world
  <2>4. QED
    BY <1>a, <2>1, <2>2, <2>3, TakingLine, KeptLine
<1>5. CASE AskStatus \/ AskCurrent
  <2>1. reading' = reading /\ (foreign' <=> foreign)
    <3>1. CASE AskStatus
      BY <3>1, Zenon DEF AskStatus, world
    <3>2. CASE AskCurrent
      BY <3>2, Zenon DEF AskCurrent, world
    <3>3. QED
      BY <1>5, <3>1, <3>2
  <2>2. \/ pc' \in Waiting /\ ComTaUart_Send(pc')
        \/ SendFails
    BY <1>5 DEF AskStatus, AskCurrent, Waiting
  <2>3. CASE pc' \in Waiting /\ ComTaUart_Send(pc')
    <3>1. PICK r \in Waiting : r = pc' /\ ComTaUart_Send(r)
      BY <2>3
    <3>2. QED
      BY <1>a, <2>1, <3>1, SendingLine, KeptLine
  <2>4. CASE SendFails
    BY <1>a, <2>1, <2>4, FailedSendLine, KeptLine
  <2>5. QED
    BY <2>2, <2>3, <2>4
<1>6. CASE CheckMac \/ TaModuleCallBack
  <2>1. pc' \notin Waiting
    BY <1>6 DEF CheckMac, TaModuleCallBack, Again, Waiting
  <2>2. UNCHANGED <<line, buffer, reading>> /\ (overdue <=> overdue') /\ (foreign' <=> foreign)
    <3>1. CASE CheckMac
      BY <3>1, Zenon DEF CheckMac, serial, world
    <3>2. CASE TaModuleCallBack
      BY <3>2, Zenon DEF TaModuleCallBack, serial, world
    <3>3. QED
      BY <1>6, <3>1, <3>2
  <2>3. QED
    BY <1>a, <2>1, <2>2, KeptLine
<1>7. CASE ModuleAnswers
  <2>1. PICK control \in {"0x83", "0xC3"} :
          buffer' = Append(buffer, [request |-> Head(line), control |-> control,
                                    reading |-> reading])
    BY <1>7 DEF ModuleAnswers
  <2>2. line # <<>> /\ line' = Tail(line) /\ pc' = pc
    BY <1>7 DEF ModuleAnswers
  <2>3. reading' = reading /\ (overdue <=> overdue') /\ (foreign' <=> foreign)
    BY <1>7, Zenon DEF ModuleAnswers, world
  <2>4. line' \in Seq(Request) /\ buffer' \in Seq(Answer)
    BY <1>a, <2>1, <2>2 DEF Answer
  <2>5. ASSUME Matches(pc, line, buffer) PROVE Matches(pc', line', buffer')
    BY <1>a, <2>1, <2>2, <2>5 DEF Matches
  <2>6. QED
    BY <1>a, <2>2, <2>3, <2>4, <2>5, KeptLine
<1>8. CASE AnswerLost
  <2>1. line # <<>> /\ line' = Tail(line) /\ pc' = pc /\ buffer' = buffer
    BY <1>8 DEF AnswerLost
  <2>2. reading' = reading /\ (overdue <=> overdue') /\ (foreign' <=> foreign)
    BY <1>8, Zenon DEF AnswerLost, world
  <2>3. ASSUME Matches(pc, line, buffer) PROVE Matches(pc', line', buffer')
    BY <1>a, <2>1, <2>3 DEF Matches
  <2>4. line' \in Seq(Request)
    BY <1>a, <2>1
  <2>5. QED
    BY <1>a, <2>1, <2>2, <2>3, <2>4, KeptLine
<1>9. CASE ReadingChanges \/ CheckTAEvent \/ UNCHANGED vars
  <2>1. UNCHANGED <<pc, line, buffer>> /\ (overdue <=> overdue') /\ (foreign' <=> foreign)
    <3>1. CASE ReadingChanges
      BY <3>1, Zenon DEF ReadingChanges, serial
    <3>2. CASE CheckTAEvent
      BY <3>2, Zenon DEF CheckTAEvent, serial
    <3>3. CASE UNCHANGED vars
      BY <3>3, Zenon DEF vars
    <3>4. QED
      BY <1>9, <3>1, <3>2, <3>3
  <2>2. reading' \in Readings
    BY <1>9, <1>a DEF ReadingChanges, CheckTAEvent, vars
  <2>3. QED
    BY <1>a, <2>1, <2>2, KeptLine
<1>10. QED
  BY <1>1, <1>2, <1>3, <1>4, <1>5, <1>6, <1>7, <1>8, <1>9 DEF Next, local_worker

(* No answer is taken for the answer to another request, unless one was    *)
(* sent while an older answer was still due (GetTerminalESAMData.c:291).   *)
THEOREM AnswersAreOwn == Spec => []OwnAnswers
<1>1. LineInv => OwnAnswers
  BY Zenon DEF LineInv, OwnAnswers
<1>2. QED
  BY InitLine, NextLine, <1>1, PTL DEF Spec
-----------------------------------------------------------------------------
(* What RecordsAreMeasured rests on: the present reading is in seen, and   *)
(* so is every short circuit that TaStatus or an answer waited for tells   *)
(* of.                                                                     *)
Genuine(b) == \A i \in 1..Len(b) : Found(b[i].reading) \subseteq seen

MeasuredInv ==
  /\ Found(reading) \subseteq seen
  /\ ~overdue => \A p \in Phase :
                   CIRCUIT_SHORTCUT \in TaStatus[p] => <<p, CIRCUIT_SHORTCUT>> \in seen
  /\ ~overdue /\ pc = "status" => Genuine(buffer)

LEMMA ShortIsFound ==
  ASSUME NEW r, NEW p \in Phase, CIRCUIT_SHORTCUT \in r.bits[p]
  PROVE  <<p, CIRCUIT_SHORTCUT>> \in Found(r)
BY DEF Found

LEMMA InitMeasured == Init => MeasuredInv
<1> SUFFICES ASSUME Init PROVE MeasuredInv
  OBVIOUS
<1>1. seen = Found(reading) /\ TaStatus = None /\ pc # "status"
  BY DEF Init
<1>2. \A p \in Phase : TaStatus[p] = {}
  BY <1>1 DEF None
<1>3. QED
  BY <1>1, <1>2 DEF MeasuredInv

(* A step that leaves the reading, seen and TaStatus alone.                *)
LEMMA KeptMeasured ==
  ASSUME MeasuredInv, UNCHANGED <<reading, seen, TaStatus>>, overdue => overdue',
         ~overdue' /\ pc' = "status" => Genuine(buffer)' \/ (pc = "status" /\ buffer' = buffer)
  PROVE  MeasuredInv'
BY DEF MeasuredInv, Genuine

LEMMA NextMeasured == LineInv /\ MeasuredInv /\ [Next]_vars => MeasuredInv'
<1> SUFFICES ASSUME LineInv, MeasuredInv, [Next]_vars PROVE MeasuredInv'
  OBVIOUS
<1>1. CASE TaModuleInit \/ FirstFrame \/ SecondFrame \/ Authenticated \/ CheckMac \/ AskCurrent
  <2>1. UNCHANGED <<reading, seen, TaStatus>>
    BY <1>1 DEF TaModuleInit, FirstFrame, SecondFrame, Authenticated, CheckMac, AskCurrent, world
  <2>2. pc' # "status"
    BY <1>1 DEF TaModuleInit, FirstFrame, SecondFrame, Authenticated, CheckMac, AskCurrent,
                AuthenticationFails, Again
  <2>3. ASSUME overdue PROVE overdue'
    <3>1. CASE TaModuleInit
      BY <2>3, <3>1, Zenon DEF TaModuleInit
    <3>2. CASE FirstFrame
      BY <2>3, <3>2, Zenon DEF FirstFrame, ComTaUart_Send, SendFails, serial
    <3>3. CASE SecondFrame
      BY <2>3, <3>3, Zenon DEF SecondFrame, ComTaUart_Send, Take, NoAnswer
    <3>4. CASE Authenticated
      BY <2>3, <3>4, Zenon DEF Authenticated, Take, NoAnswer
    <3>5. CASE CheckMac
      BY <2>3, <3>5, Zenon DEF CheckMac, serial
    <3>6. CASE AskCurrent
      BY <2>3, <3>6, Zenon DEF AskCurrent, ComTaUart_Send, SendFails
    <3>7. QED
      BY <1>1, <3>1, <3>2, <3>3, <3>4, <3>5, <3>6
  <2>4. QED
    BY <2>1, <2>2, <2>3, KeptMeasured
<1>2. CASE AskStatus
  <2>1. UNCHANGED <<reading, seen, TaStatus>>
    BY <1>2 DEF AskStatus, world
  <2>2. ASSUME overdue PROVE overdue'
    BY <1>2, <2>2, Zenon DEF AskStatus, ComTaUart_Send, SendFails
  <2>3. buffer' = <<>>
    BY <1>2 DEF AskStatus, ComTaUart_Send, SendFails, Flushed
  <2>4. Genuine(buffer)'
    BY <2>3 DEF Genuine
  <2>5. QED
    BY <2>1, <2>2, <2>4, KeptMeasured
<1>3. CASE StoreStatus
  <2>1. reading' = reading /\ seen' = seen /\ pc = "status" /\ pc' # "status"
    BY <1>3 DEF StoreStatus, Again, world
  <2>2. overdue' <=> overdue
    <3>1. Take("status") \/ NoAnswer
      BY <1>3 DEF StoreStatus
    <3>2. QED
      BY <3>1 DEF Take, NoAnswer
  <2>3. CASE NoAnswer /\ UNCHANGED TaStatus
    BY <2>1, <2>2, <2>3 DEF MeasuredInv
  <2>4. CASE Take("status") /\ \E r \in Says("status") : TaStatus' = r.bits
    <3>1. PICK r \in Says("status") : TaStatus' = r.bits
      BY <2>4
    <3>2. ASSUME ~overdue PROVE Found(r) \subseteq seen
      <4>1. Genuine(buffer) /\ Matches("status", line, buffer)
        BY <2>1, <3>2 DEF MeasuredInv, LineInv, Waiting
      <4>2. buffer # <<>> /\ Head(buffer).control # "0xC3" /\ Head(buffer) = buffer[1]
            /\ 1 \in 1..Len(buffer)
        BY <2>4 DEF Take, Accepted, LineInv
      <4>3. Head(buffer).request = "status"
        BY <4>1, <4>2 DEF Matches
      <4>4. r = Head(buffer).reading
        BY <4>2, <4>3 DEF Says
      <4>5. QED
        BY <4>1, <4>2, <4>4 DEF Genuine
    <3>3. QED
      BY <2>1, <2>2, <3>1, <3>2, ShortIsFound DEF MeasuredInv
  <2>5. QED
    BY <1>3, <2>3, <2>4 DEF StoreStatus
<1>4. CASE StoreBypass
  <2>1. reading' = reading /\ seen' = seen /\ pc' # "status"
    BY <1>4 DEF StoreBypass, Again, world
  <2>2. overdue' <=> overdue
    <3>1. Take("current") \/ NoAnswer
      BY <1>4 DEF StoreBypass
    <3>2. QED
      BY <3>1 DEF Take, NoAnswer
  <2>3. \A p \in Phase : CIRCUIT_SHORTCUT \in TaStatus'[p] => CIRCUIT_SHORTCUT \in TaStatus[p]
    <3>1. CASE TaStatus' = TaStatus
      BY <3>1
    <3>2. CASE \E r \in Says("current") : \E without \in Bypassed(r) :
                  TaStatus' = [p \in Phase |-> TaStatus[p] \union
                                 IF p \in without THEN {CIRCUIT_FONT_SHORTCUT} ELSE {}]
      BY <3>2 DEF CIRCUIT_SHORTCUT, CIRCUIT_FONT_SHORTCUT
    <3>3. QED
      BY <1>4, <3>1, <3>2, Zenon DEF StoreBypass
  <2>4. QED
    BY <2>1, <2>2, <2>3 DEF MeasuredInv
<1>5. CASE TaModuleCallBack
  <2>1. seen' = Found(reading) /\ reading' = reading /\ pc' # "status" /\ TaStatus' = None
    BY <1>5 DEF TaModuleCallBack, world, Cleared
  <2>2. \A p \in Phase : TaStatus'[p] = {}
    BY <2>1 DEF None
  <2>3. QED
    BY <2>1, <2>2 DEF MeasuredInv
<1>6. CASE ModuleAnswers
  <2>1. PICK control \in {"0x83", "0xC3"} :
          buffer' = Append(buffer, [request |-> Head(line), control |-> control,
                                    reading |-> reading])
    BY <1>6 DEF ModuleAnswers
  <2>2. UNCHANGED <<reading, seen, TaStatus>> /\ pc' = pc
    BY <1>6 DEF ModuleAnswers, world
  <2>3. overdue' <=> overdue
    BY <1>6, Zenon DEF ModuleAnswers
  <2>4. ASSUME Genuine(buffer) PROVE Genuine(buffer)'
    <3>1. buffer \in Seq(Answer) /\ Found(reading) \subseteq seen
      BY DEF LineInv, MeasuredInv
    <3>2. Len(buffer') = Len(buffer) + 1
          /\ buffer'[Len(buffer) + 1].reading = reading
          /\ \A i \in 1..Len(buffer) : buffer'[i] = buffer[i]
      BY <2>1, <3>1
    <3>3. QED
      BY <2>2, <2>4, <3>1, <3>2 DEF Genuine
  <2>5. QED
    BY <2>2, <2>3, <2>4 DEF MeasuredInv
<1>7. CASE AnswerLost
  <2>1. UNCHANGED <<reading, seen, TaStatus, pc, buffer>>
    BY <1>7 DEF AnswerLost, world
  <2>2. overdue' <=> overdue
    BY <1>7, Zenon DEF AnswerLost
  <2>3. QED
    BY <2>1, <2>2, KeptMeasured
<1>8. CASE ReadingChanges
  <2>1. seen' = seen \union Found(reading') /\ UNCHANGED <<TaStatus, pc, buffer>>
    BY <1>8 DEF ReadingChanges, serial
  <2>2. overdue' <=> overdue
    BY <1>8, Zenon DEF ReadingChanges, serial
  <2>3. QED
    BY <2>1, <2>2 DEF MeasuredInv, Genuine
<1>9. CASE CheckTAEvent \/ UNCHANGED vars
  <2>1. UNCHANGED <<reading, seen, TaStatus, pc, buffer>>
    BY <1>9 DEF CheckTAEvent, vars, serial
  <2>2. overdue' <=> overdue
    <3>1. CASE CheckTAEvent
      BY <3>1, Zenon DEF CheckTAEvent, serial
    <3>2. CASE UNCHANGED vars
      BY <3>2, Zenon DEF vars
    <3>3. QED
      BY <1>9, <3>1, <3>2
  <2>3. QED
    BY <2>1, <2>2, KeptMeasured
<1>10. QED
  BY <1>1, <1>2, <1>3, <1>4, <1>5, <1>6, <1>7, <1>8, <1>9 DEF Next, local_worker

(* Under the same condition every ERC34 record of a short circuit names    *)
(* phases that were found short-circuited since the last callback began    *)
(* (Ta_Module.c:50, EventRecord.c CheckTAEvent).                           *)
THEOREM RecordsMeasured == Spec => RecordsAreMeasured
<1>1. LineInv /\ MeasuredInv /\ [Next]_vars =>
        [\A r \in erc34' \ erc34 : overdue \/ \A p \in r.phases : <<p, CIRCUIT_SHORTCUT>> \in seen]_vars
  <2> SUFFICES ASSUME MeasuredInv, Next, ~overdue,
                      NEW r \in erc34' \ erc34, NEW p \in r.phases
               PROVE  <<p, CIRCUIT_SHORTCUT>> \in seen
    OBVIOUS
  <2>1. erc34' # erc34
    OBVIOUS
  <2>2. CheckTAEvent
    BY <2>1, Zenon DEF Next, local_worker, TaModuleInit, FirstFrame, SecondFrame, Authenticated,
                AskStatus, StoreStatus, CheckMac, AskCurrent, StoreBypass, TaModuleCallBack,
                ModuleAnswers, AnswerLost, ReadingChanges, world
  <2>3. p \in Short
    BY <2>2 DEF CheckTAEvent
  <2>4. p \in Phase /\ CIRCUIT_SHORTCUT \in TaStatus[p]
    BY <2>3 DEF Short
  <2>5. QED
    BY <2>4 DEF MeasuredInv
<1>2. QED
  BY <1>1, InitLine, NextLine, InitMeasured, NextMeasured, PTL DEF Spec, RecordsAreMeasured
-----------------------------------------------------------------------------
(* The reports of the ESAM (EsamCommands).  The buffer grows field by      *)
(* field while the ESAM may change its state; what a report promises rests *)
(* on what the buffer holds after each exchange.                           *)
Authen == "GetTerminalSecurityAuthenInfo"
Info == "GetTermESAMInfo"
Certi == "MainStaGetTermCertiInfo"

(* What each of them asks for.                                            *)
LEMMA Scripts ==
  /\ Len(E!Script(Authen)) = 6
  /\ E!Script(Authen)[1] = "serial" /\ E!Script(Authen)[2] = "status"
  /\ E!Script(Authen)[3] = "certificate" /\ E!Script(Authen)[4] = "counter"
  /\ E!Script(Authen)[5] = "version" /\ E!Script(Authen)[6] = "R5"
  /\ Len(E!Script(Info)) = 5
  /\ E!Script(Info)[1] = "serial" /\ E!Script(Info)[2] = "status"
  /\ E!Script(Info)[3] = "certificate" /\ E!Script(Info)[4] = "counter"
  /\ E!Script(Info)[5] = "version"
  /\ Len(E!Script(Certi)) = 6
  /\ E!Script(Certi)[1] = "serial" /\ E!Script(Certi)[2] = "counter"
  /\ E!Script(Certi)[3] = "status" /\ E!Script(Certi)[4] = "certificate"
  /\ E!Script(Certi)[5] = "version" /\ E!Script(Certi)[6] = "R5"
BY DEF E!Script, E!AuthenInfo, E!EsamInfo, E!CertiInfo, Authen, Info, Certi

FieldNames == {"serial", "status", "certificate", "counter", "version", "R5", "MAC"}

(* Facts about sequences, each in the form the prover can use.             *)
LEMMA SameSequence ==
  ASSUME NEW S, NEW s \in Seq(S), NEW t \in Seq(S), Len(s) = Len(t),
         \A i \in 1..Len(s) : s[i] = t[i]
  PROVE  s = t
OBVIOUS

LEMMA AppendOne ==
  ASSUME NEW S, NEW s \in Seq(S), NEW x \in S, NEW d, d = Append(s, x)
  PROVE  Len(d) = Len(s) + 1 /\ d[Len(s) + 1] = x
OBVIOUS

LEMMA NoneMore ==
  ASSUME NEW S, NEW s \in Seq(S)
  PROVE  s \o <<>> = s
<1>1. s \o <<>> \in Seq(S) /\ Len(s \o <<>>) = Len(s)
  OBVIOUS
<1>2. \A i \in 1..Len(s) : (s \o <<>>)[i] = s[i]
  OBVIOUS
<1> QED
  BY <1>1, <1>2, SameSequence

(* The documented layouts, field by field.                                 *)
LEMMA Layouts ==
  /\ DOMAIN E!Layout = {Authen, Info, Certi}
  /\ \A f \in {Authen, Info, Certi} :
       /\ E!Layout[f] \in Seq(FieldNames)
       /\ Len(E!Layout[f]) = IF f = Info THEN 5 ELSE 7
       /\ E!Layout[f][1] = "serial" /\ E!Layout[f][2] = "certificate"
       /\ E!Layout[f][3] = "counter" /\ E!Layout[f][4] = "status"
       /\ E!Layout[f][5] = "version"
       /\ f # Info => /\ E!Layout[f][6] = "R5" /\ E!Layout[f][7] = "MAC"
<1>1. Authen # Info /\ Certi # Info
  BY DEF Authen, Info, Certi
<1>2. DOMAIN E!Layout = {Authen, Info, Certi}
  BY DEF E!Layout, Authen, Info, Certi
<1>3. E!Layout[Info] = <<"serial", "certificate", "counter", "status", "version">>
  BY DEF E!Layout, Info
<1>4. ASSUME NEW f \in {Authen, Certi}
      PROVE  E!Layout[f] = <<"serial", "certificate", "counter", "status", "version", "R5", "MAC">>
  BY DEF E!Layout, Authen, Certi
<1>5. ASSUME NEW f \in {Authen, Certi}
      PROVE  /\ E!Layout[f] \in Seq(FieldNames) /\ Len(E!Layout[f]) = 7
             /\ E!Layout[f][1] = "serial" /\ E!Layout[f][2] = "certificate"
             /\ E!Layout[f][3] = "counter" /\ E!Layout[f][4] = "status"
             /\ E!Layout[f][5] = "version" /\ E!Layout[f][6] = "R5" /\ E!Layout[f][7] = "MAC"
  <2>1. <<"serial", "certificate", "counter", "status", "version", "R5", "MAC">> \in Seq(FieldNames)
    BY DEF FieldNames
  <2>2. PICK lay : lay = <<"serial", "certificate", "counter", "status", "version", "R5", "MAC">>
    OBVIOUS
  <2>3. Len(lay) = 7 /\ lay[1] = "serial" /\ lay[2] = "certificate" /\ lay[3] = "counter" /\ lay[4] = "status" /\ lay[5] = "version" /\ lay[6] = "R5" /\ lay[7] = "MAC"
    BY <2>2
  <2>4. lay \in Seq(FieldNames)
    BY <2>1, <2>2
  <2>5. E!Layout[f] = lay
    BY <1>4, <2>2
  <2>6. QED
    BY <2>3, <2>4, <2>5
<1>6. /\ E!Layout[Info] \in Seq(FieldNames) /\ Len(E!Layout[Info]) = 5
      /\ E!Layout[Info][1] = "serial" /\ E!Layout[Info][2] = "certificate"
      /\ E!Layout[Info][3] = "counter" /\ E!Layout[Info][4] = "status"
      /\ E!Layout[Info][5] = "version"
  <2>1. <<"serial", "certificate", "counter", "status", "version">> \in Seq(FieldNames)
    BY DEF FieldNames
  <2>2. PICK lay : lay = <<"serial", "certificate", "counter", "status", "version">>
    OBVIOUS
  <2>3. Len(lay) = 5 /\ lay[1] = "serial" /\ lay[2] = "certificate" /\ lay[3] = "counter" /\ lay[4] = "status" /\ lay[5] = "version"
    BY <2>2
  <2>4. lay \in Seq(FieldNames)
    BY <2>1, <2>2
  <2>5. E!Layout[Info] = lay
    BY <1>3, <2>2
  <2>6. QED
    BY <2>3, <2>4, <2>5
<1> QED
  BY <1>1, <1>2, <1>5, <1>6

(* The report as it grows: b is the buffer after k exchanges, c the state  *)
(* read last.  Behind the counter the first two put the state themselves.  *)
EsamFields == [name : FieldNames, of : Status \union {"any"}]
At(b, i, n) == b[i].name = n
Of(b, i, c) == b[i].of = c

AuthenBuf(b, k, c) ==
  /\ Len(b) = IF k <= 1 THEN k ELSE IF k <= 3 THEN k - 1 ELSE k
  /\ k >= 1 => At(b, 1, "serial")
  /\ k >= 3 => At(b, 2, "certificate") /\ Of(b, 2, c)
  /\ k >= 4 => At(b, 3, "counter") /\ At(b, 4, "status") /\ Of(b, 4, c)
  /\ k >= 5 => At(b, 5, "version")
  /\ k >= 6 => At(b, 6, "R5")

CertiBuf(b, k, c) ==
  /\ Len(b) = k
  /\ k >= 1 => At(b, 1, "serial")
  /\ k >= 2 => At(b, 2, "counter")
  /\ k >= 3 => At(b, 3, "status") /\ Of(b, 3, c)
  /\ k >= 4 => At(b, 4, "certificate") /\ Of(b, 4, c)
  /\ k >= 5 => At(b, 5, "version")
  /\ k >= 6 => At(b, 6, "R5")

(* What GenuineAnswers rests on: the buffer of the report that is being    *)
(* made, and R4 being that of the call.                                    *)
ReportInv ==
  /\ chip \in Status /\ status \in Status
  /\ function = Authen => mainStatRandom4 = arg
  /\ function \in {Authen, Info, Certi} => buf \in Seq(EsamFields)
  /\ function = Authen => step \in 0..6 /\ AuthenBuf(buf, step, chip)
  /\ function = Info => step \in 0..5 /\ AuthenBuf(buf, step, chip)
  /\ function = Certi => step \in 0..6 /\ CertiBuf(buf, step, chip)
  /\ E!GenuineAnswers

LEMMA SamePlace ==
  ASSUME NEW b, NEW d, NEW i, NEW j, d[i] = b[j], NEW n
  PROVE  (At(b, j, n) => At(d, i, n)) /\ (Of(b, j, n) => Of(d, i, n))
BY DEF At, Of

LEMMA NewPlace ==
  ASSUME NEW d, NEW i, NEW x, d[i] = x, NEW n
  PROVE  (x.name = n => At(d, i, n)) /\ (x.of = n => Of(d, i, n))
BY DEF At, Of

(* One exchange adds one field behind the others.                          *)
LEMMA OnePlace ==
  ASSUME NEW b \in Seq(EsamFields), NEW x \in EsamFields, NEW d, d = b \o <<x>>
  PROVE  /\ d \in Seq(EsamFields) /\ Len(d) = Len(b) + 1
         /\ \A i \in 1..Len(b) : \A n : (At(b, i, n) => At(d, i, n)) /\ (Of(b, i, n) => Of(d, i, n))
         /\ \A n : (x.name = n => At(d, Len(b) + 1, n)) /\ (x.of = n => Of(d, Len(b) + 1, n))
<1>1. d \in Seq(EsamFields)
  OBVIOUS
<1>2. Len(d) = Len(b) + 1 /\ d[Len(b) + 1] = x /\ \A i \in 1..Len(b) : d[i] = b[i]
  OBVIOUS
<1>3. \A i \in 1..Len(b) : \A n : (At(b, i, n) => At(d, i, n)) /\ (Of(b, i, n) => Of(d, i, n))
  BY <1>2, SamePlace
<1>4. \A n : (x.name = n => At(d, Len(b) + 1, n)) /\ (x.of = n => Of(d, Len(b) + 1, n))
  BY <1>2, NewPlace
<1> QED
  BY <1>1, <1>2, <1>3, <1>4

LEMMA AuthenGrows ==
  ASSUME NEW b \in Seq(EsamFields), NEW k \in {0, 2, 4, 5}, NEW c, AuthenBuf(b, k, c),
         NEW x \in EsamFields, x.name = E!Script(Authen)[k + 1], k = 2 => x.of = c,
         NEW d, d = b \o <<x>>
  PROVE  d \in Seq(EsamFields) /\ AuthenBuf(d, k + 1, c)
<1>1. d \in Seq(EsamFields) /\ Len(d) = Len(b) + 1
  BY OnePlace
<1>2. \A i \in 1..Len(b) : \A n : (At(b, i, n) => At(d, i, n)) /\ (Of(b, i, n) => Of(d, i, n))
  BY OnePlace
<1>3. \A n : (x.name = n => At(d, Len(b) + 1, n)) /\ (x.of = n => Of(d, Len(b) + 1, n))
  BY OnePlace
<1>4. AuthenBuf(d, k + 1, c)
  <2>1. CASE k = 0
    BY <1>1, <1>2, <1>3, <2>1, Scripts DEF AuthenBuf
  <2>2. CASE k = 2
    BY <1>1, <1>2, <1>3, <2>2, Scripts DEF AuthenBuf
  <2>3. CASE k = 4
    BY <1>1, <1>2, <1>3, <2>3, Scripts DEF AuthenBuf
  <2>4. CASE k = 5
    BY <1>1, <1>2, <1>3, <2>4, Scripts DEF AuthenBuf
  <2>5. QED
    BY <2>1, <2>2, <2>3, <2>4
<1> QED
  BY <1>1, <1>4

LEMMA AuthenStatus ==
  ASSUME NEW b \in Seq(EsamFields), NEW c, AuthenBuf(b, 1, c), NEW e
  PROVE  b \o <<>> \in Seq(EsamFields) /\ AuthenBuf(b \o <<>>, 2, e)
<1>1. b \o <<>> = b
  BY NoneMore
<1>2. AuthenBuf(b, 2, e)
  BY DEF AuthenBuf
<1> QED
  BY <1>1, <1>2

LEMMA AuthenCounter ==
  ASSUME NEW b \in Seq(EsamFields), NEW c, AuthenBuf(b, 3, c), NEW x \in EsamFields,
         NEW y \in EsamFields, x.name = "counter", y.name = "status", y.of = c,
         NEW d, d = b \o <<x, y>>
  PROVE  d \in Seq(EsamFields) /\ AuthenBuf(d, 4, c)
<1>1. d \in Seq(EsamFields)
  OBVIOUS
<1>2. Len(b) = 2
  BY DEF AuthenBuf
<1>3. Len(d) = 4 /\ d[3] = x /\ d[4] = y
  <2>1. Len(d) = Len(b) + 2 /\ d[Len(b) + 1] = x /\ d[Len(b) + 2] = y
    OBVIOUS
  <2>2. QED
    BY <1>2, <2>1
<1>4. d[1] = b[1] /\ d[2] = b[2]
  <2>1. \A i \in 1..Len(b) : d[i] = b[i]
    OBVIOUS
  <2>2. QED
    BY <1>2, <2>1
<1>5. At(d, 1, "serial") /\ At(d, 2, "certificate") /\ Of(d, 2, c)
  <2>1. At(b, 1, "serial") /\ At(b, 2, "certificate") /\ Of(b, 2, c)
    BY DEF AuthenBuf
  <2>2. QED
    BY <1>4, <2>1, SamePlace
<1>6. At(d, 3, "counter") /\ At(d, 4, "status") /\ Of(d, 4, c)
  BY <1>3, NewPlace
<1>7. AuthenBuf(d, 4, c)
  BY <1>3, <1>5, <1>6 DEF AuthenBuf
<1> QED
  BY <1>1, <1>7

LEMMA CertiGrows ==
  ASSUME NEW b \in Seq(EsamFields), NEW k \in 0..5, NEW c, NEW e, CertiBuf(b, k, c),
         NEW x \in EsamFields, x.name = E!Script(Certi)[k + 1],
         k \in {2, 3} => x.of = e, k # 2 => c = e,
         NEW d, d = b \o <<x>>
  PROVE  d \in Seq(EsamFields) /\ CertiBuf(d, k + 1, e)
<1>1. d \in Seq(EsamFields) /\ Len(d) = Len(b) + 1
  BY OnePlace
<1>2. \A i \in 1..Len(b) : \A n : (At(b, i, n) => At(d, i, n)) /\ (Of(b, i, n) => Of(d, i, n))
  BY OnePlace
<1>3. \A n : (x.name = n => At(d, Len(b) + 1, n)) /\ (x.of = n => Of(d, Len(b) + 1, n))
  BY OnePlace
<1>4. CertiBuf(d, k + 1, e)
  <2>1. CASE k = 0
    BY <1>1, <1>2, <1>3, <2>1, Scripts DEF CertiBuf
  <2>2. CASE k = 1
    BY <1>1, <1>2, <1>3, <2>2, Scripts DEF CertiBuf
  <2>3. CASE k = 2
    BY <1>1, <1>2, <1>3, <2>3, Scripts DEF CertiBuf
  <2>4. CASE k = 3
    BY <1>1, <1>2, <1>3, <2>4, Scripts DEF CertiBuf
  <2>5. CASE k = 4
    BY <1>1, <1>2, <1>3, <2>5, Scripts DEF CertiBuf
  <2>6. CASE k = 5
    BY <1>1, <1>2, <1>3, <2>6, Scripts DEF CertiBuf
  <2>7. QED
    BY <2>1, <2>2, <2>3, <2>4, <2>5, <2>6
<1> QED
  BY <1>1, <1>4

(* What GenuineAnswers says of the data of a report.                       *)
LEMMA NamesAreLayout ==
  ASSUME NEW f \in {Authen, Info, Certi}, NEW m \in {5, 7}, m = 5 <=> f = Info,
         NEW b \in Seq(EsamFields), Len(b) = m,
         At(b, 1, "serial"), At(b, 2, "certificate"), At(b, 3, "counter"),
         At(b, 4, "status"), At(b, 5, "version"),
         f # Info => At(b, 6, "R5") /\ At(b, 7, "MAC")
  PROVE  [i \in 1..Len(b) |-> b[i].name] = E!Layout[f]
<1>1. PICK lay : lay = E!Layout[f]
  OBVIOUS
<1>2. lay \in Seq(FieldNames)
  BY <1>1, Layouts
<1>3. Len(lay) = m
  BY <1>1, Layouts
<1>4. /\ lay[1] = "serial" /\ lay[2] = "certificate" /\ lay[3] = "counter"
      /\ lay[4] = "status" /\ lay[5] = "version"
      /\ f # Info => lay[6] = "R5" /\ lay[7] = "MAC"
  BY <1>1, Layouts
<1>5. ASSUME NEW i \in 1..m PROVE At(b, i, lay[i])
  <2>1. CASE f = Info
    <3>1. i = 1 \/ i = 2 \/ i = 3 \/ i = 4 \/ i = 5
      BY <2>1, SMTT(30)
    <3>2. QED
      BY <1>4, <3>1
  <2>2. CASE f # Info
    <3>1. i = 1 \/ i = 2 \/ i = 3 \/ i = 4 \/ i = 5 \/ i = 6 \/ i = 7
      BY <2>2
    <3>2. QED
      BY <1>4, <2>2, <3>1
  <2>3. QED
    BY <2>1, <2>2
<1>6. lay = [i \in 1..m |-> lay[i]]
  BY <1>2, <1>3
<1>7. [i \in 1..m |-> b[i].name] = [i \in 1..m |-> lay[i]]
  BY <1>5 DEF At
<1>8. QED
  BY <1>1, <1>6, <1>7

LEMMA InitReport == E!Init => ReportInv
BY DEF E!Init, ReportInv, E!Nothing, E!GenuineAnswers, Authen, Info, Certi

(* The exchanges of GetTerminalSecurityAuthenInfo and GetTermESAMInfo.     *)
LEMMA AuthenAsk ==
  ASSUME ReportInv, E!Ask, function \in {Authen, Info}, function' = function
  PROVE  ReportInv'
<1> DEFINE name == E!Script(function)[step + 1]
<1>1. step \in 0..5 /\ (function = Info => step # 5)
  <2>1. step < Len(E!Script(function))
    BY DEF E!Ask
  <2>2. CASE function = Authen
    <3>1. step \in 0..6
      BY <2>2 DEF ReportInv
    <3>2. step < 6
      BY <2>1, <2>2, Scripts
    <3>3. QED
      BY <2>2, <3>1, <3>2 DEF Authen, Info
  <2>3. CASE function = Info
    <3>1. step \in 0..5
      BY <2>3 DEF ReportInv
    <3>2. QED
      BY <2>1, <2>3, <3>1, Scripts
  <2>4. QED
    BY <2>2, <2>3
<1>2. /\ buf \in Seq(EsamFields) /\ AuthenBuf(buf, step, chip)
      /\ chip \in Status /\ status \in Status /\ (function = Authen => mainStatRandom4 = arg)
  BY DEF ReportInv
<1>3. /\ step' = step + 1 /\ buf' = buf \o E!Stored(name)
      /\ chip' = IF name = "status" THEN status ELSE chip
      /\ UNCHANGED <<arg, mainStatRandom4, status>>
  BY DEF E!Ask, E!Return, E!world, Authen, Info
<1>4. name = E!Script(Authen)[step + 1]
  BY <1>1, Scripts
<1>5. function # Certi /\ function # "MainStaGetTermCertiInfo"
      /\ function # "TermCertificateUpdateRequest" /\ function # "none"
  BY DEF Authen, Info, Certi
<1>6. buf' \in Seq(EsamFields) /\ AuthenBuf(buf', step + 1, chip') /\ chip' \in Status
  <2> HIDE DEF name
  <2>1. CASE step = 1
    <3>1. name = "status"
      BY <1>4, <2>1, Scripts
    <3>2. E!Stored(name) = <<>>
      BY <1>5, <3>1 DEF E!Stored
    <3>3. PICK b : b = buf /\ b \in Seq(EsamFields)
      BY <1>2
    <3>4. AuthenBuf(b, 1, chip)
      BY <1>2, <2>1, <3>3
    <3>5. b \o <<>> \in Seq(EsamFields) /\ AuthenBuf(b \o <<>>, 2, status)
      BY <3>3, <3>4, AuthenStatus
    <3>6. buf' = b \o <<>> /\ chip' = status /\ step + 1 = 2
      BY <1>3, <2>1, <3>1, <3>2, <3>3
    <3>7. QED
      BY <1>2, <3>5, <3>6
  <2>2. CASE step = 3
    <3>1. name = "counter"
      BY <1>4, <2>2, Scripts
    <3>2. PICK x, y : x = E!Answer(name) /\ y = E!Field("status", chip)
      OBVIOUS
    <3>3. E!Stored(name) = <<x, y>>
      BY <1>5, <3>1, <3>2 DEF E!Stored
    <3>4. x = [name |-> "counter", of |-> "any"] /\ y = [name |-> "status", of |-> chip]
      BY <3>1, <3>2 DEF E!Answer, E!Field
    <3>5. x \in EsamFields /\ y \in EsamFields
      BY <1>2, <3>4 DEF EsamFields, FieldNames
    <3>6. chip' = chip
      BY <1>3, <3>1
    <3>7. x.name = "counter" /\ y.name = "status" /\ y.of = chip
      BY <3>4
    <3>8. PICK b, d : b = buf /\ d = buf' /\ b \in Seq(EsamFields)
      BY <1>2
    <3>9. AuthenBuf(b, 3, chip) /\ d = b \o <<x, y>>
      BY <1>2, <1>3, <2>2, <3>3, <3>8
    <3>10. d \in Seq(EsamFields) /\ AuthenBuf(d, 4, chip)
      BY <3>5, <3>7, <3>8, <3>9, AuthenCounter
    <3>11. step + 1 = 4
      BY <2>2
    <3>12. QED
      BY <1>2, <3>6, <3>8, <3>10, <3>11
  <2>3. CASE step \in {0, 2, 4, 5}
    <3>1. name \in {"serial", "certificate", "version", "R5"}
      BY <1>4, <2>3, Scripts
    <3>2. PICK x : x = E!Answer(name)
      OBVIOUS
    <3>3. E!Stored(name) = <<x>>
      BY <1>5, <3>1, <3>2 DEF E!Stored
    <3>4. x = [name |-> name, of |-> IF name = "certificate" THEN chip ELSE "any"]
      BY <1>5, <3>1, <3>2 DEF E!Answer, E!Field, E!AskedFor
    <3>5. x \in EsamFields
      BY <1>2, <3>1, <3>4 DEF EsamFields, FieldNames
    <3>6. chip' = chip
      BY <1>3, <3>1
    <3>7. x.name = E!Script(Authen)[step + 1]
      BY <1>4, <3>4
    <3>8. step = 2 => x.of = chip
      <4>1. step = 2 => name = "certificate"
        BY <1>4, Scripts
      <4>2. QED
        BY <3>4, <4>1
    <3>9. QED
      BY <1>2, <1>3, <2>3, <3>3, <3>5, <3>6, <3>7, <3>8, AuthenGrows
  <2>4. QED
    BY <1>1, <2>1, <2>2, <2>3
<1>7. step' \in 0..6 /\ (function = Info => step' \in 0..5)
  BY <1>1, <1>3
<1>8. E!GenuineAnswers'
  BY <1>5 DEF E!GenuineAnswers
<1>9. QED
  BY <1>2, <1>3, <1>5, <1>6, <1>7, <1>8 DEF ReportInv

(* Those of MainStaGetTermCertiInfo.                                       *)
LEMMA CertiAsk ==
  ASSUME ReportInv, E!Ask, function = Certi, function' = function
  PROVE  ReportInv'
<1> DEFINE name == E!Script(function)[step + 1]
<1>1. step \in 0..5
  <2>1. step < Len(E!Script(function))
    BY DEF E!Ask
  <2>2. step \in 0..6
    BY DEF ReportInv
  <2>3. QED
    BY <2>1, <2>2, Scripts
<1>2. /\ buf \in Seq(EsamFields) /\ CertiBuf(buf, step, chip)
      /\ chip \in Status /\ status \in Status
  BY DEF ReportInv
<1>3. /\ step' = step + 1 /\ buf' = buf \o E!Stored(name)
      /\ chip' = IF name = "status" THEN status ELSE chip
      /\ UNCHANGED <<arg, mainStatRandom4, status>>
  BY DEF E!Ask, E!Return, E!world, Certi
<1>4. name = E!Script(Certi)[step + 1]
  OBVIOUS
<1>5. function = "MainStaGetTermCertiInfo" /\ function \notin {Authen, Info} /\ function # "none"
  BY DEF Authen, Info, Certi
<1>6. buf' \in Seq(EsamFields) /\ CertiBuf(buf', step + 1, chip') /\ chip' \in Status
  <2> HIDE DEF name
  <2>1. PICK x : x = E!Answer(name)
    OBVIOUS
  <2>2. E!Stored(name) = <<x>>
    BY <1>5, <2>1 DEF E!Stored
  <2>3. name \in FieldNames /\ (name = "status" <=> step = 2) /\ (name = "certificate" <=> step = 3)
    <3>1. step = 0 \/ step = 1 \/ step = 2 \/ step = 3 \/ step = 4 \/ step = 5
      BY <1>1
    <3>2. QED
      BY <1>4, <3>1, Scripts DEF FieldNames
  <2>4. x = [name |-> name, of |-> IF step = 2 THEN status ELSE IF step = 3 THEN chip ELSE "any"]
    <3>1. CASE step = 2
      BY <2>1, <2>3, <3>1 DEF E!Answer, E!Field
    <3>2. CASE step = 3
      BY <1>5, <2>1, <2>3, <3>2 DEF E!Answer, E!Field, E!AskedFor
    <3>3. CASE step # 2 /\ step # 3
      BY <2>1, <2>3, <3>3 DEF E!Answer, E!Field
    <3>4. QED
      BY <3>1, <3>2, <3>3
  <2>5. x \in EsamFields
    BY <1>2, <2>3, <2>4 DEF EsamFields
  <2>6. chip' = IF step = 2 THEN status ELSE chip
    BY <1>3, <2>3
  <2>7. chip' \in Status
    BY <1>2, <2>6
  <2>8. x.name = E!Script(Certi)[step + 1]
    BY <1>4, <2>4
  <2>9. (step \in {2, 3} => x.of = chip') /\ (step # 2 => chip = chip')
    BY <2>4, <2>6
  <2>10. QED
    BY <1>1, <1>2, <1>3, <2>2, <2>5, <2>7, <2>8, <2>9, CertiGrows
<1>7. step' \in 0..6
  BY <1>1, <1>3
<1>8. E!GenuineAnswers'
  BY <1>5 DEF E!GenuineAnswers
<1>9. QED
  BY <1>2, <1>3, <1>5, <1>6, <1>7, <1>8 DEF ReportInv

(* The three ends of a report that is a success.                           *)
LEMMA InfoEnd ==
  ASSUME ReportInv, E!End, function = Info
  PROVE  ReportInv'
<1>1. /\ function' = "none" /\ UNCHANGED <<chip, status>>
      /\ result' = [of |-> Info, ret |-> 0, data |-> buf, mac |-> <<>>]
  <2>1. function \notin E!WithMac /\ function # "MainStaGetTermCertiInfo"
    BY DEF E!WithMac, Info
  <2>2. QED
    BY <2>1 DEF E!End, E!Return, E!world, E!Reported
<1>2. PICK b : b = buf /\ b \in Seq(EsamFields)
  BY DEF ReportInv
<1>3. step = 5 /\ AuthenBuf(b, step, chip)
  BY <1>2, Scripts DEF ReportInv, E!End
<1>4. /\ At(b, 1, "serial") /\ At(b, 2, "certificate") /\ At(b, 3, "counter")
      /\ At(b, 4, "status") /\ At(b, 5, "version") /\ Of(b, 2, chip) /\ Of(b, 4, chip)
      /\ Len(b) = 5
  BY <1>3 DEF AuthenBuf
<1>5. [i \in 1..Len(b) |-> b[i].name] = E!Layout[Info]
  BY <1>2, <1>4, NamesAreLayout
<1>6. b[2].of = b[4].of
  BY <1>4 DEF Of
<1>7. E!GenuineAnswers'
  <2>1. result'.data = b /\ result'.of = Info
    BY <1>1, <1>2
  <2>2. QED
    BY <1>5, <1>6, <2>1 DEF E!GenuineAnswers, Info
<1>8. QED
  BY <1>1, <1>7 DEF ReportInv, Authen, Info, Certi

LEMMA LastIsMac ==
  ASSUME NEW b \in Seq(EsamFields), Len(b) = 6, NEW d, d = Append(b, E!Field("MAC", "any"))
  PROVE  /\ d \in Seq(EsamFields) /\ Len(d) = 7
         /\ \A i \in 1..6 : d[i] = b[i]
         /\ At(d, 7, "MAC") /\ SubSeq(d, 1, 6) = b
<1>1. PICK x : x = E!Field("MAC", "any")
  OBVIOUS
<1>2. x = [name |-> "MAC", of |-> "any"]
  BY <1>1 DEF E!Field
<1>3. x \in EsamFields
  BY <1>2 DEF EsamFields, FieldNames
<1>4. d = Append(b, x)
  BY <1>1
<1>5. d \in Seq(EsamFields)
  BY <1>3, <1>4
<1>6. Len(d) = 7 /\ d[7] = x /\ \A i \in 1..6 : d[i] = b[i]
  <2>1. Len(d) = Len(b) + 1
    BY <1>3, <1>4, AppendOne
  <2>2. d[Len(b) + 1] = x
    BY <1>3, <1>4, AppendOne
  <2>3. \A i \in 1..Len(b) : d[i] = b[i]
    BY <1>4
  <2>4. QED
    BY <2>1, <2>2, <2>3
<1>7. At(d, 7, "MAC")
  BY <1>2, <1>6 DEF At
<1>8. SubSeq(d, 1, 6) = b
  <2>1. SubSeq(d, 1, 6) \in Seq(EsamFields)
    BY <1>5, <1>6
  <2>2. Len(SubSeq(d, 1, 6)) = 6 /\ \A i \in 1..6 : SubSeq(d, 1, 6)[i] = b[i]
    BY <1>5, <1>6
  <2>3. QED
    BY <2>1, <2>2, SameSequence
<1>9. QED
  BY <1>5, <1>6, <1>7, <1>8

LEMMA AuthenEnd ==
  ASSUME ReportInv, E!End, function = Authen
  PROVE  ReportInv'
<1>1. function' = "none" /\ UNCHANGED <<chip, status, arg>> /\ result'.of = Authen
  BY DEF E!End, E!Return, E!world
<1>2. PICK b : b = buf /\ b \in Seq(EsamFields)
  BY DEF ReportInv
<1>3. step = 6 /\ AuthenBuf(b, step, chip) /\ mainStatRandom4 = arg
  BY <1>2, Scripts DEF ReportInv, E!End
<1>4. /\ At(b, 1, "serial") /\ At(b, 2, "certificate") /\ At(b, 3, "counter")
      /\ At(b, 4, "status") /\ At(b, 5, "version") /\ At(b, 6, "R5")
      /\ Of(b, 2, chip) /\ Of(b, 4, chip) /\ Len(b) = 6
  BY <1>3 DEF AuthenBuf
<1>5. ASSUME result'.ret = 0 PROVE E!GenuineAnswers'
  <2>1. function \in E!WithMac /\ E!Reported = b /\ E!MacOver = <<mainStatRandom4, b>>
    BY <1>2 DEF E!WithMac, Authen, E!Reported, E!MacOver
  <2>2. PICK d : d = Append(b, E!Field("MAC", "any"))
    OBVIOUS
  <2>3. result'.data = d /\ result'.mac = <<arg, b>>
    BY <1>3, <1>5, <2>1, <2>2 DEF E!End, E!Return
  <2>4. /\ d \in Seq(EsamFields) /\ Len(d) = 7 /\ At(d, 7, "MAC") /\ SubSeq(d, 1, 6) = b
        /\ \A i \in 1..6 : d[i] = b[i]
    BY <1>2, <1>4, <2>2, LastIsMac
  <2>5. /\ At(d, 1, "serial") /\ At(d, 2, "certificate") /\ At(d, 3, "counter")
        /\ At(d, 4, "status") /\ At(d, 5, "version") /\ At(d, 6, "R5")
        /\ Of(d, 2, chip) /\ Of(d, 4, chip)
    <3>1. /\ d[1] = b[1] /\ d[2] = b[2] /\ d[3] = b[3] /\ d[4] = b[4] /\ d[5] = b[5] /\ d[6] = b[6]
      BY <2>4
    <3>2. QED
      BY <1>4, <3>1 DEF At, Of
  <2>6. [i \in 1..Len(d) |-> d[i].name] = E!Layout[Authen]
    <3>1. Authen # Info
      BY DEF Authen, Info
    <3>2. QED
      BY <2>4, <2>5, <3>1, NamesAreLayout
  <2>7. d[2].of = d[4].of
    BY <2>5 DEF Of
  <2>8. result'.mac = <<arg', SubSeq(d, 1, 6)>>
    BY <1>1, <2>3, <2>4
  <2>9. QED
    BY <1>1, <2>3, <2>6, <2>7, <2>8 DEF E!GenuineAnswers, Authen
<1>6. E!GenuineAnswers'
  BY <1>5 DEF E!GenuineAnswers
<1>7. QED
  BY <1>1, <1>6 DEF ReportInv, Authen, Info, Certi

(* MainStaGetTermCertiInfo: the fields are put in the reported order.      *)
LEMMA CertiEnd ==
  ASSUME ReportInv, E!End, function = Certi
  PROVE  ReportInv'
<1>1. function' = "none" /\ UNCHANGED <<chip, status, arg>> /\ result'.of = Certi
  BY DEF E!End, E!Return, E!world
<1>2. PICK a : a = buf /\ a \in Seq(EsamFields)
  BY DEF ReportInv
<1>3. step = 6 /\ CertiBuf(a, step, chip)
  BY <1>2, Scripts DEF ReportInv, E!End
<1>4. /\ At(a, 1, "serial") /\ At(a, 2, "counter") /\ At(a, 3, "status")
      /\ At(a, 4, "certificate") /\ At(a, 5, "version") /\ At(a, 6, "R5")
      /\ Of(a, 3, chip) /\ Of(a, 4, chip) /\ Len(a) = 6
  BY <1>3 DEF CertiBuf
<1>5. PICK b : b = <<a[1], a[4], a[2], a[3], a[5], a[6]>>
  OBVIOUS
<1>6. b \in Seq(EsamFields)
  <2>1. /\ a[1] \in EsamFields /\ a[2] \in EsamFields /\ a[3] \in EsamFields
        /\ a[4] \in EsamFields /\ a[5] \in EsamFields /\ a[6] \in EsamFields
    BY <1>2, <1>4
  <2>2. QED
    BY <1>5, <2>1
<1>7. Len(b) = 6 /\ b[1] = a[1] /\ b[2] = a[4] /\ b[3] = a[2] /\ b[4] = a[3] /\ b[5] = a[5]
        /\ b[6] = a[6]
  BY <1>5
<1>8. ASSUME result'.ret = 0 PROVE E!GenuineAnswers'
  <2>1. function \in E!WithMac /\ E!Reported = b
    BY <1>2, <1>5 DEF E!WithMac, Certi, E!Reported
  <2>2. PICK d : d = Append(b, E!Field("MAC", "any"))
    OBVIOUS
  <2>3. result'.data = d
    BY <1>8, <2>1, <2>2 DEF E!End, E!Return
  <2>4. /\ d \in Seq(EsamFields) /\ Len(d) = 7 /\ At(d, 7, "MAC")
        /\ \A i \in 1..6 : d[i] = b[i]
    BY <1>6, <1>7, <2>2, LastIsMac
  <2>5. /\ At(d, 1, "serial") /\ At(d, 2, "certificate") /\ At(d, 3, "counter")
        /\ At(d, 4, "status") /\ At(d, 5, "version") /\ At(d, 6, "R5")
        /\ Of(d, 2, chip) /\ Of(d, 4, chip)
    <3>1. /\ d[1] = a[1] /\ d[2] = a[4] /\ d[3] = a[2] /\ d[4] = a[3] /\ d[5] = a[5] /\ d[6] = a[6]
      BY <1>7, <2>4
    <3>2. QED
      BY <1>4, <3>1 DEF At, Of
  <2>6. [i \in 1..Len(d) |-> d[i].name] = E!Layout[Certi]
    <3>1. Certi # Info
      BY DEF Certi, Info
    <3>2. QED
      BY <2>4, <2>5, <3>1, NamesAreLayout
  <2>7. d[2].of = d[4].of
    BY <2>5 DEF Of
  <2>8. QED
    BY <1>1, <2>3, <2>6, <2>7 DEF E!GenuineAnswers, Certi
<1>9. E!GenuineAnswers'
  BY <1>8 DEF E!GenuineAnswers
<1>10. QED
  BY <1>1, <1>9 DEF ReportInv, Authen, Info, Certi

LEMMA NextReport == ReportInv /\ [E!Next]_(E!vars) => ReportInv'
<1> SUFFICES ASSUME ReportInv, [E!Next]_(E!vars) PROVE ReportInv'
  OBVIOUS
<1>n. Authen # "none" /\ Info # "none" /\ Certi # "none"
      /\ Authen = "GetTerminalSecurityAuthenInfo"
  BY DEF Authen, Info, Certi
<1>1. CASE E!CallReport
  <2>1. PICK f \in E!Reports : /\ E!Call(f)
                               /\ mainStatRandom4' = IF f = Authen THEN arg' ELSE mainStatRandom4
    BY <1>1, <1>n DEF E!CallReport
  <2>2. function' = f /\ step' = 0 /\ buf' = <<>> /\ UNCHANGED <<chip, status>>
    BY <2>1 DEF E!Call, E!world
  <2>3. function' # "none"
    BY <2>2 DEF E!Reports
  <2>4. E!GenuineAnswers'
    BY <2>3 DEF E!GenuineAnswers
  <2>5. AuthenBuf(<<>>, 0, chip) /\ CertiBuf(<<>>, 0, chip) /\ <<>> \in Seq(EsamFields)
    BY DEF AuthenBuf, CertiBuf
  <2>6. QED
    BY <2>1, <2>2, <2>4, <2>5 DEF ReportInv
<1>2. CASE E!Ask
  <2>1. CASE function' = function /\ function \in {Authen, Info}
    BY <1>2, <2>1, AuthenAsk
  <2>2. CASE function' = function /\ function = Certi
    BY <1>2, <2>2, CertiAsk
  <2>3. CASE function' = function /\ function \notin {Authen, Info, Certi}
    <3>1. function \in E!Reports
      BY <1>2 DEF E!Ask
    <3>2. function' # "none"
      BY <2>3, <3>1 DEF E!Reports
    <3>3. E!GenuineAnswers'
      BY <3>2 DEF E!GenuineAnswers
    <3>4. UNCHANGED status /\ chip' \in {chip, status}
      BY <1>2 DEF E!Ask, E!world
    <3>5. QED
      BY <2>3, <3>3, <3>4 DEF ReportInv
  <2>4. CASE function' # function
    <3>1. function' = "none" /\ result'.ret = -1 /\ UNCHANGED <<chip, status>>
      BY <1>2, <2>4 DEF E!Ask, E!Return, E!world
    <3>2. E!GenuineAnswers'
      BY <3>1 DEF E!GenuineAnswers
    <3>3. QED
      BY <1>n, <3>1, <3>2 DEF ReportInv
  <2>5. QED
    BY <2>1, <2>2, <2>3, <2>4
<1>3. CASE E!End
  <2>1. CASE function \in {Authen, Info, Certi}
    BY <1>3, <2>1, AuthenEnd, InfoEnd, CertiEnd
  <2>2. CASE function \notin {Authen, Info, Certi}
    <3>1. function = "TermCertificateUpdateRequest"
      BY <1>3, <2>2 DEF E!End, E!Reports, Authen, Info, Certi
    <3>2. function' = "none" /\ result'.of = "TermCertificateUpdateRequest"
          /\ UNCHANGED <<chip, status>>
      BY <1>3, <3>1 DEF E!End, E!Return, E!world
    <3>3. E!GenuineAnswers'
      BY <3>2 DEF E!GenuineAnswers, E!Layout
    <3>4. QED
      BY <1>n, <3>2, <3>3 DEF ReportInv
  <2>3. QED
    BY <2>1, <2>2
<1>4. CASE E!CallSetting
  <2>1. PICK f \in {"GetTABaudrate", "SetTABaudrate", "GetTATransformRate", "GetTAModuleSecurityInfo"} :
          E!Call(f)
    BY <1>4 DEF E!CallSetting
  <2>2. function' = f /\ UNCHANGED <<chip, status>>
    BY <2>1 DEF E!Call, E!world
  <2>3. function' # "none"
    BY <2>2
  <2>4. E!GenuineAnswers'
    BY <2>3 DEF E!GenuineAnswers
  <2>5. QED
    BY <2>2, <2>4 DEF ReportInv, Authen, Info, Certi
<1>5. CASE E!GetTABaudrate
  <2>1. function' = "none" /\ result'.of = "GetTABaudrate" /\ UNCHANGED <<chip, status, rates>>
    BY <1>5 DEF E!GetTABaudrate, E!Return, E!world
  <2>2. ASSUME result'.ret = 0 PROVE result'.data[1].of \in rates
    <3>1. PICK answer \in E!BaudAnswers : /\ E!MacAccepted(answer)
                                          /\ result'.data = <<E!Field("word", answer.of)>>
      BY <1>5, <2>2 DEF E!GetTABaudrate, E!Return
    <3>2. answer.genuine
      BY <3>1 DEF E!MacAccepted
    <3>3. answer.of \in rates
      BY <3>2 DEF E!BaudAnswers
    <3>4. result'.data[1].of = answer.of
      BY <3>1 DEF E!Field
    <3>5. QED
      BY <3>3, <3>4
  <2>3. E!GenuineAnswers'
    BY <2>1, <2>2 DEF E!GenuineAnswers, E!Layout
  <2>4. QED
    BY <1>n, <2>1, <2>3 DEF ReportInv
<1>6. CASE E!SetTABaudrate \/ E!GetTATransformRate \/ E!GetTAModuleSecurityInfo
  <2>1. /\ function' = "none" /\ UNCHANGED <<chip, status>>
        /\ result'.of \in {"SetTABaudrate", "GetTATransformRate", "GetTAModuleSecurityInfo"}
    BY <1>6 DEF E!SetTABaudrate, E!GetTATransformRate, E!GetTAModuleSecurityInfo, E!Return, E!world
  <2>2. E!GenuineAnswers'
    BY <2>1 DEF E!GenuineAnswers, E!Layout
  <2>3. QED
    BY <1>n, <2>1, <2>2 DEF ReportInv
<1>7. CASE E!EsamChanges
  <2>1. /\ UNCHANGED <<function, step, arg, buf, chip, mainStatRandom4, result, rates>>
        /\ status' \in Status
    BY <1>7 DEF E!EsamChanges
  <2>2. E!GenuineAnswers'
    BY <2>1 DEF E!GenuineAnswers, ReportInv
  <2>3. QED
    BY <2>1, <2>2 DEF ReportInv
<1>8. CASE UNCHANGED E!vars
  <2>1. UNCHANGED <<function, step, arg, buf, chip, mainStatRandom4, result, status, rates>>
    BY <1>8 DEF E!vars
  <2>2. E!GenuineAnswers'
    BY <2>1 DEF E!GenuineAnswers, ReportInv
  <2>3. QED
    BY <2>1, <2>2 DEF ReportInv
<1>9. QED
  BY <1>1, <1>2, <1>3, <1>4, <1>5, <1>6, <1>7, <1>8 DEF E!Next

(* Whatever the ESAM's state does between two exchanges, a report that is  *)
(* returned as a success has the documented layout, the certificate of the *)
(* state it names and the MAC of its own call, and a baud rate returned as *)
(* a success was the module's (GetTerminalESAMData.c, the Get functions).  *)
THEOREM ReportsGenuine == E!Spec => []GenuineAnswers
<1>1. ReportInv => GenuineAnswers
  BY DEF ReportInv, GenuineAnswers
<1>2. QED
  BY <1>1, InitReport, NextReport, PTL DEF E!Spec
-----------------------------------------------------------------------------
(* The timer list (TimerList).                                             *)
Timers == [kind : L!Kind, due : Int]
Once(l) == \A i, j \in 1..Len(l) : l[i] = l[j] => i = j
On(l, a) == \E i \in 1..Len(l) : l[i] = a

LEMMA OnIsListed ==
  ASSUME NEW l \in Seq(Address), NEW a PROVE On(l, a) <=> a \in L!Range(l)
BY DEF On, L!Range

LEMMA PlaceIsFirst ==
  ASSUME NEW l \in Seq(Address), Once(l), NEW a, On(l, a)
  PROVE  L!Place(l, a) \in 1..Len(l) /\ l[L!Place(l, a)] = a
<1>1. PICK i \in 1..Len(l) : l[i] = a
  BY DEF On
<1>2. ASSUME NEW j \in 1 .. i - 1 PROVE l[j] # a
  BY <1>1 DEF Once
<1>3. i \in DOMAIN l /\ DOMAIN l = 1..Len(l)
  OBVIOUS
<1>4. \E k \in DOMAIN l : l[k] = a /\ \A j \in 1 .. k - 1 : l[j] # a
  BY <1>1, <1>2, <1>3
<1>5. QED
  BY <1>3, <1>4 DEF L!Place

(* ListRemove takes a timer that is on the list once, and no other, away.  *)
LEMMA WithoutIt ==
  ASSUME NEW l \in Seq(Address), Once(l), NEW a, On(l, a), NEW w, w = L!Without(l, a)
  PROVE  /\ w \in Seq(Address) /\ Len(w) = Len(l) - 1 /\ Once(w)
         /\ \A x : On(w, x) <=> On(l, x) /\ x # a
<1>1. PICK p : p = L!Place(l, a)
  OBVIOUS
<1>2. p \in 1..Len(l) /\ l[p] = a
  BY <1>1, PlaceIsFirst
<1>3. w = SubSeq(l, 1, p - 1) \o SubSeq(l, p + 1, Len(l))
  BY <1>1, OnIsListed DEF L!Without, L!RemoveAt
<1>4. PICK u, v : u = SubSeq(l, 1, p - 1) /\ v = SubSeq(l, p + 1, Len(l))
  OBVIOUS
<1>5. u \in Seq(Address) /\ v \in Seq(Address)
  BY <1>2, <1>4
<1>6. Len(u) = p - 1 /\ \A i \in 1..Len(u) : u[i] = l[i]
  BY <1>2, <1>4
<1>7. Len(v) = Len(l) - p /\ \A i \in 1..Len(v) : v[i] = l[p + i]
  BY <1>2, <1>4
<1>8. w \in Seq(Address) /\ Len(w) = Len(l) - 1
  <2>1. w = u \o v
    BY <1>3, <1>4
  <2>2. w \in Seq(Address) /\ Len(w) = Len(u) + Len(v)
    BY <1>5, <2>1
  <2>3. QED
    BY <1>2, <1>6, <1>7, <2>2
<1>9. ASSUME NEW i \in 1..Len(w)
      PROVE  w[i] = IF i < p THEN l[i] ELSE l[i + 1]
  <2>1. w[i] = IF i <= Len(u) THEN u[i] ELSE v[i - Len(u)]
    <3>1. w = u \o v
      BY <1>3, <1>4
    <3>2. i \in 1..(Len(u) + Len(v))
      BY <1>2, <1>6, <1>7, <1>8
    <3>3. QED
      BY <1>5, <3>1, <3>2
  <2>2. CASE i < p
    BY <1>2, <1>6, <2>1, <2>2
  <2>3. CASE i >= p
    <3>1. i - Len(u) \in 1..Len(v) /\ p + (i - Len(u)) = i + 1
      BY <1>2, <1>6, <1>7, <1>8, <2>3
    <3>2. QED
      BY <1>2, <1>6, <1>7, <2>1, <2>3, <3>1
  <2>4. QED
    BY <1>2, <2>2, <2>3
<1>10. Once(w)
  <2>1. SUFFICES ASSUME NEW i \in 1..Len(w), NEW j \in 1..Len(w), w[i] = w[j] PROVE i = j
    BY DEF Once
  <2>2. PICK m, n : m = (IF i < p THEN i ELSE i + 1) /\ n = (IF j < p THEN j ELSE j + 1)
    OBVIOUS
  <2>3. m \in 1..Len(l) /\ n \in 1..Len(l) /\ (m = n => i = j)
    BY <1>2, <1>8, <2>2
  <2>4. w[i] = l[m] /\ w[j] = l[n]
    BY <1>9, <2>2
  <2>5. m = n
    BY <2>1, <2>3, <2>4 DEF Once
  <2>6. QED
    BY <2>3, <2>5
<1>11. ASSUME NEW x PROVE On(w, x) <=> On(l, x) /\ x # a
  <2>1. ASSUME On(w, x) PROVE On(l, x) /\ x # a
    <3>1. PICK i \in 1..Len(w) : w[i] = x
      BY <2>1 DEF On
    <3>2. PICK j \in 1..Len(l) : j # p /\ l[j] = x
      BY <1>2, <1>8, <1>9, <3>1
    <3>3. QED
      BY <1>2, <3>2 DEF On, Once
  <2>2. ASSUME On(l, x), x # a PROVE On(w, x)
    <3>1. PICK j \in 1..Len(l) : l[j] = x
      BY <2>2 DEF On
    <3>2. j # p
      BY <1>2, <2>2, <3>1
    <3>3. PICK i : i = IF j < p THEN j ELSE j - 1
      OBVIOUS
    <3>4. i \in 1..Len(w) /\ w[i] = x
      BY <1>2, <1>8, <1>9, <3>1, <3>2, <3>3
    <3>5. QED
      BY <3>4 DEF On
  <2>3. QED
    BY <2>1, <2>2
<1>12. QED
  BY <1>8, <1>10, <1>11

(* load_timer puts a timer that is not on the list behind the others, as   *)
(* long as the list is not over its limit.                                 *)
LEMMA Loaded ==
  ASSUME NEW l \in Seq(Address), Once(l), NEW a \in Address, ~On(l, a),
         NEW w, w = L!load_timer(l, a), MAX_TIMER_NUM \in Nat, Len(l) <= MAX_TIMER_NUM + 1
  PROVE  /\ w \in Seq(Address) /\ Once(w) /\ Len(w) <= MAX_TIMER_NUM + 1
         /\ \A x : On(w, x) => On(l, x) \/ x = a
         /\ \A x : On(l, x) => On(w, x)
         /\ Len(l) <= MAX_TIMER_NUM => On(w, a)
<1>1. CASE Len(l) > MAX_TIMER_NUM
  BY <1>1 DEF L!load_timer
<1>2. CASE Len(l) <= MAX_TIMER_NUM
  <2>1. w = Append(l, a)
    BY <1>2 DEF L!load_timer
  <2>2. w \in Seq(Address) /\ Len(w) = Len(l) + 1
    BY <2>1
  <2>3. w[Len(l) + 1] = a /\ \A i \in 1..Len(l) : w[i] = l[i]
    BY <2>1
  <2>4. Once(w)
    <3>1. SUFFICES ASSUME NEW i \in 1..Len(w), NEW j \in 1..Len(w), w[i] = w[j] PROVE i = j
      BY DEF Once
    <3>2. \A k \in 1..Len(l) : l[k] # a
      BY DEF On
    <3>3. (i \in 1..Len(l) \/ i = Len(l) + 1) /\ (j \in 1..Len(l) \/ j = Len(l) + 1)
      BY <2>2
    <3>4. QED
      BY <2>3, <3>1, <3>2, <3>3 DEF Once
  <2>5. ASSUME NEW x PROVE On(w, x) <=> On(l, x) \/ x = a
    BY <2>2, <2>3 DEF On
  <2>6. QED
    BY <1>2, <2>2, <2>4, <2>5
<1>3. QED
  BY <1>1, <1>2

(* What OneBlinkTimer and PeriodicKept rest on: the list holds allocated   *)
(* timers, each once and at most one more than the limit; what runs is on  *)
(* it; and LedAppUt is the one blinking timer, allocated even when the     *)
(* list had no room for it.                                                *)
Allocated(a) == timer[a] \in Timers
TimerInv ==
  /\ list \in Seq(Address) /\ Once(list) /\ Len(list) <= MAX_TIMER_NUM + 1
  /\ timer \in [Address -> Timers \union {NULL}]
  /\ \A a \in Address : On(list, a) => Allocated(a)
  /\ running = NULL \/ On(list, running)
  /\ LedAppUt = NULL \/ (LedAppUt \in Address /\ Allocated(LedAppUt) /\ timer[LedAppUt].kind = "led")
  /\ \A a \in Address : On(list, a) /\ timer[a].kind = "led" => a = LedAppUt

LEMMA OnInAddress ==
  ASSUME NEW l \in Seq(Address), NEW a, On(l, a) PROVE a \in Address
BY DEF On

LEMMA Allocation ==
  ASSUME L!TimerAssumption, NEW k \in L!Kind, NEW d \in Int
  PROVE  [kind |-> k, due |-> d] \in Timers /\ NULL \notin Timers /\ NULL \notin Address
         /\ MAX_TIMER_NUM \in Nat /\ MaxLag \in Nat /\ MaxBack \in Nat
BY DEF L!TimerAssumption, Timers

LEMMA InitTimer == L!TimerAssumption /\ L!Init => TimerInv
<1> SUFFICES ASSUME L!TimerAssumption, L!Init PROVE TimerInv
  OBVIOUS
<1>1. list = <<>> /\ MAX_TIMER_NUM \in Nat
  BY DEF L!Init, L!TimerAssumption
<1>2. list \in Seq(Address) /\ Len(list) = 0
  BY <1>1
<1>3. Once(list) /\ \A a : ~On(list, a)
  BY <1>2 DEF Once, On
<1>4. QED
  BY <1>1, <1>2, <1>3 DEF L!Init, TimerInv

(* add_timer, on a list and a memory that are as TimerInv says but for the *)
(* blinking timer: l and t are those left by del_timer or the present ones.*)
LEMMA Added ==
  ASSUME L!TimerAssumption, NEW l \in Seq(Address), Once(l), Len(l) <= MAX_TIMER_NUM + 1,
         NEW t \in [Address -> Timers \union {NULL}],
         \A x \in Address : On(l, x) => t[x] \in Timers,
         NEW a \in Address, NEW k \in L!Kind, L!add_timer(l, t, a, k)
  PROVE  /\ list' \in Seq(Address) /\ Once(list') /\ Len(list') <= MAX_TIMER_NUM + 1
         /\ timer' \in [Address -> Timers \union {NULL}]
         /\ timer'[a] \in Timers /\ timer'[a].kind = k
         /\ \A x \in Address : x # a => timer'[x] = t[x]
         /\ t[a] = NULL /\ ~On(l, a)
         /\ \A x : On(list', x) => On(l, x) \/ x = a
         /\ \A x : On(l, x) => On(list', x)
<1>1. t[a] = NULL /\ list' = L!load_timer(l, a)
      /\ timer' = [t EXCEPT ![a] = [kind |-> k, due |-> L!Timeout[k]]]
  BY DEF L!add_timer
<1>2. L!Timeout[k] \in Int
  BY DEF L!Timeout, L!Kind
<1>3. [kind |-> k, due |-> L!Timeout[k]] \in Timers /\ NULL \notin Timers /\ MAX_TIMER_NUM \in Nat
  BY <1>2, Allocation
<1>4. ~On(l, a)
  BY <1>1, <1>3
<1>5. /\ list' \in Seq(Address) /\ Once(list') /\ Len(list') <= MAX_TIMER_NUM + 1
      /\ \A x : On(list', x) => On(l, x) \/ x = a
      /\ \A x : On(l, x) => On(list', x)
  <2>1. PICK w : w = list'
    OBVIOUS
  <2>2. /\ w \in Seq(Address) /\ Once(w) /\ Len(w) <= MAX_TIMER_NUM + 1
        /\ \A x : On(w, x) => On(l, x) \/ x = a
        /\ \A x : On(l, x) => On(w, x)
    BY <1>1, <1>3, <1>4, <2>1, Loaded
  <2>3. QED
    BY <2>1, <2>2
<1>6. timer' \in [Address -> Timers \union {NULL}] /\ timer'[a] = [kind |-> k, due |-> L!Timeout[k]]
      /\ \A x \in Address : x # a => timer'[x] = t[x]
  BY <1>1, <1>3
<1>7. QED
  BY <1>1, <1>3, <1>4, <1>5, <1>6

(* A timer of main, or the one-shot of AFN 04 F7.                          *)
LEMMA AddOther ==
  ASSUME L!TimerAssumption, TimerInv, NEW a \in Address, NEW k \in L!Kind, k # "led",
         L!add_timer(list, timer, a, k), UNCHANGED <<running, LedAppUt>>
  PROVE  TimerInv' /\ \A x : On(list, x) => On(list', x)
<1>1. /\ list \in Seq(Address) /\ Once(list) /\ Len(list) <= MAX_TIMER_NUM + 1
      /\ timer \in [Address -> Timers \union {NULL}]
      /\ \A x \in Address : On(list, x) => timer[x] \in Timers
  BY DEF TimerInv, Allocated
<1>2. /\ list' \in Seq(Address) /\ Once(list') /\ Len(list') <= MAX_TIMER_NUM + 1
      /\ timer' \in [Address -> Timers \union {NULL}]
      /\ timer'[a] \in Timers /\ timer'[a].kind = k
      /\ \A x \in Address : x # a => timer'[x] = timer[x]
      /\ timer[a] = NULL /\ ~On(list, a)
      /\ \A x : On(list', x) => On(list, x) \/ x = a
      /\ \A x : On(list, x) => On(list', x)
  BY <1>1, Added
<1>3. NULL \notin Timers
  BY DEF L!TimerAssumption, Timers
<1>4. \A x \in Address : On(list', x) => timer'[x] \in Timers
  BY <1>1, <1>2
<1>5. running' = NULL \/ On(list', running')
  BY <1>2 DEF TimerInv
<1>6. LedAppUt' = NULL \/ (LedAppUt' \in Address /\ timer'[LedAppUt'] \in Timers
                            /\ timer'[LedAppUt'].kind = "led")
  <2>1. LedAppUt # NULL => LedAppUt \in Address /\ LedAppUt # a
    BY <1>2, <1>3 DEF TimerInv, Allocated
  <2>2. QED
    BY <1>2, <2>1 DEF TimerInv, Allocated
<1>7. ASSUME NEW x \in Address, On(list', x), timer'[x].kind = "led" PROVE x = LedAppUt'
  BY <1>2, <1>7 DEF TimerInv
<1>8. QED
  BY <1>2, <1>4, <1>5, <1>6, <1>7 DEF TimerInv, Allocated

(* A new connection: the blinking timer makes way for another one.         *)
LEMMA Flicker ==
  ASSUME L!TimerAssumption, TimerInv, NEW a \in Address, L!LedAppFlicker(a)
  PROVE  TimerInv' /\ \A x : On(list, x) => x = LedAppUt \/ On(list', x)
<1>1. PICK l, t : /\ l = IF L!Deleted = {} THEN list ELSE L!Without(list, LedAppUt)
                  /\ t = [x \in Address |-> IF x \in L!Deleted THEN NULL ELSE timer[x]]
  OBVIOUS
<1>2. L!add_timer(l, t, a, "led") /\ LedAppUt' = a /\ running = NULL /\ UNCHANGED running
  BY <1>1 DEF L!LedAppFlicker
<1>3. /\ list \in Seq(Address) /\ Once(list) /\ Len(list) <= MAX_TIMER_NUM + 1
      /\ timer \in [Address -> Timers \union {NULL}]
      /\ \A x \in Address : On(list, x) => timer[x] \in Timers
  BY DEF TimerInv, Allocated
<1>4. \A x : x \in L!Deleted <=> x = LedAppUt /\ On(list, x)
  BY <1>3, OnIsListed DEF L!Deleted, L!Listed
<1>5. /\ l \in Seq(Address) /\ Once(l) /\ Len(l) <= MAX_TIMER_NUM + 1
      /\ \A x : On(l, x) <=> On(list, x) /\ x # LedAppUt
  <2>1. CASE On(list, LedAppUt)
    <3>1. l = L!Without(list, LedAppUt)
      BY <1>1, <1>4, <2>1
    <3>2. /\ l \in Seq(Address) /\ Len(l) = Len(list) - 1 /\ Once(l)
          /\ \A x : On(l, x) <=> On(list, x) /\ x # LedAppUt
      BY <1>3, <2>1, <3>1, WithoutIt
    <3>3. MAX_TIMER_NUM \in Nat /\ Len(list) \in Nat
      BY <1>3 DEF L!TimerAssumption
    <3>4. QED
      BY <1>3, <3>2, <3>3
  <2>2. CASE ~On(list, LedAppUt)
    <3>1. l = list
      BY <1>1, <1>4, <2>2
    <3>2. QED
      BY <1>3, <2>2, <3>1
  <2>3. QED
    BY <2>1, <2>2
<1>6. t \in [Address -> Timers \union {NULL}] /\ \A x \in Address : On(l, x) => t[x] = timer[x]
  BY <1>1, <1>3, <1>4, <1>5
<1>7. \A x \in Address : On(l, x) => t[x] \in Timers
  BY <1>3, <1>5, <1>6
<1>8. "led" \in L!Kind
  BY DEF L!Kind
<1>9. /\ list' \in Seq(Address) /\ Once(list') /\ Len(list') <= MAX_TIMER_NUM + 1
      /\ timer' \in [Address -> Timers \union {NULL}]
      /\ timer'[a] \in Timers /\ timer'[a].kind = "led"
      /\ \A x \in Address : x # a => timer'[x] = t[x]
      /\ t[a] = NULL /\ ~On(l, a)
      /\ \A x : On(list', x) => On(l, x) \/ x = a
      /\ \A x : On(l, x) => On(list', x)
  BY <1>2, <1>5, <1>6, <1>7, <1>8, Added
<1>10. \A x \in Address : On(list', x) => timer'[x] \in Timers
  BY <1>7, <1>9
<1>11. ASSUME NEW x \in Address, On(list', x), timer'[x].kind = "led" PROVE x = a
  <2>1. CASE x # a
    <3>1. On(list, x) /\ x # LedAppUt /\ timer'[x] = timer[x]
      BY <1>5, <1>6, <1>9, <1>11, <2>1
    <3>2. QED
      BY <1>11, <3>1 DEF TimerInv
  <2>2. QED
    BY <2>1
<1>12. TimerInv'
  BY <1>2, <1>9, <1>10, <1>11 DEF TimerInv, Allocated
<1>13. QED
  BY <1>5, <1>9, <1>12

(* Back from a callback: a periodic timer goes to the tail, for which the  *)
(* list has room because the timer was on it; a one-shot is freed.         *)
LEMMA Back ==
  ASSUME L!TimerAssumption, TimerInv, L!Return
  PROVE  /\ TimerInv'
         /\ \A x : On(list, x) => On(list', x) \/ (x = running /\ timer[x].kind = "ip")
<1>1. /\ list \in Seq(Address) /\ Once(list) /\ Len(list) <= MAX_TIMER_NUM + 1
      /\ timer \in [Address -> Timers \union {NULL}]
      /\ \A x \in Address : On(list, x) => timer[x] \in Timers
      /\ Len(list) \in Nat /\ MAX_TIMER_NUM \in Nat /\ NULL \notin Timers
  BY Allocation DEF TimerInv, Allocated, L!TimerAssumption, Timers
<1>2. running # NULL /\ running' = NULL /\ UNCHANGED LedAppUt
  BY DEF L!Return
<1>3. On(list, running) /\ running \in Address /\ timer[running] \in Timers
  BY <1>1, <1>2, OnInAddress DEF TimerInv
<1>4. PICK w : w = L!Without(list, running)
  OBVIOUS
<1>5. /\ w \in Seq(Address) /\ Len(w) = Len(list) - 1 /\ Once(w)
      /\ \A x : On(w, x) <=> On(list, x) /\ x # running
  BY <1>1, <1>3, <1>4, WithoutIt
<1>6. CASE L!Period[timer[running].kind] # 0
  <2>1. /\ list' = L!load_timer(w, running)
        /\ timer' = [timer EXCEPT ![running].due = L!Period[timer[running].kind]]
    BY <1>4, <1>6 DEF L!Return, L!adjust_timer
  <2>2. Len(w) <= MAX_TIMER_NUM
    BY <1>1, <1>5
  <2>3. PICK v : v = list'
    OBVIOUS
  <2>4. /\ v \in Seq(Address) /\ Once(v) /\ Len(v) <= MAX_TIMER_NUM + 1
        /\ \A x : On(v, x) => On(w, x) \/ x = running
        /\ \A x : On(w, x) => On(v, x)
        /\ On(v, running)
    <3>1. Len(w) <= MAX_TIMER_NUM + 1 /\ ~On(w, running)
      BY <1>1, <1>5, <2>2
    <3>2. QED
      BY <1>1, <1>3, <1>5, <2>1, <2>2, <2>3, <3>1, Loaded
  <2>5. \A x : On(v, x) <=> On(list, x)
    BY <1>3, <1>5, <2>4
  <2>6. L!Period[timer[running].kind] \in Int
    BY <1>3 DEF Timers, L!Period, L!Kind
  <2>7. /\ timer' \in [Address -> Timers \union {NULL}]
        /\ timer'[running] \in Timers /\ timer'[running].kind = timer[running].kind
        /\ \A x \in Address : x # running => timer'[x] = timer[x]
    BY <1>1, <1>3, <2>1, <2>6 DEF Timers
  <2>8. \A x \in Address : On(v, x) => timer'[x] \in Timers
    BY <1>1, <2>5, <2>7
  <2>9. LedAppUt = NULL \/ (LedAppUt \in Address /\ timer'[LedAppUt] \in Timers
                             /\ timer'[LedAppUt].kind = "led")
    BY <2>7 DEF TimerInv, Allocated
  <2>10. \A x \in Address : On(v, x) /\ timer'[x].kind = "led" => x = LedAppUt
    BY <2>5, <2>7 DEF TimerInv
  <2>11. TimerInv'
    BY <1>2, <2>3, <2>4, <2>7, <2>8, <2>9, <2>10 DEF TimerInv, Allocated
  <2>12. QED
    BY <2>3, <2>5, <2>11
<1>7. CASE L!Period[timer[running].kind] = 0
  <2>1. list' = w /\ timer' = [timer EXCEPT ![running] = NULL]
    BY <1>4, <1>7 DEF L!Return
  <2>2. timer[running].kind = "ip"
    BY <1>3, <1>7 DEF Timers, L!Period, L!Kind
  <2>3. timer' \in [Address -> Timers \union {NULL}]
        /\ \A x \in Address : x # running => timer'[x] = timer[x]
    BY <1>1, <1>3, <2>1
  <2>4. \A x \in Address : On(w, x) => timer'[x] \in Timers
    BY <1>1, <1>5, <2>3
  <2>5. LedAppUt = NULL \/ (LedAppUt \in Address /\ timer'[LedAppUt] \in Timers
                             /\ timer'[LedAppUt].kind = "led")
    BY <2>2, <2>3 DEF TimerInv, Allocated
  <2>6. \A x \in Address : On(w, x) /\ timer'[x].kind = "led" => x = LedAppUt
    BY <1>5, <2>3 DEF TimerInv
  <2>7. Len(w) <= MAX_TIMER_NUM + 1
    BY <1>1, <1>5
  <2>8. TimerInv'
    BY <1>2, <1>5, <2>1, <2>3, <2>4, <2>5, <2>6, <2>7 DEF TimerInv, Allocated
  <2>9. QED
    BY <1>5, <2>1, <2>2, <2>8
<1>8. QED
  BY <1>6, <1>7

(* The clock moves every timer of the list, and nothing else.              *)
LEMMA ClockMoves ==
  ASSUME L!TimerAssumption, TimerInv, NEW by \in Int, L!MoveClock(by),
         UNCHANGED <<list, running, LedAppUt>>
  PROVE  TimerInv'
<1>1. /\ list \in Seq(Address) /\ timer \in [Address -> Timers \union {NULL}] /\ MaxLag \in Nat
      /\ \A x \in Address : On(list, x) => timer[x] \in Timers
  BY DEF TimerInv, Allocated, L!TimerAssumption
<1>2. timer' = [x \in Address |-> IF x \in L!Listed
                                  THEN [timer[x] EXCEPT !.due = L!Moved(timer[x].due, by)]
                                  ELSE timer[x]]
  BY DEF L!MoveClock
<1>3. ASSUME NEW x \in Address, On(list, x)
      PROVE  timer'[x] \in Timers /\ timer'[x].kind = timer[x].kind
  <2>1. x \in L!Listed
    BY <1>1, <1>3, OnIsListed DEF L!Listed
  <2>2. timer'[x] = [timer[x] EXCEPT !.due = L!Moved(timer[x].due, by)]
    BY <1>2, <2>1
  <2>3. timer[x] \in Timers /\ timer[x].due \in Int
    BY <1>1, <1>3 DEF Timers
  <2>4. L!Moved(timer[x].due, by) \in Int
    BY <1>1, <2>3 DEF L!Moved
  <2>5. QED
    BY <2>2, <2>3, <2>4 DEF Timers
<1>4. ASSUME NEW x \in Address, ~On(list, x) PROVE timer'[x] = timer[x]
  BY <1>1, <1>2, <1>4, OnIsListed DEF L!Listed
<1>5. timer' \in [Address -> Timers \union {NULL}]
  BY <1>1, <1>2, <1>3, <1>4
<1>6. LedAppUt = NULL \/ (LedAppUt \in Address /\ timer'[LedAppUt] \in Timers
                           /\ timer'[LedAppUt].kind = "led")
  BY <1>3, <1>4 DEF TimerInv, Allocated
<1>7. \A x \in Address : On(list, x) /\ timer'[x].kind = "led" => x = LedAppUt
  BY <1>3 DEF TimerInv
<1>8. QED
  BY <1>3, <1>5, <1>6, <1>7 DEF TimerInv, Allocated

LEMMA NextTimer ==
  ASSUME L!TimerAssumption, TimerInv, [L!Next]_(L!vars)
  PROVE  /\ TimerInv'
         /\ \A x : On(list, x) /\ timer[x].kind \in {"event", "ta"} => On(list', x)
<1>1. ASSUME NEW a \in Address, NEW k \in L!Kind, L!AddPeriodic(a, k)
      PROVE  TimerInv' /\ \A x : On(list, x) => On(list', x)
  <2>1. k # "led" /\ L!add_timer(list, timer, a, k) /\ UNCHANGED <<running, LedAppUt>>
    BY <1>1 DEF L!AddPeriodic
  <2>2. QED
    BY <2>1, AddOther
<1>2. ASSUME NEW a \in Address, L!SetF7(a)
      PROVE  TimerInv' /\ \A x : On(list, x) => On(list', x)
  <2>1. /\ L!add_timer(list, timer, a, "ip") /\ UNCHANGED <<running, LedAppUt>>
        /\ "ip" \in L!Kind /\ "ip" # "led"
    BY <1>2 DEF L!SetF7, L!Kind
  <2>2. QED
    BY <2>1, AddOther
<1>3. ASSUME NEW a \in Address, L!LedAppFlicker(a)
      PROVE  TimerInv' /\ \A x : On(list, x) /\ timer[x].kind \in {"event", "ta"} => On(list', x)
  <2>1. \A x : On(list, x) => x = LedAppUt \/ On(list', x)
    BY <1>3, Flicker
  <2>2. \A x : On(list, x) => x \in Address
    BY OnInAddress DEF TimerInv
  <2>3. \A x \in Address : On(list, x) /\ x = LedAppUt => timer[x].kind = "led"
    BY Allocation DEF TimerInv, L!TimerAssumption
  <2>4. QED
    BY <1>3, <2>1, <2>2, <2>3, Flicker
<1>4. ASSUME NEW a \in Address, L!Fire(a)
      PROVE  TimerInv' /\ \A x : On(list, x) => On(list', x)
  <2>1. running' = a /\ UNCHANGED <<list, timer, LedAppUt>> /\ a \in L!Listed
    BY <1>4 DEF L!Fire, L!Expired
  <2>2. On(list, a)
    BY <2>1, OnIsListed DEF L!Listed, TimerInv
  <2>3. QED
    BY <2>1, <2>2 DEF TimerInv, Allocated
<1>5. ASSUME L!Return
      PROVE  TimerInv' /\ \A x : On(list, x) /\ timer[x].kind \in {"event", "ta"} => On(list', x)
  <2>1. \A x : On(list, x) => On(list', x) \/ timer[x].kind = "ip"
    BY <1>5, Back
  <2>2. QED
    BY <1>5, <2>1, Back
<1>6. ASSUME L!Second \/ L!SetBack
      PROVE  TimerInv' /\ UNCHANGED list
  <2>1. PICK by \in Int : L!MoveClock(by)
    BY <1>6 DEF L!Second, L!SetBack, L!TimerAssumption
  <2>2. UNCHANGED <<list, running, LedAppUt>>
    BY <1>6 DEF L!Second, L!SetBack
  <2>3. QED
    BY <2>1, <2>2, ClockMoves
<1>7. ASSUME UNCHANGED L!vars
      PROVE  TimerInv' /\ UNCHANGED list
  BY <1>7 DEF L!vars, TimerInv, Allocated
<1>8. QED
  BY <1>1, <1>2, <1>3, <1>4, <1>5, <1>6, <1>7 DEF L!Next

(* However many connections are made and however the memory of a timer is  *)
(* reused, one timer at most blinks the LED (LedApp.c LedAppFlicker).      *)
THEOREM OneBlinks == L!TimerAssumption /\ L!Spec => []OneBlinkTimer
<1> SUFFICES ASSUME L!TimerAssumption PROVE L!Spec => []OneBlinkTimer
  OBVIOUS
<1>1. TimerInv => OneBlinkTimer
  <2> SUFFICES ASSUME TimerInv, NEW a \in L!Listed, NEW b \in L!Listed,
                      timer[a].kind = "led", timer[b].kind = "led"
               PROVE  a = b
    BY DEF OneBlinkTimer, L!OneBlinkTimer
  <2>1. On(list, a) /\ On(list, b) /\ a \in Address /\ b \in Address
    BY OnIsListed, OnInAddress DEF L!Listed, TimerInv
  <2>2. QED
    BY <2>1 DEF TimerInv
<1>2. TimerInv /\ [L!Next]_(L!vars) => TimerInv'
  BY NextTimer
<1>3. L!Init => TimerInv
  BY InitTimer
<1>4. QED
  BY <1>1, <1>2, <1>3, PTL DEF L!Spec

(* A periodic timer of main never leaves the list, also when the list is   *)
(* at its limit when it is put back (ListTimer.c adjust_timer, load_timer).*)
THEOREM PeriodicStays == L!TimerAssumption /\ L!Spec => PeriodicKept
<1> SUFFICES ASSUME L!TimerAssumption PROVE L!Spec => PeriodicKept
  OBVIOUS
<1>1. TimerInv /\ [L!Next]_(L!vars) =>
        [\A a \in L!Listed : timer[a].kind \in {"event", "ta"} => a \in L!Listed']_(L!vars)
  <2> SUFFICES ASSUME TimerInv, L!Next,
                      NEW a \in L!Listed, timer[a].kind \in {"event", "ta"}
               PROVE  a \in L!Listed'
    OBVIOUS
  <2>1. On(list, a) /\ list' \in Seq(Address)
    BY NextTimer, OnIsListed DEF L!Listed, TimerInv
  <2>2. On(list', a)
    BY <2>1, NextTimer
  <2>3. QED
    BY <2>1, <2>2, OnIsListed DEF L!Listed
<1>2. TimerInv /\ [L!Next]_(L!vars) => TimerInv'
  BY NextTimer
<1>3. L!Init => TimerInv
  BY InitTimer
<1>4. QED
  BY <1>1, <1>2, <1>3, PTL DEF L!Spec, PeriodicKept, L!PeriodicKept
=============================================================================
