-------------------------------- MODULE TaMonitor --------------------------------
(***************************************************************************)
(* The watch on the current transformers: Ta_Module.c over                 *)
(* GetTerminalESAMData.c, MESamComMgr.c and MESamBase.c.  main identifies  *)
(* the TA module once (TaModuleInit); from then on local_worker polls it   *)
(* from a timer (TaModuleCallBack) and the threads of the stations turn    *)
(* what they find in TaStatus into events (CheckTAEvent).                  *)
(*                                                                         *)
(* A request goes over a serial line and its answer is waited for 11 s at  *)
(* most; an answer may be lost, refuse the request, or come after the wait *)
(* is over.  Nothing in an answer is compared with the request: the flush  *)
(* before each request is what keeps old answers apart from new ones.  The *)
(* ESAM is asked and answers at once, or the call fails.                   *)
(***************************************************************************)
EXTENDS Integers, Sequences, FiniteSets

CONSTANTS
  Readings,          \* what the module may find: [bits |-> the status bits of
                     \* each phase, none |-> the phases without current]
  GET_TA_STATUS_CNT, \* how often the callback asks for each of its two answers:
                     \* at least once
  Authentications,   \* how often TaModuleInit tries to identify the module
  MaxChanges         \* bound: how often what the module finds changes

Phase == {"A", "B", "C"}
CIRCUIT_SHORTCUT == 1
CIRCUIT_FONT_SHORTCUT == 8

VARIABLES
  pc,       \* where TaModuleInit or TaModuleCallBack is
  caller,   \* which of the two is running the authentication
  tries,    \* attempts left
  TaStatus, \* the bits stored for each phase
  line,     \* the requests the module has not answered yet, oldest first
  buffer,   \* the answers that wait in the driver of the serial port
  erc34,    \* the ERC34 records of the last CheckTAEvent
  reading,  \* what the module finds now,
  changes,  \* and how often that has changed
  seen,     \* history: <<phase, bit>> found since the last callback began
  overdue,  \* history: a request was sent while an older answer was still due
  foreign,  \* history: an answer was taken for the answer to another request
  verified  \* history: the ESAM has accepted the module's answer

vars == <<pc, caller, tries, TaStatus, line, buffer, erc34,
          reading, changes, seen, overdue, foreign, verified>>
serial == <<line, buffer, overdue>>
world == <<reading, changes, erc34>>

None == [p \in Phase |-> {}]
Found(r) == {f \in Phase \X {CIRCUIT_SHORTCUT, CIRCUIT_FONT_SHORTCUT} :
               f[2] \in r.bits[f[1]] \/ (f[2] = CIRCUIT_FONT_SHORTCUT /\ f[1] \in r.none)}

Init ==
  /\ pc = "open"
  /\ caller = "TaModuleInit"
  /\ tries = Authentications
  /\ TaStatus = None
  /\ line = <<>> /\ buffer = <<>>
  /\ erc34 = {}
  /\ reading \in Readings
  /\ changes = 0
  /\ seen = Found(reading)
  /\ overdue = FALSE /\ foreign = FALSE /\ verified = FALSE
-----------------------------------------------------------------------------
(* The serial line.                                                        *)
(***************************************************************************)
(* tcflush before the write: what has arrived is thrown away, what is      *)
(* still to come is not.                                                   *)
Flushed_not == buffer
Flushed == <<>>

(* An answer that is due when the next wait begins; one more than one      *)
(* request late is taken for lost.                                         *)
StillDue == IF line = <<>> THEN <<>> ELSE <<"older">>

(* ComTaUart_Send, and its failure.                                        *)
ComTaUart_Send(request) ==
  /\ buffer' = Flushed
  /\ line' = Append(StillDue, request)
  /\ overdue' = (overdue \/ line # <<>>)

SendFails ==
  /\ buffer' = Flushed
  /\ line' = StillDue
  /\ overdue' = (overdue \/ line # <<>>)

(* ComTaUart_Recv and mrsFind645Frame: the first frame of what has come,   *)
(* whatever it answers, unless the module refuses (0xC3).                  *)
Accepted == buffer # <<>> /\ Head(buffer).control # "0xC3"

Take(request) ==
  /\ Accepted
  /\ foreign' = (foreign \/ Head(buffer).request # request)
  /\ buffer' = <<>>
  /\ UNCHANGED <<line, overdue>>

(* Nothing within the wait, no valid frame among what came, or a refusal.  *)
NoAnswer == buffer' = <<>> /\ UNCHANGED <<line, overdue, foreign>>

(* What the answer says; the bytes of an answer to something else, or of a *)
(* refusal, may say anything.                                              *)
Says(request) == IF Head(buffer).request = request /\ Head(buffer).control # "0xC3"
                 THEN {Head(buffer).reading} ELSE Readings
-----------------------------------------------------------------------------
(* The module and the line, at any time.                                   *)
(***************************************************************************)
ModuleAnswers ==
  /\ line # <<>>
  /\ \E control \in {"0x83", "0xC3"} :
       buffer' = Append(buffer, [request |-> Head(line), control |-> control,
                                 reading |-> reading])
  /\ line' = Tail(line)
  /\ UNCHANGED <<pc, caller, tries, TaStatus, world, seen, overdue, foreign, verified>>

AnswerLost ==
  /\ line # <<>>
  /\ line' = Tail(line)
  /\ UNCHANGED <<pc, caller, tries, TaStatus, buffer, world, seen, overdue, foreign, verified>>

ReadingChanges ==
  /\ changes < MaxChanges
  /\ changes' = changes + 1
  /\ reading' \in Readings \ {reading}
  /\ seen' = seen \union Found(reading')
  /\ UNCHANGED <<pc, caller, tries, TaStatus, serial, erc34, foreign, verified>>
-----------------------------------------------------------------------------
(* TerminalCtAuthenticate, called by TaModuleInit and before each request  *)
(* for the measured values.                                                *)
(***************************************************************************)
AuthenticationFails ==
  \/ /\ caller = "TaModuleInit"
     /\ tries' = tries - 1
     /\ pc' = IF tries' = 0 THEN "ended" ELSE "authenticate"
  \/ /\ caller = "TaModuleCallBack"   \* "failed" is printed, and on it goes
     /\ pc' = "ask current"
     /\ UNCHANGED tries

(* MEsamDataSend and MEsamDataRecv: byte by byte over SPI, for 12 seconds  *)
(* at most, until a frame with a right check sum is there, or without one. *)
MEsamDataRecv == {"frame", "none"}

(* step01 and step02: the ESAM's random number, sent to the module.  That  *)
(* the write may fail is noticed and ignored.                              *)
FirstFrame ==
  /\ pc = "authenticate"
  /\ \E esam \in MEsamDataRecv :
       \/ /\ esam = "frame"
          /\ ComTaUart_Send("first") \/ SendFails
          /\ pc' = "first" /\ UNCHANGED tries
       \/ esam = "none" /\ AuthenticationFails /\ UNCHANGED serial
  /\ UNCHANGED <<caller, TaStatus, world, seen, foreign, verified>>

(* step03: the ESAM checks that the module could use the random number.    *)
EsamAccepts_anything == TRUE
EsamAccepts == Head(buffer).request = "first" /\ Head(buffer).control # "0xC3"

(* step03 to step05: checked by the ESAM, the module's own random number   *)
(* is encrypted and sent back.                                             *)
SecondFrame ==
  /\ pc = "first"
  /\ \/ /\ Accepted /\ EsamAccepts
        /\ verified' = (verified \/ (Head(buffer).request = "first" /\ Head(buffer).control # "0xC3"))
        /\ foreign' = (foreign \/ Head(buffer).request # "first")
        /\ ComTaUart_Send("second") /\ pc' = "second" /\ UNCHANGED tries
     \/ Take("first") /\ AuthenticationFails /\ UNCHANGED verified
     \/ NoAnswer /\ AuthenticationFails /\ UNCHANGED verified
  /\ UNCHANGED <<caller, TaStatus, world, seen>>

(* The module accepts by any answer that is not a refusal; TaModuleInit    *)
(* then adds the timer.                                                    *)
Authenticated ==
  /\ pc = "second"
  /\ \/ /\ Take("second")
        /\ pc' = IF caller = "TaModuleInit" THEN "idle" ELSE "ask current"
        /\ UNCHANGED tries
     \/ NoAnswer /\ AuthenticationFails
  /\ UNCHANGED <<caller, TaStatus, world, seen, verified>>

(* MEsamDevOpen: the device and the three settings of the SPI, which       *)
(* MEsamParaSet writes and, without a look at the outcome, reads back.     *)
MEsamParaSet == {0, -1}
MEsamDevOpen == {-1} \union MEsamParaSet

(* OpenTaUartPort: the port, and back to blocking reads; that standard     *)
(* input is no terminal is only printed.                                   *)
OpenTaUartPort == {0, -1}

(* ComTaUart_Set: an unknown speed is passed over, other unknown settings  *)
(* are refused.  What is waiting in the driver is thrown away.             *)
ComTaUart_Set(databits, stopbits, parity) ==
  {-1} \union IF databits \in 5..8 /\ stopbits \in 1..2
                 /\ parity \in {"n", "N", "o", "O", "e", "E", "s", "S"} THEN {0} ELSE {}

(* TaModuleInit: the ESAM's device and the serial port, once after the     *)
(* start and never again.                                                  *)
TaModuleInit ==
  /\ pc = "open"
  /\ \E esam \in MEsamDevOpen, port \in OpenTaUartPort, set \in ComTaUart_Set(8, 1, "e") :
       IF {esam, port, set} = {0}
       THEN pc' = "authenticate" /\ buffer' = <<>>
       ELSE pc' = "ended" /\ UNCHANGED buffer
  /\ UNCHANGED <<caller, tries, TaStatus, line, overdue, world, seen, foreign, verified>>
-----------------------------------------------------------------------------
(* TaModuleCallBack.                                                       *)
(***************************************************************************)
(* memset at the head of the callback.                                     *)
Cleared_not == TaStatus
Cleared == None

TaModuleCallBack ==
  /\ pc = "idle"
  /\ TaStatus' = Cleared
  /\ pc' = "ask status" /\ tries' = GET_TA_STATUS_CNT
  /\ caller' = "TaModuleCallBack"
  /\ seen' = Found(reading)
  /\ UNCHANGED <<serial, world, foreign, verified>>

(* One attempt of the loop has failed.                                     *)
Again_uncounted(ask, next) == pc' = ask /\ UNCHANGED tries
Again(ask, next) ==
  IF tries > 1 THEN pc' = ask /\ tries' = tries - 1
               ELSE pc' = next /\ tries' = GET_TA_STATUS_CNT

AskStatus ==
  /\ pc = "ask status"
  /\ \/ ComTaUart_Send("status") /\ pc' = "status" /\ UNCHANGED tries
     \/ SendFails /\ Again("ask status", "authenticate")
  /\ UNCHANGED <<caller, TaStatus, world, seen, foreign, verified>>

(* GetCTModuleStatus: the answer goes into TaStatus before the ESAM has    *)
(* checked its MAC.                                                        *)
StoreStatus ==
  /\ pc = "status"
  /\ \/ /\ Take("status")
        /\ \E r \in Says("status") : TaStatus' = r.bits
        /\ pc' = "check MAC" /\ UNCHANGED tries
     \/ NoAnswer /\ Again("ask status", "authenticate") /\ UNCHANGED TaStatus
  /\ UNCHANGED <<caller, world, seen, verified>>

(* The ESAM refuses: a further attempt.  It accepts: GetCTModuleStatus     *)
(* ends without a return statement, so its caller may see 0 or not.        *)
CheckMac ==
  /\ pc = "check MAC"
  /\ \E esam \in MEsamDataRecv :
       \/ Again("ask status", "authenticate")
       \/ esam = "frame" /\ pc' = "authenticate" /\ tries' = GET_TA_STATUS_CNT
  /\ UNCHANGED <<caller, TaStatus, serial, world, seen, foreign, verified>>

(* GetTAModuleRealTimeMeasureData, after the authentication.               *)
AskCurrent ==
  /\ pc = "ask current"
  /\ \/ ComTaUart_Send("current") /\ pc' = "current" /\ UNCHANGED tries
     \/ SendFails /\ Again("authenticate", "idle")
  /\ UNCHANGED <<caller, TaStatus, world, seen, foreign, verified>>

(* GetInCurrentBypassStatus: three bytes of each current are compared as a *)
(* word whose fourth byte is never set: zero is recognised or it is not.   *)
Bypassed(r) == {r.none, {}}

(* The bit is set for the phases without current, and never cleared: the   *)
(* mask of the else branch is empty.                                       *)
StoreBypass ==
  /\ pc = "current"
  /\ \/ /\ Take("current")
        /\ \E r \in Says("current") : \E without \in Bypassed(r) :
             TaStatus' = [p \in Phase |-> TaStatus[p] \union
                            IF p \in without THEN {CIRCUIT_FONT_SHORTCUT} ELSE {}]
        /\ pc' = "idle" /\ UNCHANGED tries
     \/ NoAnswer /\ Again("authenticate", "idle") /\ UNCHANGED TaStatus
  /\ UNCHANGED <<caller, world, seen, verified>>
-----------------------------------------------------------------------------
(* CheckTAEvent, in a thread of a station.  TaStatusBack is never set, so  *)
(* "changed" is "not zero".  x&0X01 == 1 is x&1, but x&0X02 == 1,          *)
(* x&0X04 == 1 and x&0X08 == 1 are x&0; x&0X08 == 0x08, asked of phase B   *)
(* alone, is x&1 again.                                                    *)
(***************************************************************************)
Short == {p \in Phase : CIRCUIT_SHORTCUT \in TaStatus[p]}

CheckTAEvent ==
  /\ erc34' = (IF Short = {} THEN {} ELSE {[extype |-> 1, phases |-> Short]})
              \union (IF "B" \in Short THEN {[extype |-> 3, phases |-> {"B"}]} ELSE {})
  /\ UNCHANGED <<pc, caller, tries, TaStatus, serial, reading, changes, seen, foreign, verified>>
-----------------------------------------------------------------------------
local_worker ==
  \/ TaModuleInit \/ FirstFrame \/ SecondFrame \/ Authenticated
  \/ AskStatus \/ StoreStatus \/ CheckMac \/ AskCurrent \/ StoreBypass

Next ==
  \/ local_worker \/ TaModuleCallBack
  \/ ModuleAnswers \/ AnswerLost \/ ReadingChanges
  \/ CheckTAEvent

Spec == Init /\ [][Next]_vars
-----------------------------------------------------------------------------
(* Types of the variables.                                                 *)
Request == {"first", "second", "status", "current", "older"}
Answer == [request : Request,
           control : {"0x83", "0xC3"}, reading : Readings]

TypeOK ==
  /\ pc \in {"open", "authenticate", "first", "second", "idle", "ended", "ask status",
             "status", "check MAC", "ask current", "current"}
  /\ caller \in {"TaModuleInit", "TaModuleCallBack"}
  /\ tries \in Int
  /\ TaStatus \in [Phase -> SUBSET Nat]
  /\ line \in Seq(Request)
  /\ buffer \in Seq(Answer)
  /\ reading \in Readings
  /\ changes \in Nat
  /\ {overdue, foreign, verified} \subseteq BOOLEAN

(* As long as no request is sent while an older answer is still on its way, *)
(* no answer is taken for the answer to another request, although no        *)
(* function compares the two: answers that come after their wait are        *)
(* thrown away.                                                             *)
OwnAnswers == foreign => overdue

(* Under the same condition an ERC34 record of a short circuit names only  *)
(* phases the module has found short-circuited since the last callback     *)
(* began: it is made neither of an old status nor of a refusal or of the   *)
(* answer to another request.                                              *)
RecordsAreMeasured ==
  [][\A r \in erc34' \ erc34 : overdue \/ \A p \in r.phases : <<p, CIRCUIT_SHORTCUT>> \in seen]_vars

(* The module is polled only if the ESAM has once accepted it.             *)
PolledIsVerified == caller = "TaModuleCallBack" \/ pc = "idle" => verified

(* A callback comes to its end, whatever the module and the line do: it    *)
(* runs in the thread that serves all timers.                              *)
CallBackEnds == caller = "TaModuleCallBack" ~> pc = "idle"
=============================================================================
