------------------------------- MODULE EsamCommands -------------------------------
(***************************************************************************)
(* The requests to the terminal's ESAM and to the TA module that no thread *)
(* of this commit makes: the reports for the main station                  *)
(* (GetTerminalSecurityAuthenInfo, GetTermESAMInfo,                        *)
(* MainStaGetTermCertiInfo, TermCertificateUpdateRequest) and the settings *)
(* of the module (GetTABaudrate, SetTABaudrate, GetTATransformRate,        *)
(* GetTAModuleSecurityInfo).  Each is a script of exchanges whose answers  *)
(* are put one behind the other in the caller's buffer.                    *)
(*                                                                         *)
(* An exchange with the ESAM either brings the answer, of the length the   *)
(* code's comments give, or fails: no frame in time, another first byte    *)
(* than 0x55, another status than 0x9000, no room in the buffer.  The      *)
(* state of the ESAM may change between two exchanges.                     *)
(***************************************************************************)
EXTENDS Integers, Sequences

CONSTANTS
  Status,     \* the states of the ESAM: it has a certificate for each
  Random,     \* the random numbers R4 of the main station
  Words,      \* the baud rate words
  MaxChanges  \* bound: how often the state of the ESAM changes

VARIABLES
  function, \* the one that is being executed, or "none"
  step,     \* the exchanges it has done
  arg,      \* its argument
  buf,      \* recvDataBuf: the fields received, in their order
  chip,     \* _ChipStatus, a local variable; the third answer in sBuf
  mainStatRandom4, \* R4 of the last report, a global variable
  BaudMac,  \* the MAC of the last baud rate read, a global variable
  result,   \* what the last call returned
  status,   \* the ESAM's state now,
  switches, \* and how often it has changed
  rate,     \* the module's baud rate word,
  rates     \* history: and all it has had

vars == <<function, step, arg, buf, chip, mainStatRandom4, BaudMac, result,
          status, switches, rate, rates>>
world == <<status, switches, rate, rates>>

Field(name, of) == [name |-> name, of |-> of]
NoMac == [genuine |-> FALSE, of |-> CHOOSE w \in Words : TRUE]
Nothing == [of |-> "none", ret |-> -1, data |-> <<>>, mac |-> <<>>]

Init ==
  /\ function = "none" /\ step = 0 /\ arg \in Random /\ buf = <<>>
  /\ chip \in Status
  /\ mainStatRandom4 = "zero"
  /\ BaudMac = NoMac
  /\ result = Nothing
  /\ status \in Status /\ switches = 0
  /\ rate \in Words /\ rates = {rate}
-----------------------------------------------------------------------------
(* What each report asks for, in this order.  A result of 0 stands for     *)
(* success, which some of the functions tell by the length of the report.  *)
AuthenInfo == <<"serial", "status", "certificate", "counter", "version", "R5">>
EsamInfo == <<"serial", "status", "certificate", "counter", "version">>
CertiInfo == <<"serial", "counter", "status", "certificate", "version", "R5">>
UpdateRequest == <<"certificate", "request">>

Script(f) == CASE f = "GetTerminalSecurityAuthenInfo" -> AuthenInfo
               [] f = "GetTermESAMInfo" -> EsamInfo
               [] f = "MainStaGetTermCertiInfo" -> CertiInfo
               [] f = "TermCertificateUpdateRequest" -> UpdateRequest

Reports == {"GetTerminalSecurityAuthenInfo", "GetTermESAMInfo", "MainStaGetTermCertiInfo",
            "TermCertificateUpdateRequest"}
WithMac == {"GetTerminalSecurityAuthenInfo", "MainStaGetTermCertiInfo"}

Call(f) ==
  /\ function = "none"
  /\ function' = f /\ step' = 0 /\ buf' = <<>>
  /\ result' = [Nothing EXCEPT !.of = f]
  /\ UNCHANGED <<chip, BaudMac, world>>

(* GetTerminalSecurityAuthenInfo keeps R4, and its complement, at once.    *)
CallReport ==
  \E f \in Reports :
    /\ Call(f)
    /\ arg' \in (IF f = "TermCertificateUpdateRequest" THEN Status ELSE Random)
    /\ mainStatRandom4' = IF f = "GetTerminalSecurityAuthenInfo" THEN arg' ELSE mainStatRandom4

Return(ret, data, mac) ==
  /\ function' = "none"
  /\ result' = [of |-> function, ret |-> ret, data |-> data, mac |-> mac]

(* The certificate asked for is that of the state just read: p1 of the     *)
(* request is overwritten with it (CerSerFramer[2], GCertiNo[2]).          *)
AskedFor(name) ==
  IF function = "TermCertificateUpdateRequest" THEN arg ELSE chip

(* What the ESAM answers.                                                  *)
Answer(name) ==
  CASE name = "status" -> Field(name, status)
    [] name = "certificate" -> Field(name, AskedFor(name))
    [] OTHER -> Field(name, "any")

(* Behind the counter the state is put in by hand; when the state has an   *)
(* answer of its own in the buffer the fields are moved at the end.        *)
Stored(name) ==
  CASE function # "MainStaGetTermCertiInfo" /\ name = "status" -> <<>>
    [] function # "MainStaGetTermCertiInfo" /\ name = "counter" ->
         <<Answer(name), Field("status", chip)>>
    [] OTHER -> <<Answer(name)>>

Ask ==
  /\ function \in Reports /\ step < Len(Script(function))
  /\ LET name == Script(function)[step + 1] IN
       \/ /\ buf' = buf \o Stored(name)
          /\ chip' = IF name = "status" THEN status ELSE chip
          /\ step' = step + 1
          /\ UNCHANGED <<function, result>>
       \/ /\ Return(-1, buf, <<>>)
          /\ UNCHANGED <<step, buf, chip>>
  /\ UNCHANGED <<arg, mainStatRandom4, BaudMac, world>>

(* MainStaGetTermCertiInfo copies its six fields into the reported order.  *)
Reported ==
  IF function = "MainStaGetTermCertiInfo"
  THEN <<buf[1], buf[4], buf[2], buf[3], buf[5], buf[6]>> ELSE buf

(* The MAC over R4, its complement and the fields.  The request of         *)
(* MainStaGetTermCertiInfo has one byte for the length where the other     *)
(* has two: what the ESAM then takes for the data, if it answers at all,   *)
(* is not what was meant.                                                  *)
MacOver ==
  IF function = "GetTerminalSecurityAuthenInfo" THEN <<mainStatRandom4, Reported>> ELSE <<>>

End ==
  /\ function \in Reports /\ step = Len(Script(function))
  /\ \/ function \notin WithMac /\ Return(0, Reported, <<>>)
     \/ function \in WithMac /\ Return(0, Append(Reported, Field("MAC", "any")), MacOver)
     \/ function \in WithMac /\ Return(-1, Reported, <<>>)
  /\ UNCHANGED <<step, arg, buf, chip, mainStatRandom4, BaudMac, world>>
-----------------------------------------------------------------------------
(* The module's settings.                                                  *)
(***************************************************************************)
CallSetting ==
  \E f \in {"GetTABaudrate", "SetTABaudrate", "GetTATransformRate", "GetTAModuleSecurityInfo"} :
    /\ Call(f)
    /\ arg' \in Words
    /\ UNCHANGED mainStatRandom4

(* What may be read as the answer to a request for the baud rate: its own  *)
(* answer, a late one to an earlier request, or a refusal (0xC3), which is *)
(* not told from an answer and may hold any bytes.                         *)
BaudAnswers == {[genuine |-> TRUE, of |-> w] : w \in rates}
                 \union {[genuine |-> FALSE, of |-> w] : w \in Words}

(* The ESAM, asked to check the MAC, accepts that of a genuine answer; or  *)
(* the exchange fails.                                                     *)
MacAccepted_unasked(answer) == TRUE
MacAccepted(answer) == answer.genuine

(* The word and its MAC are stored before the MAC is checked.              *)
GetTABaudrate ==
  /\ function = "GetTABaudrate"
  /\ \/ \E answer \in BaudAnswers :
          /\ BaudMac' = answer
          /\ \/ MacAccepted(answer) /\ Return(0, <<Field("word", answer.of)>>, <<>>)
             \/ Return(-1, <<Field("word", answer.of)>>, <<>>)
     \/ Return(-1, <<>>, <<>>) /\ UNCHANGED BaudMac
  /\ UNCHANGED <<step, arg, buf, chip, mainStatRandom4, world>>

(* The MAC sent is the one that came with the last rate read, not one over *)
(* the new rate: the module may take the rate or leave it, and whatever it *)
(* answers is not looked at.  The MAC2 the ESAM then makes, over an        *)
(* identity of zeros, is what decides the result.                          *)
SetTABaudrate ==
  /\ function = "SetTABaudrate"
  /\ rate' \in {rate, arg} /\ rates' = rates \union {rate'}
  /\ \/ Return(0, <<Field("MAC2", "any")>>, <<>>)
     \/ Return(-1, <<>>, <<>>)
  /\ UNCHANGED <<step, arg, buf, chip, mainStatRandom4, BaudMac, status, switches>>

(* The transformation ratio is asked for and thrown away: only whether an  *)
(* answer came, and was no refusal, is returned.                           *)
GetTATransformRate ==
  /\ function = "GetTATransformRate"
  /\ Return(0, <<>>, <<>>) \/ Return(-1, <<>>, <<>>)
  /\ UNCHANGED <<step, arg, buf, chip, mainStatRandom4, BaudMac, world>>

(* sizeof(Frame) is the size of a pointer: at most that many bytes are     *)
(* read, which is less than the shortest frame, so that any answer is      *)
(* taken for none.                                                         *)
GetTAModuleSecurityInfo ==
  /\ function = "GetTAModuleSecurityInfo"
  /\ Return(-1, <<>>, <<>>)
  /\ UNCHANGED <<step, arg, buf, chip, mainStatRandom4, BaudMac, world>>

EsamChanges ==
  /\ switches < MaxChanges
  /\ switches' = switches + 1
  /\ status' \in Status \ {status}
  /\ UNCHANGED <<function, step, arg, buf, chip, mainStatRandom4, BaudMac, result, rate, rates>>

Next ==
  \/ CallReport \/ Ask \/ End
  \/ CallSetting \/ GetTABaudrate \/ SetTABaudrate
  \/ GetTATransformRate \/ GetTAModuleSecurityInfo
  \/ EsamChanges

Spec == Init /\ [][Next]_vars
-----------------------------------------------------------------------------
(* The layout the comments of GetTerminalESAMData.c give, by two routes.   *)
Layout ==
  [f \in {"GetTerminalSecurityAuthenInfo", "MainStaGetTermCertiInfo", "GetTermESAMInfo"} |->
     IF f = "GetTermESAMInfo"
     THEN <<"serial", "certificate", "counter", "status", "version">>
     ELSE <<"serial", "certificate", "counter", "status", "version", "R5", "MAC">>]

(* A report that is returned as a success has the fields of the documented *)
(* layout, with the certificate of the very state it reports even if the   *)
(* ESAM changed its state in between; the MAC of                           *)
(* GetTerminalSecurityAuthenInfo is over these fields and the random       *)
(* number of this call.  A baud rate returned as a success was the         *)
(* module's at some time, and is no bytes of a refusal.                    *)
GenuineAnswers ==
  (function = "none" /\ result.ret = 0) =>
    /\ result.of \in DOMAIN Layout =>
         /\ [i \in 1..Len(result.data) |-> result.data[i].name] = Layout[result.of]
         /\ result.data[2].of = result.data[4].of
    /\ result.of = "GetTerminalSecurityAuthenInfo" =>
         result.mac = <<arg, SubSeq(result.data, 1, 6)>>
    /\ result.of = "GetTABaudrate" => result.data[1].of \in rates
=============================================================================
