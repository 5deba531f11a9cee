------------------------------ MODULE Dispatcher ------------------------------
(***************************************************************************)
(* The command dispatcher of Mrs_fw_proto376_1.c: Protocl13761ParseData,   *)
(* the handlers AFN_05H (control), AFN_09H (configuration), AFN_0AH (query *)
(* of parameters), AFN_0CH (real-time data) and AFN_0EH (events), and the  *)
(* three functions that build and send the answers.  AFN 00 is in          *)
(* EventReport, AFN 01 and 04 are in ParamStore.                           *)
(*                                                                         *)
(* Each channel handles its requests in its own thread.  A request is a    *)
(* list of units, and a handler takes them one at a time.  The answer is   *)
(* kept as cells: a unit's identifier is one cell and its data is one      *)
(* cell, so what is abstracted is the length of the data and not its       *)
(* place.  Events are fetched into EventBuf, which all threads share, and  *)
(* are copied from there row by row.                                       *)
(***************************************************************************)
EXTENDS Integers, Sequences, SequencesExt, FiniteSets

CONSTANTS
  Channel,     \* the threads that handle requests
  Asked,       \* [Channel -> the frames that may arrive on it]
  Rows,        \* the records of the table ImportanceEvent, oldest first
  Ordinary,    \* the records of the table ordinaryEvent
  Flagged,     \* the places in Rows of the records that may be reported
  Limit,       \* 1200: above this length AFN 0E starts a new frame
  Room,        \* 1176: the longest data that still fits a frame
  SeqNumbers,  \* 16: the sequence number of a frame has 4 bits
  Start,       \* the time before the station first sets it
  None         \* no request yet

(* A data unit, a request and a record as the frames and the tables give    *)
(* them.  A unit that asks for events names two numbers.                   *)
DataUnit == [fn : Nat, pn : Nat, arg : Seq(Nat)]
Request == [afn : STRING, units : Seq(DataUnit), next : DataUnit,
            seq : 0 .. SeqNumbers - 1, dir : STRING, to : STRING, group : BOOLEAN]
Record == [id : Nat, erc : Nat, size : Nat]

ASSUME DispatcherAssumption ==
  /\ SeqNumbers \in Nat \ {0}
  /\ Room \in Nat \ {0}
  /\ None \notin Channel
  /\ \A c \in Channel :
       /\ Asked[c] \subseteq Request /\ None \notin Asked[c]
       /\ \A r \in Asked[c] : r.afn = "0E" =>
            \A i \in DOMAIN r.units : r.units[i].fn \in {1, 2, 3} => Len(r.units[i].arg) = 2
  /\ Rows \in Seq(Record) /\ Ordinary \in Seq(Record)
  /\ Flagged \subseteq DOMAIN Rows

VARIABLES
  pc,          \* what each channel does: "idle", "unit", "rows" or "answer"
  req,         \* the request it handles or handled last
  at,          \* di_cnt: the units it has taken
  bad,         \* fail_cnt > 0
  ack,         \* ACKbuf: [cell, len, pos]
  out,         \* the answer to AFN 0E: [body, row, sum, frames]
  seq,         \* the sequence number in the frame buffer of the request
  sent,        \* the frames handed to SendData for the request
  EventBuf,    \* the rows fetched last, by any thread
  clock,       \* the time of the terminal
  did          \* history of the request: [clock, erc, torn, dropped, failed]

vars == <<pc, req, at, bad, ack, out, seq, sent, EventBuf, clock, did>>
locals == <<req, at, bad, ack, out, seq, sent>>

(* What a unit asks for.  An identifier that getFn or getPn refuses is     *)
(* Unreadable.                                                             *)
Unreadable == [fn |-> 0, pn |-> 0, arg |-> <<>>]

Blank == [fn |-> 0, part |-> "unset"]
Di(fn) == [fn |-> fn, part |-> "di"]
Data(fn) == [fn |-> fn, part |-> "data"]

NoAck == [cell |-> <<>>, len |-> 0, pos |-> 0]
NoOut == [body |-> <<>>, row |-> 0, sum |-> 0, frames |-> 0]
Nothing == [clock |-> FALSE, erc |-> {}, torn |-> FALSE, dropped |-> FALSE, failed |-> FALSE]

Init ==
  /\ pc = [c \in Channel |-> "idle"]
  /\ req = [c \in Channel |-> None]
  /\ at = [c \in Channel |-> 0]
  /\ bad = [c \in Channel |-> FALSE]
  /\ ack = [c \in Channel |-> NoAck]
  /\ out = [c \in Channel |-> NoOut]
  /\ seq = [c \in Channel |-> 0]
  /\ sent = [c \in Channel |-> <<>>]
  /\ EventBuf = <<>>
  /\ clock = Start
  /\ did = [c \in Channel |-> Nothing]
--------------------------------------------------------------------------------
(* Frames that are for this terminal, and the ones nobody must answer.     *)
Mine(r) == r.dir = "down" /\ r.to \in {"own", "all"}
Broadcast(r) == r.to = "all" /\ r.group
Served(r) == r.afn \in {"05", "09", "0A", "0C", "0E"}

(* Protocl13761ParseData: the checks of the frame and the switch on the    *)
(* AFN.  The other AFNs of this module, 02, 03 and 06, do nothing.         *)
ParseData(c) ==
  /\ pc[c] = "idle"
  /\ \E r \in Asked[c] :
       /\ req' = [req EXCEPT ![c] = r]
       /\ seq' = [seq EXCEPT ![c] = r.seq]
       /\ pc' = [pc EXCEPT ![c] = IF Mine(r) /\ Served(r) THEN "unit" ELSE "idle"]
  /\ at' = [at EXCEPT ![c] = 0]
  /\ bad' = [bad EXCEPT ![c] = FALSE]
  /\ sent' = [sent EXCEPT ![c] = <<>>]
  /\ did' = [did EXCEPT ![c] = Nothing]
  /\ UNCHANGED <<ack, out, EventBuf, clock>>

(* The loop of AFN 0C compares the unit's first byte and not its end with  *)
(* the end of the data: it takes one unit more, made of what follows.      *)
UnitCount(r) == IF r.afn = "0C" THEN Len(r.units) + 1 ELSE Len(r.units)
UnitAt(r, i) == IF i <= Len(r.units) THEN r.units[i] ELSE r.next

(* F10 of AFN 0A and the handlers of AFN 0E leave di_data_len at 0: what   *)
(* follows the unit is read two bytes too early and is no unit.            *)
Misread(r, i) ==
  /\ i > 1
  /\ \/ r.afn = "0A" /\ r.units[i - 1].fn = 10
     \/ r.afn = "0E"

Unit(c) ==
  IF Misread(req[c], at[c] + 1) THEN Unreadable ELSE UnitAt(req[c], at[c] + 1)
Taking(c, afn) == pc[c] = "unit" /\ req[c].afn = afn /\ at[c] < UnitCount(req[c])

(* A unit that failed ends the loop.                                       *)
Fail(c) ==
  /\ at' = [at EXCEPT ![c] = @ + 1]
  /\ bad' = [bad EXCEPT ![c] = TRUE]
  /\ pc' = [pc EXCEPT ![c] = "answer"]

Advance(c) ==
  /\ at' = [at EXCEPT ![c] = @ + 1]
  /\ UNCHANGED <<pc, bad>>

NoMoreUnits(c) ==
  /\ pc[c] = "unit"
  /\ at[c] = UnitCount(req[c])
  /\ pc' = [pc EXCEPT ![c] = "answer"]
  /\ UNCHANGED <<locals, EventBuf, clock, did>>
--------------------------------------------------------------------------------
(* AFN 05.  Only F31 does anything: it sets the clock, and records ERC 41  *)
(* when that worked.  It succeeds whether it worked or not.                *)
Accepted == {1, 2, 27, 29, 32, 35, 37, 38, 39}

(* setup_time: the clock chip is missing, or refuses the time five times.  *)
setup_time == {0, -1}

CreateEvent41(c) == did' = [did EXCEPT ![c].clock = TRUE, ![c].erc = @ \cup {41}]

SetClock(c, u) ==
  \/ 0 \in setup_time /\ clock' = u.arg[1] /\ CreateEvent41(c)
  \/ /\ -1 \in setup_time
     /\ did' = [did EXCEPT ![c].failed = TRUE]
     /\ UNCHANGED clock

AFN_05H(c) ==
  /\ Taking(c, "05")
  /\ LET u == Unit(c) IN
       IF u.fn = 31 /\ u.pn = 0
       THEN SetClock(c, u) /\ Advance(c)
       ELSE /\ IF u.fn \in Accepted THEN Advance(c) ELSE Fail(c)
            /\ UNCHANGED <<clock, did>>
  /\ UNCHANGED <<req, ack, out, seq, sent, EventBuf>>

(* Writing cells into ACKbuf from place p.                                 *)
Write(b, p, s) ==
  LET new == p .. p + Len(s) - 1 IN
    [b EXCEPT !.cell = [i \in (DOMAIN @) \cup new |-> IF i \in new THEN s[i - p + 1] ELSE @[i]]]

(* AFN 09.  F1 and F9 write their data right after the first identifier,   *)
(* whichever unit they answer.                                             *)
Configuration == {1, 9}

AFN_09H(c) ==
  /\ Taking(c, "09")
  /\ LET u == Unit(c) IN
       IF u.fn \in Configuration
       THEN LET b == Write(ack[c], ack[c].len, <<Di(u.fn)>>) IN
              /\ ack' = [ack EXCEPT ![c] = [Write(b, 1, <<Data(u.fn)>>) EXCEPT !.len = @ + 2]]
              /\ Advance(c)
       ELSE Fail(c) /\ UNCHANGED ack
  /\ UNCHANGED <<req, out, seq, sent, EventBuf, clock, did>>

(* AFN 0A.  F89 falls through to F91; F10 refuses to read any archive.  A  *)
(* readable unit that fails counts as a lost parameter when its number is  *)
(* one of CheckParaLostEvent's.                                            *)
Queried == {1, 3, 5, 7, 9, 10, 16, 36, 89, 91, 153, 154}
LossKinds == {1, 3, 7, 8, 9, 10, 16, 89, 91, 153, 154}
QueryWorks(u) == u.fn \in Queried /\ (u.fn = 10 => u.arg[1] = 0)
Answered(u) ==
  IF u.fn = 89 THEN <<Di(89), Data(89), Data(91)>> ELSE <<Di(u.fn), Data(u.fn)>>

Place_fixed(b) == 0
Place(b) == b.len

Answer_0A(b, u) ==
  [Write(b, Place(b), Answered(u)) EXCEPT !.len = @ + Len(Answered(u))]

AFN_0AH(c) ==
  /\ Taking(c, "0A")
  /\ LET u == Unit(c) IN
       IF QueryWorks(u)
       THEN /\ ack' = [ack EXCEPT ![c] = Answer_0A(@, u)]
            /\ Advance(c)
            /\ UNCHANGED did
       ELSE /\ did' = IF u.fn \in LossKinds
                      THEN [did EXCEPT ![c].erc = @ \cup {2}] ELSE did
            /\ Fail(c)
            /\ UNCHANGED ack
  /\ UNCHANGED <<req, out, seq, sent, EventBuf, clock>>

(* AFN 0C.  A unit that fails is skipped: F2 when the clock cannot be      *)
(* read.  After each answered unit the place moves on by all that was      *)
(* answered so far and not by that unit alone.                             *)
RealTime == {2, 10, 50}

Answer_0C(b, u) ==
  LET b2 == Write(b, b.pos, <<Di(u.fn), Data(u.fn)>>) IN
    [b2 EXCEPT !.len = @ + 2, !.pos = @ + b.len + 2]

AFN_0CH(c) ==
  /\ Taking(c, "0C")
  /\ LET u == Unit(c) IN
       \/ /\ u.fn \in RealTime /\ u.pn = 0
          /\ ack' = [ack EXCEPT ![c] = Answer_0C(@, u)]
          /\ UNCHANGED did
       \/ /\ u.fn \notin RealTime \/ u.pn # 0
          /\ UNCHANGED <<ack, did>>
       \/ /\ u.fn = 2 /\ u.pn = 0
          /\ did' = [did EXCEPT ![c].failed = TRUE]
          /\ UNCHANGED ack
  /\ Advance(c)
  /\ UNCHANGED <<req, out, seq, sent, EventBuf, clock>>
--------------------------------------------------------------------------------
(* Sending.  A broadcast is not answered, and a frame that is too long is  *)
(* built and thrown away.                                                  *)
RowSize(e) == e.size
BodySize(b) == FoldLeft(LAMBDA n, e : n + RowSize(e), 1, b)
Frame(kind, s, fir, fin, body) ==
  [kind |-> kind, seq |-> s, fir |-> fir, fin |-> fin, body |-> body]
Size(f) == IF f.kind = "events" THEN BodySize(f.body) ELSE 1

Send(c, f) ==
  IF Broadcast(req[c])
  THEN UNCHANGED <<sent, did>>
  ELSE IF Size(f) > Room
  THEN did' = [did EXCEPT ![c].dropped = TRUE] /\ UNCHANGED sent
  ELSE sent' = [sent EXCEPT ![c] = Append(@, f)] /\ UNCHANGED did

Content(b) ==
  [i \in 1 .. b.len |-> IF i - 1 \in DOMAIN b.cell THEN b.cell[i - 1] ELSE Blank]

(* The answer of AFN 05 repeats the units it took, each with its result.   *)
(* It refuses all only when the first unit failed or there was none; with  *)
(* F1, F2 or F3 among the units it is not sent at all.                     *)
Results(c) ==
  [i \in 1 .. at[c] |-> [unit |-> req[c].units[i], ok |-> ~(bad[c] /\ i = at[c])]]
Muted(c) == \E i \in 1 .. at[c] : req[c].units[i].fn \in {1, 2, 3}

AllFailed_any(n, failed) == failed \/ n = 0
AllFailed(n, failed) == n = 0 \/ (failed /\ n = 1)

AnswerControl(c) ==
  LET type == IF AllFailed(at[c], bad[c]) THEN "all_err" ELSE "part" IN
    IF Muted(c)
    THEN UNCHANGED <<sent, did>>
    ELSE Send(c, Frame(type, seq[c], TRUE, TRUE,
                       IF type = "part" THEN Results(c) ELSE <<>>))

Refused_anyEvents(c) ==
  IF req[c].afn = "0C" THEN ack[c].len = 0 ELSE bad[c] \/ (req[c].afn = "0E" /\ at[c] > 0)
Refused(c) ==
  CASE req[c].afn \in {"09", "0A", "0E"} -> bad[c]
    [] req[c].afn = "0C" -> ack[c].len = 0

AnswerData(c) ==
  IF Refused(c) THEN Send(c, Frame("all_err", seq[c], TRUE, TRUE, <<>>))
  ELSE IF req[c].afn = "0E" THEN UNCHANGED <<sent, did>>
  ELSE Send(c, Frame("data", seq[c], TRUE, TRUE, Content(ack[c])))

Answer(c) ==
  /\ pc[c] = "answer"
  /\ IF req[c].afn = "05" THEN AnswerControl(c) ELSE AnswerData(c)
  /\ pc' = [pc EXCEPT ![c] = "idle"]
  /\ ack' = [ack EXCEPT ![c] = NoAck]
  /\ out' = [out EXCEPT ![c] = NoOut]
  /\ UNCHANGED <<req, at, bad, seq, EventBuf, clock>>
--------------------------------------------------------------------------------
(* The elements of s at the places in I, in their order: of the first n    *)
(* places, and of all.                                                     *)
KeptTo(s, I) ==
  LET kept[n \in 0 .. Len(s)] ==
        IF n = 0 THEN <<>>
        ELSE IF n \in I THEN Append(kept[n - 1], s[n]) ELSE kept[n - 1]
  IN  kept
Kept(s, I) == KeptTo(s, I)[Len(s)]

(* The rows a request for events selects.  F1 and F2 name places Pm to Pn  *)
(* of the table, F3 a kind and the most it wants.                          *)
Upto(n, s) == IF n < Len(s) THEN n ELSE Len(s)
Between(s, pm, pn) ==
  IF pm <= pn
  THEN SubSeq(s, pm + 1, Upto(pn, s))
  ELSE SubSeq(s, 1, Upto(pn, s)) \o SubSeq(s, pm + 1, Len(s))
OfKind(s, erc) == Kept(s, {i \in DOMAIN s : s[i].erc = erc})
Selected(u) ==
  CASE u.fn = 1 -> Between(Rows, u.arg[1], u.arg[2])
    [] u.fn = 2 -> Between(Ordinary, u.arg[1], u.arg[2])
    [] u.fn = 3 -> OfKind(Rows, u.arg[1]) \o OfKind(Ordinary, u.arg[1])

(* How many of them the handler answers: GetordinaryEvent always says 0.   *)
Granted(u) ==
  CASE u.fn = 1 -> Len(Selected(u))
    [] u.fn = 2 -> 0
    [] u.fn = 3 -> Upto(u.arg[2], Selected(u))

(* Overwriting EventBuf spoils the answers that are still being copied.    *)
Copying(d) == pc[d] = "rows" /\ out[d].row < out[d].sum
Tears(c) == [d \in Channel |-> IF d # c /\ Copying(d) THEN [did[d] EXCEPT !.torn = TRUE] ELSE did[d]]

(* AFN 0E F1, F2 and F3 up to the loop over the rows.  The database may    *)
(* not open, which leaves EventBuf alone, or fail after it was cleared;    *)
(* either way the answer has no events.                                    *)
Fetch(c) ==
  /\ Taking(c, "0E")
  /\ LET u == Unit(c) IN
       /\ u.fn \in {1, 2, 3}
       /\ \/ /\ EventBuf' = Selected(u)
             /\ out' = [out EXCEPT ![c] = [NoOut EXCEPT !.sum = Granted(u)]]
             /\ did' = Tears(c)
          \/ /\ out' = [out EXCEPT ![c] = [NoOut EXCEPT !.sum = -1]]
             /\ did' = [did EXCEPT ![c].failed = TRUE]
             /\ UNCHANGED EventBuf
          \/ /\ EventBuf' = <<>>
             /\ out' = [out EXCEPT ![c] = [NoOut EXCEPT !.sum = -1]]
             /\ did' = [Tears(c) EXCEPT ![c].failed = TRUE]
  /\ pc' = [pc EXCEPT ![c] = "rows"]
  /\ UNCHANGED <<req, at, bad, ack, seq, sent, clock>>

AFN_0EH_fails(c) ==
  /\ Taking(c, "0E")
  /\ Unit(c).fn \notin {1, 2, 3}
  /\ Fail(c)
  /\ UNCHANGED <<req, ack, out, seq, sent, EventBuf, clock, did>>

(* The numbering of the frames: the first keeps the number of the request  *)
(* and the buffer of the request carries it on.                            *)
NextSeq_kept(c) == seq[c]
NextSeq(c) == IF out[c].frames = 0 THEN seq[c] ELSE (seq[c] + 1) % SeqNumbers

Emit(c, fin) ==
  /\ Send(c, Frame("events", NextSeq(c), out[c].frames = 0, fin, out[c].body))
  /\ seq' = [seq EXCEPT ![c] = NextSeq(c)]

(* One row: when it does not fit any more, the rows so far are sent first. *)
Restarted_without(e) == <<>>
Restarted(e) == e

NextRow(c) ==
  /\ pc[c] = "rows"
  /\ out[c].row < out[c].sum
  /\ LET o == out[c]
         e == SubSeq(EventBuf, o.row + 1, Upto(o.row + 1, EventBuf)) IN
       IF BodySize(o.body \o e) > Limit
       THEN /\ Emit(c, FALSE)
            /\ out' = [out EXCEPT ![c] = [body |-> Restarted(e), row |-> o.row + 1,
                                          sum |-> o.sum, frames |-> o.frames + 1]]
       ELSE /\ out' = [out EXCEPT ![c] = [o EXCEPT !.body = @ \o e, !.row = @ + 1]]
            /\ UNCHANGED <<sent, did, seq>>
  /\ UNCHANGED <<pc, req, at, bad, ack, EventBuf, clock>>

LastFrame(c) ==
  /\ pc[c] = "rows"
  /\ out[c].row >= out[c].sum
  /\ Emit(c, TRUE)
  /\ at' = [at EXCEPT ![c] = @ + 1]
  /\ pc' = [pc EXCEPT ![c] = "unit"]
  /\ UNCHANGED <<req, bad, ack, out, EventBuf, clock>>

(* send_event on a third connection fetches the one record it reports.     *)
ReportFetch ==
  /\ \E i \in Flagged : EventBuf' = <<Rows[i]>>
  /\ did' = Tears(None)
  /\ UNCHANGED <<pc, locals, clock>>
--------------------------------------------------------------------------------
Handle(c) ==
  \/ AFN_05H(c) \/ AFN_09H(c) \/ AFN_0AH(c) \/ AFN_0CH(c) \/ NoMoreUnits(c)
  \/ Fetch(c) \/ AFN_0EH_fails(c) \/ NextRow(c) \/ LastFrame(c)
  \/ Answer(c)

Next == ReportFetch \/ \E c \in Channel : ParseData(c) \/ Handle(c)

(* A thread goes on with the request it has; nobody need send another.     *)
Spec == Init /\ [][Next]_vars /\ \A c \in Channel : WF_vars(Handle(c))
--------------------------------------------------------------------------------
TypeOK ==
  /\ pc \in [Channel -> {"idle", "unit", "rows", "answer"}]
  /\ \A c \in Channel : req[c] \in Asked[c] \cup {None}
  /\ at \in [Channel -> Nat]
  /\ bad \in [Channel -> BOOLEAN]
  /\ seq \in [Channel -> 0 .. SeqNumbers - 1]
  /\ \A c \in Channel : req[c] = None => pc[c] = "idle"

Finished(c) == pc[c] = "idle" /\ req[c] # None
Addressed(c) == Finished(c) /\ Mine(req[c]) /\ Served(req[c]) /\ ~Broadcast(req[c])
EventFrames(c) == {i \in 1 .. Len(sent[c]) : sent[c][i].kind = "events"}

(* The frames of one answer to AFN 0E count on from the number of the      *)
(* request modulo 16, only the first says it is the first, and the last    *)
(* one, and no other, says it is the last - as long as none was too long.  *)
InOrder(c) ==
  ~did[c].dropped =>
    /\ \A i \in EventFrames(c) :
         /\ sent[c][i].seq = (req[c].seq + i - 1) % SeqNumbers
         /\ sent[c][i].fir = (i = 1)
         /\ sent[c][i].fin => \A j \in EventFrames(c) : j <= i
    /\ Finished(c) /\ EventFrames(c) # {} => \E i \in EventFrames(c) : sent[c][i].fin

FramesInOrder == \A c \in Channel : InOrder(c)

(* The rows a request for events selects arrive once each and in order,    *)
(* whatever frames they are split into, unless another thread fetched into *)
(* EventBuf meanwhile, a frame was too long or the database failed.        *)
Bodies(fs) == [i \in 1 .. Len(fs) |-> fs[i].body]

Whole(c) ==
  /\ Addressed(c) /\ req[c].afn = "0E" /\ req[c].units # <<>>
  /\ ~did[c].torn /\ ~did[c].dropped /\ ~did[c].failed
  => LET u == req[c].units[1] IN
       u.fn \in {1, 3} => FlattenSeq(Bodies(sent[c])) = SubSeq(Selected(u), 1, Granted(u))

EventsWhole == \A c \in Channel : Whole(c)

(* What the answer of AFN 09, 0A and 0C should be: the units that worked,  *)
(* each with its data, one after the other, or a refusal.                  *)
Works(r, u) ==
  CASE r.afn = "09" -> u.fn \in Configuration
    [] r.afn = "0A" -> QueryWorks(u)
    [] r.afn = "0C" -> u.fn \in RealTime /\ u.pn = 0
WorkingAt(r) == {i \in DOMAIN r.units : Works(r, r.units[i])}
Working(r) == Kept(r.units, WorkingAt(r))
Pairs(w) == FlattenSeq([i \in 1 .. Len(w) |-> <<Di(w[i].fn), Data(w[i].fn)>>])
Promised(r) == Pairs(Working(r))
RefusedInFull(r) ==
  IF r.afn = "0C" THEN Working(r) = <<>> ELSE Len(Working(r)) < Len(r.units)

(* The requests for which the code keeps that promise.                     *)
Plain(r) ==
  CASE r.afn = "09" -> Len(r.units) <= 1
    [] r.afn = "0A" -> \A i \in 1 .. Len(r.units) :
                         r.units[i].fn # 89 /\ (r.units[i].fn = 10 => i = Len(r.units))
    [] r.afn = "0C" -> Len(Working(r)) <= 2 /\ r.next = Unreadable

(* A plain request for data is answered with every unit that works and     *)
(* with nothing else, or is refused: no unit's data stands where another's *)
(* belongs.                                                                *)
AnsweredAsPromised(c) ==
  /\ Addressed(c) /\ req[c].afn \in {"09", "0A", "0C"} /\ Plain(req[c]) /\ ~did[c].failed
  => LET r == req[c] IN
       sent[c] = << IF RefusedInFull(r)
                    THEN Frame("all_err", r.seq, TRUE, TRUE, <<>>)
                    ELSE Frame("data", r.seq, TRUE, TRUE, Promised(r)) >>

UnitsAnswered == \A c \in Channel : AnsweredAsPromised(c)

(* Every request for this terminal that is no broadcast gets one final     *)
(* frame, as its last, and nobody else gets any - except the AFN 05 that   *)
(* names F1 to F3, the AFN 0E without units or with more than one, and     *)
(* answers that grew too long.                                             *)
AnsweredOnce(c) ==
  /\ /\ Addressed(c) /\ ~did[c].dropped
     /\ req[c].afn = "05" => ~Muted(c)
     /\ req[c].afn = "0E" => Len(req[c].units) = 1
     => /\ sent[c] # <<>>
        /\ {i \in 1 .. Len(sent[c]) : sent[c][i].fin} = {Len(sent[c])}
  /\ Finished(c) /\ ~Addressed(c) => sent[c] = <<>>

OneAnswer == \A c \in Channel : AnsweredOnce(c)

(* What an answer to AFN 05 says of the clock is true: a full refusal      *)
(* means that it was not touched, and an F31 is reported as done exactly   *)
(* when this request set it, as long as the clock itself works.            *)
ToldTruly(c) ==
  Addressed(c) /\ req[c].afn = "05" /\ sent[c] # <<>> /\ ~did[c].failed =>
    LET f == sent[c][1] IN
      did[c].clock = \E i \in 1 .. Len(f.body) : f.body[i].ok /\ f.body[i].unit.fn = 31

ControlIsTold == \A c \in Channel : ToldTruly(c)
================================================================================
