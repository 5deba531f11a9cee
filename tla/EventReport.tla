------------------------------- MODULE EventReport -------------------------------
(***************************************************************************)
(* Reporting important events to the main station (EventRecord.c:          *)
(* send_event; SQLite.c: GetEventRow, GetImportanceEvent, UpdateEventRow;  *)
(* Mrs_fw_proto376_1.c: AFN_00H), on top of the event store that other     *)
(* threads write.  A channel is a thread that serves one connection, a     *)
(* serrver_worker or the client_worker.  In its loop it calls send_event,  *)
(* which moves flagged records to the queue and sends what is queued, and  *)
(* it handles the confirmations that arrive, which take events out of the  *)
(* queue.  m_ErcReport, EventBuf, Seq and the queue are globals that the   *)
(* channels and savers share.                                              *)
(*                                                                         *)
(* The queue is the sequence of its events: EventQueue shows that the ring *)
(* is a FIFO of QUEUEMAXSIZE - 1 events with an exact counter, as long as  *)
(* the calls themselves do not overlap; QueueThreads is about those that   *)
(* do.  report_sucesss_flag is left out: it is only ever set on a copy     *)
(* that is not queued again.                                               *)
(***************************************************************************)
EXTENDS EventStore, Sequences

CONSTANTS
  Channel,     \* the threads that serve a connection
  Capacity,    \* events that fit in the queue, QUEUEMAXSIZE - 1
  SeqRange,    \* values of Seq, a u8
  WireRange    \* values of the sequence number in a frame, four bits

(* m_ErcReport has a place for every record: GetEventRow writes past it    *)
(* when the table has more, which the model does not follow.               *)
ASSUME ReportAssumption ==
  /\ IsFiniteSet(Channel)
  /\ Bound["saves"] <= EveMax
  /\ Capacity \in Nat \ {0}
  /\ SeqRange \in Nat \ {0}
  /\ WireRange \in Nat \ {0}

VARIABLES
  ercReport,   \* m_ErcReport: the flags as GetEventRow saw them
  eventBuf,    \* EventBuf[0]: rowid of the record in it, 0 when it is empty
  queue,       \* the event queue, oldest first
  nextSeq,     \* Seq: the sequence number of the next event
  chan,        \* the locals of each channel's send_event or AFN_00H
  answerable,  \* frames the station has received and may still confirm
  confirmed,   \* history: records whose confirmation has arrived
  queued,      \* history: how often each record was queued
  sent         \* history: how often a frame with each record was sent

memory     == <<ercReport, eventBuf, queue, nextSeq>>
history    == <<answerable, confirmed, queued, sent>>
reportVars == <<memory, chan, history>>
allVars    == <<vars, reportVars>>

Important == 1
NoRecord  == 0
RowId     == 1 .. Bound["saves"]
Flag      == 0 .. EveMax - 1

NoFlags == [i \in Flag |-> 0]

(* A queued event.  "full" is FALSE for the zeroed event that a caller of  *)
(* sequeue_output holds when the queue was empty: its datalen is 0.        *)
Event(r, q, n, full) == [row |-> r, seq |-> q, report_count |-> n, full |-> full]

Zeroed == Event(NoRecord, 0, 0, FALSE)

Local(l, n, e, q) == [pc |-> l, i |-> n, event |-> e, seq |-> q]

AtRest == Local("idle", 0, Zeroed, 0)

Wire(q) == q % WireRange

ReportInit ==
  /\ Init
  /\ ercReport = NoFlags
  /\ eventBuf = NoRecord
  /\ queue = <<>>
  /\ nextSeq = 0
  /\ chan = [c \in Channel |-> AtRest]
  /\ answerable = {}
  /\ confirmed = {}
  /\ queued = [r \in RowId |-> 0]
  /\ sent = [r \in RowId |-> 0]
--------------------------------------------------------------------------------
At(c, l) == chan[c].pc = l

Move(c, l, n) == chan' = [chan EXCEPT ![c].pc = l, ![c].i = n]

Unlocked == sqlite_lock = NoSaver

(* send_event begins with GetEventRow.                                     *)
GetEventRow(c) ==
  /\ At(c, "idle")
  /\ Unlocked
  /\ ercReport' = ReportFlags(tab[Important], EveMax)
  /\ Move(c, "scan", 0)
  /\ UNCHANGED <<vars, eventBuf, queue, nextSeq, history>>

(* On to the next flag that is set, as m_ErcReport is now; after the last  *)
(* one to the loop that sends.                                             *)
Scan_from_second(c) ==
  LET flagged == {i \in Flag : i > chan[c].i /\ ercReport[i] = 1}
  IN  /\ At(c, "scan")
      /\ IF flagged = {} THEN Move(c, "drain", 0) ELSE Move(c, "fetch", Min(flagged))
      /\ UNCHANGED <<vars, memory, history>>

Scan(c) ==
  LET flagged == {i \in Flag : i >= chan[c].i /\ ercReport[i] = 1}
  IN  /\ At(c, "scan")
      /\ IF flagged = {} THEN Move(c, "drain", 0) ELSE Move(c, "fetch", Min(flagged))
      /\ UNCHANGED <<vars, memory, history>>

(* GetImportanceEvent(i, i+1): EventBuf is cleared, then filled with the   *)
(* i-th record if there is one.                                            *)
GetImportanceEvent(c) ==
  LET T == tab[Important]
  IN  /\ At(c, "fetch")
      /\ Unlocked
      /\ eventBuf' = IF chan[c].i < Cardinality(T) THEN RowAt(T, chan[c].i).rowid
                                                  ELSE NoRecord
      /\ Move(c, "enqueue", chan[c].i)
      /\ UNCHANGED <<vars, ercReport, queue, nextSeq, history>>

(* The event takes a sequence number even when the queue is full.          *)
Enqueue(c) ==
  /\ At(c, "enqueue")
  /\ nextSeq' = (nextSeq + 1) % SeqRange
  /\ \/ /\ Len(queue) < Capacity
        /\ queue' = Append(queue, Event(eventBuf, nextSeq, 0, TRUE))
        /\ queued' = [r \in RowId |-> IF r = eventBuf THEN queued[r] + 1 ELSE queued[r]]
        /\ Move(c, "clear", chan[c].i)
     \/ /\ Len(queue) = Capacity
        /\ Move(c, "scan", chan[c].i + 1)
        /\ UNCHANGED <<queue, queued>>
  /\ UNCHANGED <<vars, ercReport, eventBuf, answerable, confirmed, sent>>

(* UpdateEventRow(i) counts the rows again.                                *)
UpdateEventRow(c) ==
  /\ At(c, "clear")
  /\ Unlocked
  /\ tab' = [tab EXCEPT ![Important] = Unflagged(@, chan[c].i)]
  /\ Move(c, "scan", chan[c].i + 1)
  /\ UNCHANGED <<dbEC, tables, sqlite_lock, globals, config, clock, saving, used,
                 memory, history>>

(* Bound: the history of the frames of a record stops above the three that *)
(* each channel could be entitled to.                                      *)
MaxSent == 3 * Cardinality(Channel) + 1
CountFrame(n) == IF n < MaxSent THEN n + 1 ELSE n

(* One turn of "for(i=0; i<queue->count; i++)": sequeue_output, which      *)
(* leaves the zeroed event alone when the queue is empty, and the frame.   *)
(* An event that was sent three times is dropped.  The zeroed event is     *)
(* "sent" without a frame and queued.                                      *)
Taken == IF queue = <<>> THEN Zeroed ELSE Head(queue)
Rest  == IF queue = <<>> THEN queue ELSE Tail(queue)

MaySend(e) == e.report_count < 3

Leave(c) ==
  /\ chan[c].pc \in {"drain", "match"}
  /\ chan[c].i >= Len(queue)
  /\ chan' = [chan EXCEPT ![c] = AtRest]
  /\ UNCHANGED <<vars, memory, history>>

(* The test and the call of sequeue_output are two steps: the queue may    *)
(* change between them.                                                    *)
Turn(c) ==
  /\ chan[c].pc \in {"drain", "match"}
  /\ chan[c].i < Len(queue)
  /\ Move(c, IF At(c, "drain") THEN "pop" ELSE "pop_match", chan[c].i)
  /\ UNCHANGED <<vars, memory, history>>

SendEvent(c) ==
  LET e == Taken
  IN  /\ At(c, "pop")
      /\ queue' = Rest
      /\ \/ /\ MaySend(e)
            /\ sent' = [r \in RowId |-> IF r = e.row THEN CountFrame(sent[r]) ELSE sent[r]]
            /\ answerable' = IF e.full
                 THEN answerable \cup {[row |-> e.row, seq |-> Wire(e.seq)]}
                 ELSE answerable
            /\ chan' = [chan EXCEPT ![c].pc = "requeue", ![c].event = e]
         \/ /\ ~MaySend(e)
            /\ Move(c, "drain", chan[c].i + 1)
            /\ UNCHANGED <<sent, answerable>>
      /\ UNCHANGED <<vars, ercReport, eventBuf, nextSeq, confirmed, queued>>

(* "popdata.report_count++; sequeue_input(queue, popdata);"                *)
CountSend_forgotten(e) == e
CountSend(e) == [e EXCEPT !.report_count = @ + 1]

PutBack(e) == queue' = IF Len(queue) < Capacity THEN Append(queue, e) ELSE queue

Requeue(c) ==
  /\ At(c, "requeue")
  /\ PutBack(CountSend(chan[c].event))
  /\ chan' = [chan EXCEPT ![c] = Local("drain", @.i + 1, Zeroed, 0)]
  /\ UNCHANGED <<vars, ercReport, eventBuf, nextSeq, history>>
--------------------------------------------------------------------------------
(* AFN_00H F3 for AFN 0E: a confirmation of a frame the station has got,   *)
(* late or repeated as it may be.                                          *)
Confirmation(c, f) ==
  /\ At(c, "idle")
  /\ chan' = [chan EXCEPT ![c] = Local("match", 0, Zeroed, f.seq)]
  /\ confirmed' = confirmed \cup {f.row}
  /\ UNCHANGED <<vars, memory, answerable, queued, sent>>

(* "pFrame->userdata.appseq.seq == Event.seq": four bits against eight.    *)
Matches_other(q, e) == q # e.seq
Matches(q, e) == q = e.seq

TakeForMatch(c) ==
  LET e == Taken
  IN  /\ At(c, "pop_match")
      /\ queue' = Rest
      /\ \/ /\ Matches(chan[c].seq, e)
            /\ Move(c, "match", chan[c].i + 1)
         \/ /\ ~Matches(chan[c].seq, e)
            /\ chan' = [chan EXCEPT ![c].pc = "putback", ![c].event = e]
      /\ UNCHANGED <<vars, ercReport, eventBuf, nextSeq, history>>

PutUnmatched(c) ==
  /\ At(c, "putback")
  /\ PutBack(chan[c].event)
  /\ chan' = [chan EXCEPT ![c] = Local("match", @.i + 1, Zeroed, @.seq)]
  /\ UNCHANGED <<vars, ercReport, eventBuf, nextSeq, history>>

ChannelStep(c) ==
  \/ GetEventRow(c) \/ Scan(c) \/ GetImportanceEvent(c) \/ Enqueue(c)
  \/ UpdateEventRow(c) \/ Turn(c) \/ Leave(c) \/ SendEvent(c) \/ Requeue(c)
  \/ TakeForMatch(c) \/ PutUnmatched(c)
--------------------------------------------------------------------------------
(* The store's own steps.  UpdateEC1 and UpdateEC2 clear m_ErcReport.      *)
StoreStep(s) ==
  /\ SaverStep(s)
  /\ ercReport' = IF sqlite_lock' = s /\ sqlite_lock # s THEN NoFlags ELSE ercReport
  /\ UNCHANGED <<eventBuf, queue, nextSeq, chan, history>>

StoreEnvironment ==
  /\ Environment
  /\ ~Restart
  /\ UNCHANGED reportVars

(* Power failure: what is queued is lost, and no connection survives.      *)
PowerFailure ==
  /\ Restart
  /\ ercReport' = NoFlags
  /\ eventBuf' = NoRecord
  /\ queue' = <<>>
  /\ nextSeq' = 0
  /\ chan' = [c \in Channel |-> AtRest]
  /\ answerable' = {}
  /\ UNCHANGED <<confirmed, queued, sent>>

ReportNext ==
  \/ \E c \in Channel : ChannelStep(c) \/ \E f \in answerable : Confirmation(c, f)
  \/ \E s \in Saver : StoreStep(s)
  \/ StoreEnvironment
  \/ PowerFailure

ReportSpec == ReportInit /\ [][ReportNext]_allVars

(* A connected channel keeps running its loop, and a save goes on to its   *)
(* end.  The loop tests the time since the last send_event in every turn,  *)
(* so frames that keep coming in delay it but cannot starve it: strong     *)
(* fairness for the call.  Nothing is promised about the station, the      *)
(* clock or new events.                                                    *)
FairReportSpec ==
  /\ ReportSpec
  /\ \A c \in Channel : WF_allVars(ChannelStep(c)) /\ SF_allVars(GetEventRow(c))
  /\ \A s \in Saver : WF_allVars(StoreStep(s) /\ saving[s].pc # "idle")
--------------------------------------------------------------------------------
ChannelLabel == {"idle", "scan", "fetch", "enqueue", "clear", "drain", "pop",
                 "requeue", "match", "pop_match", "putback"}

QueuedEvent == [row : RowId \cup {NoRecord}, seq : 0 .. SeqRange - 1,
                report_count : 0 .. 3, full : BOOLEAN]

ReportTypeOK ==
  /\ ercReport \in [Flag -> {0, 1}]
  /\ eventBuf \in RowId \cup {NoRecord}
  /\ \A n \in DOMAIN queue : queue[n] \in QueuedEvent
  /\ Len(queue) <= Capacity
  /\ nextSeq \in 0 .. SeqRange - 1
  /\ \A c \in Channel : /\ chan[c].pc \in ChannelLabel
                        /\ chan[c].event \in QueuedEvent
  /\ confirmed \subseteq RowId \cup {NoRecord}

(* Where a record is on its way to the station: in the queue or in the     *)
(* hands of a channel.                                                     *)
Held(r) ==
  \/ \E n \in 1 .. Len(queue) : queue[n].row = r
  \/ \E c \in Channel : /\ chan[c].pc \in {"requeue", "putback"}
                        /\ chan[c].event.row = r

(* "Important events have to be reported" (EventRecord.c:184): a record    *)
(* whose flag is cleared was sent, or is still on its way.                 *)
ReportKept ==
  \A r \in tab[Important] : r.report = 0 => sent[r.rowid] > 0 \/ Held(r.rowid)

(* The same, as long as the power does not fail: the queue is in memory.   *)
(* With two channels, or when a save evicts between the fetch and the      *)
(* clearing of a flag, reports are lost even then: send_event finds the    *)
(* record by its position, and in a buffer that all channels share.        *)
NotLost == Without({"restarts"}) => ReportKept

(* A record is put into the queue once, so the station gets it under one   *)
(* sequence number; once more when the power fails before its flag is      *)
(* cleared.                                                                *)
QueuedOnce == \A r \in RowId : queued[r] <= 1 + used["restarts"]

(* Clearing the flag and queueing the event go together: neither without   *)
(* the other loses a report, nor the other without it doubles one.         *)
ReportedOnce == NotLost /\ QueuedOnce

(* However the channels interleave, a queued event costs three frames at   *)
(* most.                                                                   *)
SendsBounded == \A r \in RowId : sent[r] <= 3 * queued[r]

(* After a confirmation was handled, its event is not in the queue.        *)
(* Mrs_fw_proto376_1.c:606 finds it by "the received frame's number equals *)
(* the sent frame's number".  After a power failure the numbers begin      *)
(* anew, and a late confirmation may be taken for another event's.         *)
ConfirmedNotQueued ==
  Without({"restarts"}) /\ (\A c \in Channel : At(c, "idle")) =>
    \A n \in 1 .. Len(queue) : queue[n].row \notin confirmed

(* A flagged record gets into the queue, even when the station never       *)
(* confirms anything and the queue is full: what is queued is dropped      *)
(* after three frames.                                                     *)
Flagged(r) == \E x \in tab[Important] : x.rowid = r /\ x.report = 1

FlaggedIsQueued == \A r \in RowId : Flagged(r) ~> ~Flagged(r)

(* A queued record leaves the queue for good, confirmed or not.            *)
HeldIsReleased == \A r \in RowId : Held(r) ~> [](~Held(r))
================================================================================
