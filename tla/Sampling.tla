--------------------------------- MODULE Sampling ---------------------------------
(***************************************************************************)
(* The AC readings (AcSample.c): every serrver_worker, every 5 s, asks the *)
(* sampling program on port 8100 for the present voltages and currents and *)
(* keeps them in ACdate.  The connection is one global variable, and no    *)
(* lock is around it: a thread may find the descriptor closed, or opened   *)
(* anew, or given to somebody else, between any two of its calls.          *)
(*                                                                         *)
(* An answer is waited for 100 ms; one that comes later stays in the       *)
(* connection, which only a success closes.  Nothing tells an old answer   *)
(* from a new one.                                                         *)
(***************************************************************************)
EXTENDS Integers, FiniteSets, Sequences

CONSTANTS
  Thread,    \* the serrver_worker threads
  MaxFd,     \* descriptors are numbered 1..MaxFd
  MaxCalls,  \* bound: calls of SaveACdatecurrent
  MaxFaults  \* bound: answers lost, connections closed by the program

Fds == 1..MaxFd
Closed == 0  \* TERM->FD is -1

VARIABLES
  FD, CONNECT_FLAG,  \* com_645_2007_HOST
  desc,      \* the descriptor table: what each descriptor is open for
  at,        \* where each thread is,
  why,       \* and why it closes the connection
  reconnected, recv_645_buf,  \* their local variables
  began,     \* how many calls had succeeded when the thread's call began,
  done,      \* and how many have by now
  ACdate,    \* the call whose request the values answer, and the value of
             \* "began" of the call that stored them
  alive,     \* the process runs
  calls, faults,
  overlapped,\* history: two threads were in a call at the same time
  strayed    \* history: a descriptor that was not its own was used or closed

vars == <<FD, CONNECT_FLAG, desc, at, why, reconnected, recv_645_buf, began, done,
          ACdate, alive, calls, faults, overlapped, strayed>>
host == <<FD, CONNECT_FLAG>>
bounds == <<calls, faults>>

Entry(use) == [use |-> use, state |-> "down", pending |-> <<>>, arrived |-> <<>>]

Init ==
  /\ FD = Closed /\ CONNECT_FLAG = 0
  /\ desc = [f \in Fds |-> Entry("free")]
  /\ at = [t \in Thread |-> "idle"] /\ why = [t \in Thread |-> "success"]
  /\ reconnected = [t \in Thread |-> FALSE]
  /\ recv_645_buf = [t \in Thread |-> <<>>]
  /\ began = [t \in Thread |-> 0] /\ done = 0
  /\ ACdate = [sent |-> 0, began |-> 0]
  /\ alive = TRUE
  /\ calls = 0 /\ faults = 0
  /\ overlapped = FALSE /\ strayed = FALSE

FreeFds == {f \in Fds : desc[f].use = "free"}
IsLowest(f) == \A g \in FreeFds : f <= g
Own == FD # Closed /\ desc[FD].use = "server"
Foreign == FD # Closed /\ desc[FD].use = "other"
Goto(t, place) == at' = [at EXCEPT ![t] = place] /\ UNCHANGED why
GoClose(t, reason) == at' = [at EXCEPT ![t] = "close"] /\ why' = [why EXCEPT ![t] = reason]
-----------------------------------------------------------------------------
(* CLOSE_645_2007_TERM in two steps: close, and then the two variables.  A *)
(* call ends here after a success, a connection that could not be made or  *)
(* a second send that has failed; after the first it connects anew.        *)
Close(t) ==
  /\ at[t] = "close"
  /\ desc' = IF FD = Closed THEN desc ELSE [desc EXCEPT ![FD] = Entry("free")]
  /\ strayed' = (strayed \/ Foreign)
  /\ Goto(t, "forget")
  /\ UNCHANGED <<host, reconnected, recv_645_buf, began, done, ACdate, alive, bounds, overlapped>>

Forget(t) ==
  /\ at[t] = "forget"
  /\ FD' = Closed /\ CONNECT_FLAG' = 0
  /\ done' = IF why[t] = "success" THEN done + 1 ELSE done
  /\ Goto(t, CASE why[t] = "broken" -> "connect"
               [] why[t] = "refused" /\ reconnected[t] -> "send"
               [] OTHER -> "idle")
  /\ UNCHANGED <<desc, reconnected, recv_645_buf, began, ACdate, alive, bounds, overlapped, strayed>>
-----------------------------------------------------------------------------
(* com_645_2007_SendFrame, called by SaveACdatecurrent through GetACdate.  *)
Begin(t) ==
  /\ at[t] = "idle" /\ calls < MaxCalls
  /\ calls' = calls + 1
  /\ overlapped' = (overlapped \/ \E u \in Thread : at[u] # "idle")
  /\ began' = [began EXCEPT ![t] = done]
  /\ reconnected' = [reconnected EXCEPT ![t] = FALSE]
  /\ recv_645_buf' = [recv_645_buf EXCEPT ![t] = <<>>]
  /\ Goto(t, IF CONNECT_FLAG = 0 THEN "connect" ELSE "send")
  /\ UNCHANGED <<host, desc, done, ACdate, alive, faults, strayed>>

(* com_645_2007_CONNECT: with a descriptor it returns 0, connected or not; *)
(* after a reconnection its result is not looked at.                       *)
Socket(t) ==
  /\ at[t] = "connect"
  /\ \/ FD # Closed /\ Goto(t, "send") /\ UNCHANGED <<FD, desc>>
     \/ /\ FD = Closed
        /\ \E f \in FreeFds :
             /\ IsLowest(f)
             /\ FD' = f /\ desc' = [desc EXCEPT ![f] = Entry("server")]
        /\ Goto(t, "connecting")
     \/ /\ FD = Closed /\ FreeFds = {}
        /\ Goto(t, IF reconnected[t] THEN "send" ELSE "idle")
        /\ UNCHANGED <<FD, desc>>
  /\ UNCHANGED <<CONNECT_FLAG, reconnected, recv_645_buf, began, done, ACdate, alive, bounds, overlapped, strayed>>

Connect(t) ==
  /\ at[t] = "connecting"
  /\ \/ /\ Own /\ desc[FD].state = "down"
        /\ desc' = [desc EXCEPT ![FD].state = "up"]
        /\ CONNECT_FLAG' = 1
        /\ Goto(t, "send")
     \/ /\ GoClose(t, "refused")
        /\ UNCHANGED <<desc, CONNECT_FLAG>>
  /\ UNCHANGED <<FD, reconnected, recv_645_buf, began, done, ACdate, alive, bounds, overlapped, strayed>>

(* com_645_2007_SendData: one reconnection after a failed write.  The      *)
(* first write to a connection the program has closed succeeds or fails,   *)
(* another one raises SIGPIPE, which nobody handles.                       *)
SendData(t) ==
  /\ at[t] = "send"
  /\ strayed' = (strayed \/ Foreign)
  /\ \/ /\ Own /\ desc[FD].state \in {"up", "closed"}
        /\ desc' = [desc EXCEPT ![FD].pending =
                      IF desc[FD].state = "up" THEN Append(@, done) ELSE @]
        /\ Goto(t, "recv")
        /\ UNCHANGED <<reconnected, alive>>
     \/ /\ Foreign /\ Goto(t, "recv")
        /\ UNCHANGED <<desc, reconnected, alive>>
     \/ /\ FD # Closed
        /\ GoClose(t, IF reconnected[t] THEN "broken again" ELSE "broken")
        /\ reconnected' = [reconnected EXCEPT ![t] = TRUE]
        /\ UNCHANGED <<desc, alive>>
     \/ /\ Own /\ desc[FD].state = "closed"
        /\ alive' = FALSE
        /\ UNCHANGED <<desc, at, why, reconnected>>
     \/ /\ FD = Closed
        /\ GoClose(t, "broken again")
        /\ UNCHANGED <<desc, reconnected, alive>>
  /\ UNCHANGED <<host, recv_645_buf, began, done, ACdate, bounds, overlapped>>

(* com_645_2007_recv, until nothing has come for 100 ms: every piece is    *)
(* read to the head of the buffer, and only the length adds up.            *)
Overlay(piece, old) == piece \o SubSeq(old, Len(piece) + 1, Len(old))

Recv(t) ==
  /\ at[t] = "recv" /\ Own /\ desc[FD].arrived # <<>>
  /\ recv_645_buf' = [recv_645_buf EXCEPT ![t] = Overlay(desc[FD].arrived, @)]
  /\ desc' = [desc EXCEPT ![FD].arrived = <<>>]
  /\ UNCHANGED <<host, at, why, reconnected, began, done, ACdate, alive, bounds, overlapped, strayed>>

(* Analyze_protocol_645_2007 takes the first frame; without one the call   *)
(* fails and leaves the connection as it is.                               *)
Analyze(t) ==
  /\ at[t] = "recv" /\ recv_645_buf[t] = <<>>
  /\ Goto(t, "idle")
  /\ UNCHANGED <<host, desc, reconnected, recv_645_buf, began, done, ACdate, alive, bounds, overlapped, strayed>>

(* BackStage_645_2007 stores nothing from a frame of another length than   *)
(* 66, but the call is a success.                                          *)
EndOfCall_kept(t) == Goto(t, "idle") /\ done' = done + 1
EndOfCall(t) == GoClose(t, "success") /\ UNCHANGED done

BackStage_645_2007(t) ==
  /\ at[t] = "recv" /\ recv_645_buf[t] # <<>>
  /\ LET answer == Head(recv_645_buf[t]) IN
       ACdate' = IF answer.datalen = 66 THEN [sent |-> answer.sent, began |-> began[t]]
                 ELSE ACdate
  /\ EndOfCall(t)
  /\ UNCHANGED <<host, desc, reconnected, recv_645_buf, began, alive, bounds, overlapped, strayed>>
-----------------------------------------------------------------------------
(* The sampling program, and the other connections of the process.         *)
Answer(f) ==
  /\ desc[f].pending # <<>>
  /\ \E datalen \in {66, 1} :
       desc' = [desc EXCEPT ![f].pending = Tail(@),
                            ![f].arrived = Append(@, [sent |-> Head(desc[f].pending),
                                                      datalen |-> datalen])]
  /\ UNCHANGED faults

LoseAnswer(f) ==
  /\ desc[f].pending # <<>> /\ faults < MaxFaults
  /\ desc' = [desc EXCEPT ![f].pending = Tail(@)]
  /\ faults' = faults + 1

ServerCloses(f) ==
  /\ desc[f].state = "up" /\ faults < MaxFaults
  /\ desc' = [desc EXCEPT ![f].state = "closed", ![f].pending = <<>>]
  /\ faults' = faults + 1

OtherOpens ==
  /\ \A f \in Fds : desc[f].use # "other"
  /\ \E f \in FreeFds : IsLowest(f) /\ desc' = [desc EXCEPT ![f] = Entry("other")]
  /\ UNCHANGED faults

OtherCloses(f) ==
  /\ desc[f].use = "other"
  /\ desc' = [desc EXCEPT ![f] = Entry("free")]
  /\ UNCHANGED faults

Outside ==
  /\ \/ OtherOpens
     \/ \E f \in Fds : Answer(f) \/ LoseAnswer(f) \/ ServerCloses(f) \/ OtherCloses(f)
  /\ UNCHANGED <<host, at, why, reconnected, recv_645_buf, began, done, ACdate, alive, calls, overlapped, strayed>>

Step(t) ==
  \/ Begin(t) \/ Socket(t) \/ Connect(t) \/ SendData(t) \/ Recv(t) \/ Analyze(t)
  \/ BackStage_645_2007(t) \/ Close(t) \/ Forget(t)

Next == alive /\ (Outside \/ \E t \in Thread : Step(t))

Spec == Init /\ [][Next]_vars
-----------------------------------------------------------------------------
(* The values a call has stored answer a request that was sent after the   *)
(* last success before this call: late answers and calls that overlap make *)
(* a reading no older than that (AcSample.c:291-308).  And as long as no   *)
(* two calls overlap, only the sampling's own descriptor is written to or  *)
(* closed (AcSample.c:33-36).                                              *)
SamplesAreRecent ==
  /\ ACdate.sent >= ACdate.began
  /\ strayed => overlapped
=============================================================================
