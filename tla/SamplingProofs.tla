----------------------------- MODULE SamplingProofs -----------------------------
(***************************************************************************)
(* What holds of the AC readings for every number of threads, calls,       *)
(* faults and descriptors: a stored reading answers a request that was     *)
(* sent after the last success before its call, and descriptors of others  *)
(* are touched only after two calls have overlapped.                       *)
(***************************************************************************)
EXTENDS ConnectionWork, TLAPS

Piece == [sent : Nat, datalen : {66, 1}]
Entries == [use : {"free", "server", "other"}, state : {"down", "up", "closed"},
            pending : Seq(Nat), arrived : Seq(Piece)]

(* Every value in a connection answers a request sent after n successes.   *)
Since(e, n) ==
  /\ \A i \in 1..Len(e.pending) : e.pending[i] = n
  /\ \A i \in 1..Len(e.arrived) : e.arrived[i].sent = n

NoOlder(b, n) == \A i \in 1..Len(b) : b[i].sent >= n

TypeInv ==
  /\ FD \in S!Fds \union {S!Closed}
  /\ desc \in [S!Fds -> Entries]
  /\ recv_645_buf \in [Thread -> Seq(Piece)]
  /\ began \in [Thread -> Nat] /\ done \in Nat

(* A success closes the connection before it is counted: what the present  *)
(* connection holds was asked for after the last success.                  *)
RecentInv ==
  /\ TypeInv
  /\ FD # S!Closed => Since(desc[FD], done)
  /\ \A t \in Thread : began[t] <= done /\ NoOlder(recv_645_buf[t], began[t])
  /\ ACdate.sent >= ACdate.began

LEMMA EntryIsEmpty ==
  ASSUME NEW use \in {"free", "server", "other"}
  PROVE  S!Entry(use) \in Entries /\ \A n : Since(S!Entry(use), n)
<1>1. <<>> \in Seq(Nat) /\ <<>> \in Seq(Piece)
  OBVIOUS
<1>2. S!Entry(use) \in Entries
  BY <1>1 DEF S!Entry, Entries
<1>3. S!Entry(use).pending = <<>> /\ S!Entry(use).arrived = <<>>
  BY DEF S!Entry
<1>4. QED
  BY <1>2, <1>3 DEF Since

LEMMA InitRecent == S!Init => RecentInv
<1> SUFFICES ASSUME S!Init PROVE RecentInv
  OBVIOUS
<1>1. <<>> \in Seq(Piece)
  OBVIOUS
<1>2. \A t \in Thread : NoOlder(<<>>, 0)
  BY DEF NoOlder
<1>3. QED
  BY <1>1, <1>2, EntryIsEmpty DEF S!Init, RecentInv, TypeInv, S!Closed

(* A step that changes one entry at most, and neither FD nor what the      *)
(* calls hold.                                                             *)
LEMMA EntryChanges ==
  ASSUME RecentInv, NEW f \in S!Fds, NEW e \in Entries,
         \A n : Since(desc[f], n) => Since(e, n),
         desc' = desc \/ desc' = [desc EXCEPT ![f] = e],
         UNCHANGED <<FD, recv_645_buf, began, done, ACdate>>
  PROVE  RecentInv'
BY DEF RecentInv, TypeInv

LEMMA NothingOfItChanges ==
  ASSUME RecentInv, UNCHANGED <<FD, desc, recv_645_buf, began, done, ACdate>>
  PROVE  RecentInv'
BY DEF RecentInv, TypeInv

LEMMA NextRecent == RecentInv /\ [S!Next]_(S!vars) => RecentInv'
<1> SUFFICES ASSUME RecentInv, [S!Next]_(S!vars) PROVE RecentInv'
  OBVIOUS
<1>a. /\ FD \in S!Fds \union {S!Closed} /\ desc \in [S!Fds -> Entries]
      /\ recv_645_buf \in [Thread -> Seq(Piece)]
      /\ began \in [Thread -> Nat] /\ done \in Nat
  BY DEF RecentInv, TypeInv
<1>b. \A f \in S!Fds : desc[f].pending \in Seq(Nat) /\ desc[f].arrived \in Seq(Piece)
  BY <1>a DEF Entries
<1>1. ASSUME NEW t \in Thread, S!Begin(t) PROVE RecentInv'
  <2>1. UNCHANGED <<FD, desc, done, ACdate>> /\ began' = [began EXCEPT ![t] = done]
        /\ recv_645_buf' = [recv_645_buf EXCEPT ![t] = <<>>]
    BY <1>1 DEF S!Begin, S!host
  <2>2. <<>> \in Seq(Piece) /\ \A n : NoOlder(<<>>, n)
    BY DEF NoOlder
  <2>3. QED
    BY <1>a, <2>1, <2>2 DEF RecentInv, TypeInv
<1>2. ASSUME NEW t \in Thread, S!Socket(t) PROVE RecentInv'
  <2>1. UNCHANGED <<recv_645_buf, began, done, ACdate>>
    BY <1>2 DEF S!Socket
  <2>2. CASE UNCHANGED <<FD, desc>>
    BY <2>1, <2>2, NothingOfItChanges
  <2>3. CASE \E f \in S!FreeFds : FD' = f /\ desc' = [desc EXCEPT ![f] = S!Entry("server")]
    <3>1. PICK f \in S!Fds : FD' = f /\ desc' = [desc EXCEPT ![f] = S!Entry("server")]
      BY <2>3 DEF S!FreeFds
    <3>2. S!Entry("server") \in Entries /\ Since(S!Entry("server"), done)
      BY EntryIsEmpty
    <3>3. desc' \in [S!Fds -> Entries] /\ desc'[FD'] = S!Entry("server")
      BY <1>a, <3>1, <3>2
    <3>4. QED
      BY <1>a, <2>1, <3>1, <3>2, <3>3 DEF RecentInv, TypeInv
  <2>4. QED
    BY <1>2, <2>2, <2>3 DEF S!Socket
<1>3. ASSUME NEW t \in Thread, S!Connect(t) PROVE RecentInv'
  <2>1. UNCHANGED <<FD, recv_645_buf, began, done, ACdate>>
    BY <1>3 DEF S!Connect
  <2>2. CASE UNCHANGED desc
    BY <2>1, <2>2, NothingOfItChanges
  <2>3. CASE S!Own /\ desc' = [desc EXCEPT ![FD].state = "up"]
    <3>1. FD \in S!Fds
      BY <1>a, <2>3 DEF S!Own
    <3>2. PICK e \in Entries : e = [desc[FD] EXCEPT !.state = "up"]
      BY <1>a, <3>1 DEF Entries
    <3>3. \A n : Since(desc[FD], n) => Since(e, n)
      BY <1>a, <3>1, <3>2 DEF Since, Entries
    <3>4. QED
      BY <2>1, <2>3, <3>1, <3>2, <3>3, EntryChanges
  <2>4. QED
    BY <1>3, <2>2, <2>3 DEF S!Connect
<1>4. ASSUME NEW t \in Thread, S!SendData(t) PROVE RecentInv'
  <2>1. UNCHANGED <<FD, recv_645_buf, began, done, ACdate>>
    BY <1>4 DEF S!SendData, S!host
  <2>2. CASE UNCHANGED desc
    BY <2>1, <2>2, NothingOfItChanges
  <2>3. CASE S!Own /\ desc' = [desc EXCEPT ![FD].pending =
                               IF desc[FD].state = "up" THEN Append(@, done) ELSE @]
    <3>1. FD \in S!Fds /\ FD # S!Closed
      BY <1>a, <2>3 DEF S!Own
    <3>2. DEFINE p == IF desc[FD].state = "up" THEN Append(desc[FD].pending, done)
                      ELSE desc[FD].pending
                 e == [desc[FD] EXCEPT !.pending = p]
    <3>3. desc' = [desc EXCEPT ![FD] = e]
      BY <1>a, <2>3, <3>1
    <3>4. p \in Seq(Nat) /\ \A i \in 1..Len(p) : p[i] = done
      <4>1. \A i \in 1..Len(desc[FD].pending) : desc[FD].pending[i] = done
        BY <3>1 DEF RecentInv, Since
      <4>2. PICK q \in Seq(Nat) : q = desc[FD].pending
        BY <1>a, <1>b, <3>1
      <4>3. \A i \in 1..Len(q) : q[i] = done
        BY <4>1, <4>2
      <4>4. Append(q, done) \in Seq(Nat)
            /\ \A i \in 1..Len(Append(q, done)) : Append(q, done)[i] = done
        BY <1>a, <4>2, <4>3
      <4>5. QED
        BY <4>2, <4>3, <4>4
    <3>5. e \in Entries /\ e.pending = p /\ e.arrived = desc[FD].arrived
      BY <1>a, <3>1, <3>4 DEF Entries
    <3>6. Since(e, done)
      BY <3>1, <3>4, <3>5 DEF RecentInv, Since
    <3> HIDE DEF e
    <3>7. QED
      BY <1>a, <2>1, <3>1, <3>3, <3>5, <3>6 DEF RecentInv, TypeInv
  <2>4. QED
    BY <1>4, <2>2, <2>3 DEF S!SendData
<1>5. ASSUME NEW t \in Thread, S!Recv(t) PROVE RecentInv'
  <2> DEFINE piece == desc[FD].arrived
             buf == S!Overlay(piece, recv_645_buf[t])
             e == [desc[FD] EXCEPT !.arrived = <<>>]
  <2>1. /\ UNCHANGED <<FD, began, done, ACdate>> /\ FD \in S!Fds /\ FD # S!Closed
        /\ recv_645_buf' = [recv_645_buf EXCEPT ![t] = buf]
        /\ desc' = [desc EXCEPT ![FD] = e]
    BY <1>5, <1>a DEF S!Recv, S!host, S!Own
  <2>2. e \in Entries /\ \A n : Since(desc[FD], n) => Since(e, n)
    <3>1. <<>> \in Seq(Piece)
      OBVIOUS
    <3>2. e \in Entries /\ e.pending = desc[FD].pending /\ e.arrived = <<>>
      BY <1>a, <2>1, <3>1 DEF Entries
    <3>3. QED
      BY <3>2 DEF Since
  <2>3. buf \in Seq(Piece) /\ NoOlder(buf, began[t])
    <3> DEFINE old == recv_645_buf[t]
    <3>1. piece \in Seq(Piece) /\ \A i \in 1..Len(piece) : piece[i].sent = done
      BY <1>b, <2>1 DEF RecentInv, Since
    <3>2. old \in Seq(Piece) /\ (\A i \in 1..Len(old) : old[i].sent >= began[t])
          /\ done >= began[t] /\ began[t] \in Nat
      BY <1>a DEF RecentInv, NoOlder
    <3> HIDE DEF piece, old
    <3>3. SubSeq(old, Len(piece) + 1, Len(old)) \in Seq(Piece)
          /\ \A i \in 1..Len(SubSeq(old, Len(piece) + 1, Len(old))) :
               SubSeq(old, Len(piece) + 1, Len(old))[i].sent >= began[t]
      BY <3>1, <3>2
    <3>4. PICK rest \in Seq(Piece) : rest = SubSeq(old, Len(piece) + 1, Len(old))
      BY <3>3
    <3>5. \A i \in 1..Len(rest) : rest[i].sent >= began[t]
      BY <3>3, <3>4
    <3>6. piece \o rest \in Seq(Piece) /\ NoOlder(piece \o rest, began[t])
      <4>1. piece \o rest \in Seq(Piece) /\ Len(piece \o rest) = Len(piece) + Len(rest)
        BY <3>1
      <4>2. ASSUME NEW i \in 1..Len(piece \o rest) PROVE (piece \o rest)[i].sent >= began[t]
        <5>1. CASE i <= Len(piece)
          <6>1. i \in 1..Len(piece) /\ (piece \o rest)[i] = piece[i]
            BY <3>1, <4>1, <5>1
          <6>2. QED
            BY <3>1, <3>2, <6>1
        <5>2. CASE i > Len(piece)
          <6>1. i - Len(piece) \in 1..Len(rest) /\ (piece \o rest)[i] = rest[i - Len(piece)]
            BY <3>1, <4>1, <5>2
          <6>2. QED
            BY <3>5, <6>1
        <5>3. QED
          BY <3>1, <4>1, <5>1, <5>2
      <4>3. QED
        BY <4>1, <4>2 DEF NoOlder
    <3>7. QED
      BY <3>4, <3>6 DEF S!Overlay, old, piece
  <2> HIDE DEF buf, e
  <2>4. TypeInv'
    BY <1>a, <2>1, <2>2, <2>3 DEF TypeInv
  <2>5. QED
    BY <1>a, <2>1, <2>2, <2>3, <2>4 DEF RecentInv
<1>6. ASSUME NEW t \in Thread, S!Analyze(t) PROVE RecentInv'
  BY <1>6, NothingOfItChanges DEF S!Analyze, S!host
<1>7. ASSUME NEW t \in Thread, S!BackStage_645_2007(t) PROVE RecentInv'
  <2>1. UNCHANGED <<FD, desc, recv_645_buf, began, done>>
    BY <1>7 DEF S!BackStage_645_2007, S!EndOfCall, S!host
  <2>2. ACdate'.sent >= ACdate'.began
    <3>1. Head(recv_645_buf[t]).sent >= began[t]
      BY <1>7, <1>a DEF S!BackStage_645_2007, RecentInv, NoOlder
    <3>2. QED
      BY <1>7, <3>1 DEF S!BackStage_645_2007, RecentInv
  <2>3. QED
    BY <2>1, <2>2 DEF RecentInv, TypeInv
<1>8. ASSUME NEW t \in Thread, S!Close(t) PROVE RecentInv'
  <2>1. UNCHANGED <<FD, recv_645_buf, began, done, ACdate>>
    BY <1>8 DEF S!Close, S!host
  <2>2. CASE desc' = desc
    BY <2>1, <2>2, NothingOfItChanges
  <2>3. CASE FD # S!Closed /\ desc' = [desc EXCEPT ![FD] = S!Entry("free")]
    BY <1>a, <2>1, <2>3, EntryIsEmpty, EntryChanges
  <2>4. QED
    BY <1>8, <2>2, <2>3 DEF S!Close
<1>9. ASSUME NEW t \in Thread, S!Forget(t) PROVE RecentInv'
  <2>1. UNCHANGED <<desc, recv_645_buf, began, ACdate>> /\ FD' = S!Closed
        /\ done' \in {done, done + 1}
    BY <1>9 DEF S!Forget
  <2>2. QED
    BY <1>a, <2>1 DEF RecentInv, TypeInv
<1>10. ASSUME S!Outside PROVE RecentInv'
  <2>1. UNCHANGED <<FD, recv_645_buf, began, done, ACdate>>
    BY <1>10 DEF S!Outside, S!host
  <2>2. ASSUME NEW f \in S!Fds, S!Answer(f) PROVE RecentInv'
    <3> DEFINE old == desc[f]
    <3>1. PICK datalen \in {66, 1} :
            desc' = [desc EXCEPT ![f].pending = Tail(@),
                                 ![f].arrived = Append(@, [sent |-> Head(desc[f].pending),
                                                           datalen |-> datalen])]
      BY <2>2 DEF S!Answer
    <3> DEFINE piece == [sent |-> Head(old.pending), datalen |-> datalen]
               e == [old EXCEPT !.pending = Tail(old.pending), !.arrived = Append(old.arrived, piece)]
    <3>2. old.pending \in Seq(Nat) /\ old.arrived \in Seq(Piece) /\ old.pending # <<>>
      BY <1>b, <2>2 DEF S!Answer
    <3>3. piece \in Piece
      BY <3>2 DEF Piece
    <3>4. Tail(old.pending) \in Seq(Nat) /\ Append(old.arrived, piece) \in Seq(Piece)
      BY <3>2, <3>3
    <3>5. e \in Entries /\ e.pending = Tail(old.pending) /\ e.arrived = Append(old.arrived, piece)
      BY <1>a, <3>4 DEF Entries
    <3>6. desc' = [desc EXCEPT ![f] = e]
      BY <1>a, <3>1
    <3>7. ASSUME NEW n, Since(old, n) PROVE Since(e, n)
      <4> DEFINE p == old.pending  a == old.arrived
      <4>1. /\ p \in Seq(Nat) /\ p # <<>> /\ \A i \in 1..Len(p) : p[i] = n
            /\ a \in Seq(Piece) /\ \A i \in 1..Len(a) : a[i].sent = n
        BY <3>2, <3>7 DEF Since
      <4>2. Head(p) = n /\ \A i \in 1..Len(Tail(p)) : Tail(p)[i] = n
        <5> HIDE DEF p
        <5>1. QED
          BY <4>1
      <4>3. piece \in Piece /\ piece.sent = n
        BY <3>3, <4>2
      <4>4. \A i \in 1..Len(Append(a, piece)) : Append(a, piece)[i].sent = n
        <5> HIDE DEF a, piece
        <5>1. QED
          BY <4>1, <4>3
      <4>5. QED
        BY <3>5, <4>2, <4>4 DEF Since
    <3> HIDE DEF e
    <3>8. QED
      BY <2>1, <3>5, <3>6, <3>7, EntryChanges
  <2>3. ASSUME NEW f \in S!Fds, S!LoseAnswer(f) PROVE RecentInv'
    <3> DEFINE p == desc[f].pending
               rest == Tail(p)
               e == [desc[f] EXCEPT !.pending = rest]
    <3>1. desc' = [desc EXCEPT ![f] = e] /\ p # <<>> /\ p \in Seq(Nat)
      BY <1>a, <1>b, <2>3 DEF S!LoseAnswer
    <3>2. rest \in Seq(Nat) /\ \A n : (\A i \in 1..Len(p) : p[i] = n) =>
                                        \A i \in 1..Len(rest) : rest[i] = n
      <4> HIDE DEF p
      <4>1. rest \in Seq(Nat) /\ Len(rest) = Len(p) - 1 /\ Len(p) \in Nat
            /\ \A i \in 1..Len(rest) : rest[i] = p[i + 1]
        BY <3>1
      <4> HIDE DEF rest
      <4>2. QED
        BY <4>1
    <3> HIDE DEF rest
    <3>3. e \in Entries /\ e.pending = rest /\ e.arrived = desc[f].arrived
      <4>1. desc[f] \in Entries /\ rest \in Seq(Nat)
        BY <1>a, <3>2
      <4>2. QED
        BY <4>1 DEF Entries
    <3>4. \A n : Since(desc[f], n) => Since(e, n)
      BY <3>2, <3>3 DEF Since
    <3> HIDE DEF e
    <3>5. QED
      BY <2>1, <3>1, <3>3, <3>4, EntryChanges
  <2>4. ASSUME NEW f \in S!Fds, S!ServerCloses(f) PROVE RecentInv'
    <3> DEFINE e == [desc[f] EXCEPT !.state = "closed", !.pending = <<>>]
    <3>1. desc' = [desc EXCEPT ![f] = e]
      BY <1>a, <2>4 DEF S!ServerCloses
    <3>2. <<>> \in Seq(Nat)
      OBVIOUS
    <3>3. e \in Entries /\ e.pending = <<>> /\ e.arrived = desc[f].arrived
      BY <1>a, <3>2 DEF Entries
    <3>4. \A n : Since(desc[f], n) => Since(e, n)
      BY <3>3 DEF Since
    <3> HIDE DEF e
    <3>5. QED
      BY <2>1, <3>1, <3>3, <3>4, EntryChanges
  <2>5. ASSUME NEW f \in S!Fds, \/ desc' = [desc EXCEPT ![f] = S!Entry("free")]
                              \/ desc' = [desc EXCEPT ![f] = S!Entry("other")]
        PROVE RecentInv'
    BY <2>1, <2>5, EntryIsEmpty, EntryChanges
  <2>6. QED
    BY <1>10, <2>2, <2>3, <2>4, <2>5 DEF S!Outside, S!OtherOpens, S!OtherCloses, S!FreeFds
<1>11. CASE UNCHANGED S!vars
  BY <1>11, NothingOfItChanges DEF S!vars, S!host
<1>12. QED
  BY <1>1, <1>2, <1>3, <1>4, <1>5, <1>6, <1>7, <1>8, <1>9, <1>10, <1>11 DEF S!Next, S!Step

-----------------------------------------------------------------------------
(* As long as no two calls have overlapped, one thread at most is in a     *)
(* call, and FD is its own except between close and the assignment.        *)
Places == {"idle", "connect", "connecting", "send", "recv", "close", "forget"}

OneBusy == \A t, u \in Thread : at[t] # "idle" /\ at[u] # "idle" => t = u
OwnFd == FD # S!Closed /\ (\A t \in Thread : at[t] # "forget") => desc[FD].use = "server"

OwnInv ==
  /\ at \in [Thread -> Places]
  /\ ~overlapped => OneBusy /\ OwnFd /\ ~strayed

LEMMA InitOwn == S!Init => OwnInv
<1> SUFFICES ASSUME S!Init PROVE OwnInv
  OBVIOUS
<1>1. at = [t \in Thread |-> "idle"] /\ FD = S!Closed /\ ~strayed
  BY Zenon DEF S!Init
<1>2. OneBusy /\ OwnFd
  BY <1>1 DEF OneBusy, OwnFd
<1>3. at \in [Thread -> Places]
  BY <1>1 DEF Places
<1>4. QED
  BY <1>1, <1>2, <1>3 DEF OwnInv

(* A step of a thread that is in a call, from place to place.              *)
LEMMA MoveOwn ==
  ASSUME OwnInv, TypeInv, NEW t \in Thread, at[t] \in Places \ {"idle"},
         NEW place \in Places, at' = [at EXCEPT ![t] = place],
         \/ FD' = FD /\ \A f \in S!Fds : desc[f].use = "server" => desc'[f].use = "server"
         \/ FD' = S!Closed
         \/ FD' \in S!Fds /\ desc'[FD'].use = "server"
         \/ FD' = FD /\ place = "forget",
         at[t] # "forget" \/ FD' = S!Closed,
         overlapped' <=> overlapped,
         ~overlapped => ~strayed'
  PROVE  OwnInv'
<1>1. at' \in [Thread -> Places]
  BY DEF OwnInv
<1>2. ASSUME OneBusy PROVE OneBusy'
  BY <1>2 DEF OneBusy, OwnInv
<1>3. ASSUME OneBusy, OwnFd PROVE OwnFd'
  <2>1. \A u \in Thread : u # t => at[u] = "idle"
    BY <1>3 DEF OneBusy
  <2>2. CASE FD' = S!Closed \/ (FD' \in S!Fds /\ desc'[FD'].use = "server")
    BY <2>2 DEF OwnFd
  <2>3. CASE place = "forget"
    BY <2>3 DEF OwnInv, OwnFd
  <2>4. CASE /\ FD' = FD /\ at[t] # "forget"
             /\ \A f \in S!Fds : desc[f].use = "server" => desc'[f].use = "server"
    BY <1>3, <2>1, <2>4 DEF OwnFd, TypeInv
  <2>5. QED
    BY <2>2, <2>3, <2>4
<1>4. QED
  BY <1>1, <1>2, <1>3, Zenon DEF OwnInv

(* What a thread in a call holds while no two have overlapped.             *)
LEMMA NotForeign ==
  ASSUME OwnInv, TypeInv, NEW t \in Thread, at[t] \notin {"idle", "forget"}, ~overlapped
  PROVE  ~S!Foreign /\ ~strayed
<1>1. OneBusy /\ OwnFd /\ ~strayed
  BY Zenon DEF OwnInv
<1>2. \A u \in Thread : at[u] # "forget"
  BY <1>1 DEF OneBusy
<1>3. QED
  BY <1>1, <1>2 DEF OwnFd, S!Foreign

LEMMA NextOwn == RecentInv /\ OwnInv /\ [S!Next]_(S!vars) => OwnInv'
<1> SUFFICES ASSUME RecentInv, OwnInv, [S!Next]_(S!vars) PROVE OwnInv'
  OBVIOUS
<1>a. TypeInv /\ FD \in S!Fds \union {S!Closed} /\ desc \in [S!Fds -> Entries] /\ S!Closed \notin S!Fds
  BY DEF RecentInv, TypeInv, S!Fds, S!Closed
<1>b. at \in [Thread -> Places]
  BY DEF OwnInv
<1>1. ASSUME NEW t \in Thread, S!Begin(t) PROVE OwnInv'
  <2>1. at[t] = "idle" /\ UNCHANGED <<FD, desc>>
        /\ \E place \in {"connect", "send"} : at' = [at EXCEPT ![t] = place]
    BY <1>1 DEF S!Begin, S!Goto, S!host
  <2>2. strayed' <=> strayed
    BY <1>1, Zenon DEF S!Begin
  <2>3. ASSUME ~overlapped' PROVE ~overlapped /\ \A u \in Thread : at[u] = "idle"
    BY <1>1, <2>3, Zenon DEF S!Begin
  <2>4. at' \in [Thread -> Places]
    BY <1>b, <2>1 DEF Places
  <2>5. ASSUME OwnFd, \A u \in Thread : at[u] = "idle" PROVE OneBusy' /\ OwnFd'
    BY <1>b, <2>1, <2>5 DEF OneBusy, OwnFd
  <2>6. QED
    BY <2>2, <2>3, <2>4, <2>5, Zenon DEF OwnInv
<1>2. ASSUME NEW t \in Thread, S!Socket(t) PROVE OwnInv'
  <2>1. at[t] = "connect" /\ \E place \in {"send", "connecting", "idle"} :
                               at' = [at EXCEPT ![t] = place]
    BY <1>2 DEF S!Socket, S!Goto
  <2>2. (overlapped' <=> overlapped) /\ (strayed' <=> strayed)
    BY <1>2, Zenon DEF S!Socket
  <2>3. \/ FD' = FD /\ desc' = desc
        \/ FD' \in S!Fds /\ desc'[FD'].use = "server"
    <3>1. CASE UNCHANGED <<FD, desc>>
      BY <3>1
    <3>2. CASE \E f \in S!FreeFds : FD' = f /\ desc' = [desc EXCEPT ![f] = S!Entry("server")]
      BY <1>a, <3>2 DEF S!FreeFds, S!Entry
    <3>3. QED
      BY <1>2, <3>1, <3>2 DEF S!Socket
  <2>4. ~overlapped => ~strayed'
    BY <2>1, <2>2, <1>a, NotForeign
  <2>5. PICK place \in {"send", "connecting", "idle"} : at' = [at EXCEPT ![t] = place]
    BY <2>1
  <2>6. place \in Places /\ at[t] \in Places \ {"idle"} /\ at[t] # "forget"
    BY <2>1, <2>5 DEF Places
  <2>7. QED
    BY <1>a, <2>2, <2>3, <2>4, <2>5, <2>6, MoveOwn
<1>3. ASSUME NEW t \in Thread, S!Connect(t) PROVE OwnInv'
  <2>1. at[t] = "connecting" /\ FD' = FD
    BY <1>3 DEF S!Connect
  <2>2. PICK place \in {"send", "close"} : at' = [at EXCEPT ![t] = place]
    BY <1>3 DEF S!Connect, S!Goto, S!GoClose
  <2>3. \A f \in S!Fds : desc[f].use = "server" => desc'[f].use = "server"
    BY <1>3, <1>a DEF S!Connect, S!Own, Entries
  <2>4. (overlapped' <=> overlapped) /\ (strayed' <=> strayed)
    BY <1>3, Zenon DEF S!Connect
  <2>5. ~overlapped => ~strayed'
    BY <2>1, <2>4, <1>a, NotForeign
  <2>6. place \in Places /\ at[t] \in Places \ {"idle"} /\ at[t] # "forget"
    BY <2>1, <2>2 DEF Places
  <2>7. QED
    BY <1>a, <2>1, <2>2, <2>3, <2>4, <2>5, <2>6, MoveOwn
<1>4. ASSUME NEW t \in Thread, S!SendData(t) PROVE OwnInv'
  <2>1. at[t] = "send" /\ FD' = FD
    BY <1>4 DEF S!SendData, S!host
  <2>2. PICK place \in {"recv", "close", "send"} : at' = [at EXCEPT ![t] = place]
    <3>1. \/ at' = at
          \/ \E place \in {"recv", "close"} : at' = [at EXCEPT ![t] = place]
      BY <1>4 DEF S!SendData, S!Goto, S!GoClose
    <3>2. at = [at EXCEPT ![t] = "send"]
      BY <1>b, <2>1
    <3>3. QED
      BY <3>1, <3>2
  <2>3. \A f \in S!Fds : desc[f].use = "server" => desc'[f].use = "server"
    <3>1. CASE UNCHANGED desc
      BY <3>1
    <3>2. CASE S!Own /\ desc' = [desc EXCEPT ![FD].pending =
                               IF desc[FD].state = "up" THEN Append(@, done) ELSE @]
      BY <1>a, <3>2 DEF S!Own, Entries
    <3>3. QED
      BY <1>4, <3>1, <3>2 DEF S!SendData
  <2>4. overlapped' <=> overlapped
    BY <1>4, Zenon DEF S!SendData
  <2>5. ASSUME ~overlapped PROVE ~strayed'
    <3>1. ~S!Foreign /\ ~strayed
      BY <2>1, <2>5, <1>a, NotForeign
    <3>2. QED
      BY <1>4, <3>1, Zenon DEF S!SendData
  <2>6. place \in Places /\ at[t] \in Places \ {"idle"} /\ at[t] # "forget"
    BY <2>1, <2>2 DEF Places
  <2>7. QED
    BY <1>a, <2>1, <2>2, <2>3, <2>4, <2>5, <2>6, MoveOwn
<1>5. ASSUME NEW t \in Thread, S!Recv(t) \/ S!Analyze(t) \/ S!BackStage_645_2007(t) PROVE OwnInv'
  <2>1. at[t] = "recv" /\ FD' = FD
    BY <1>5 DEF S!Recv, S!Analyze, S!BackStage_645_2007, S!host
  <2>2. PICK place \in {"recv", "idle", "close"} : at' = [at EXCEPT ![t] = place]
    <3>1. at = [at EXCEPT ![t] = "recv"]
      BY <1>b, <2>1
    <3>2. \/ at' = at
          \/ \E place \in {"idle", "close"} : at' = [at EXCEPT ![t] = place]
      BY <1>5 DEF S!Recv, S!Analyze, S!BackStage_645_2007, S!EndOfCall, S!Goto, S!GoClose
    <3>3. QED
      BY <3>1, <3>2
  <2>3. \A f \in S!Fds : desc[f].use = "server" => desc'[f].use = "server"
    <3>1. CASE S!Recv(t)
      BY <1>a, <3>1 DEF S!Recv, S!Own, Entries
    <3>2. CASE S!Analyze(t) \/ S!BackStage_645_2007(t)
      BY <3>2 DEF S!Analyze, S!BackStage_645_2007
    <3>3. QED
      BY <1>5, <3>1, <3>2
  <2>4. (overlapped' <=> overlapped) /\ (strayed' <=> strayed)
    <3>1. CASE S!Recv(t)
      BY <3>1, Zenon DEF S!Recv
    <3>2. CASE S!Analyze(t)
      BY <3>2, Zenon DEF S!Analyze
    <3>3. CASE S!BackStage_645_2007(t)
      BY <3>3, Zenon DEF S!BackStage_645_2007
    <3>4. QED
      BY <1>5, <3>1, <3>2, <3>3
  <2>5. ~overlapped => ~strayed'
    BY <2>1, <2>4, <1>a, NotForeign
  <2>6. place \in Places /\ at[t] \in Places \ {"idle"} /\ at[t] # "forget"
    BY <2>1, <2>2 DEF Places
  <2>7. QED
    BY <1>a, <2>1, <2>2, <2>3, <2>4, <2>5, <2>6, MoveOwn
<1>6. ASSUME NEW t \in Thread, S!Close(t) PROVE OwnInv'
  <2>1. at[t] = "close" /\ FD' = FD /\ at' = [at EXCEPT ![t] = "forget"]
    BY <1>6 DEF S!Close, S!Goto, S!host
  <2>2. overlapped' <=> overlapped
    BY <1>6, Zenon DEF S!Close
  <2>3. ASSUME ~overlapped PROVE ~strayed'
    <3>1. ~S!Foreign /\ ~strayed
      BY <2>1, <2>3, <1>a, NotForeign
    <3>2. QED
      BY <1>6, <3>1, Zenon DEF S!Close
  <2>4. "forget" \in Places /\ at[t] \in Places \ {"idle"} /\ at[t] # "forget"
    BY <2>1 DEF Places
  <2>5. QED
    BY <1>a, <2>1, <2>2, <2>3, <2>4, MoveOwn
<1>7. ASSUME NEW t \in Thread, S!Forget(t) PROVE OwnInv'
  <2>1. at[t] = "forget" /\ FD' = S!Closed
    BY <1>7 DEF S!Forget
  <2>2. PICK place \in {"connect", "send", "idle"} : at' = [at EXCEPT ![t] = place]
    BY <1>7 DEF S!Forget, S!Goto
  <2>3. (overlapped' <=> overlapped) /\ (strayed' <=> strayed)
    BY <1>7, Zenon DEF S!Forget
  <2>4. ~overlapped => ~strayed'
    BY <2>3, Zenon DEF OwnInv
  <2>5. place \in Places /\ at[t] \in Places \ {"idle"}
    BY <2>1, <2>2 DEF Places
  <2>6. QED
    BY <1>a, <2>1, <2>2, <2>3, <2>4, <2>5, MoveOwn
<1>8. CASE S!Outside \/ UNCHANGED S!vars
  <2>1. UNCHANGED <<FD, at>>
    BY <1>8 DEF S!Outside, S!vars, S!host
  <2>2. \A f \in S!Fds : desc[f].use = "server" => desc'[f].use = "server"
    <3>1. CASE S!OtherOpens
      BY <1>a, <3>1 DEF S!OtherOpens, S!FreeFds
    <3>2. CASE \E g \in S!Fds : S!OtherCloses(g)
      BY <1>a, <3>2 DEF S!OtherCloses
    <3>3. CASE \E g \in S!Fds : S!Answer(g)
      BY <1>a, <3>3 DEF S!Answer, Entries
    <3>4. CASE \E g \in S!Fds : S!LoseAnswer(g)
      BY <1>a, <3>4 DEF S!LoseAnswer, Entries
    <3>5. CASE \E g \in S!Fds : S!ServerCloses(g)
      BY <1>a, <3>5 DEF S!ServerCloses, Entries
    <3>6. CASE UNCHANGED S!vars
      BY <3>6 DEF S!vars
    <3>7. QED
      BY <1>8, <3>1, <3>2, <3>3, <3>4, <3>5, <3>6 DEF S!Outside
  <2>3. (overlapped' <=> overlapped) /\ (strayed' <=> strayed)
    <3>1. CASE S!Outside
      BY <3>1, Zenon DEF S!Outside
    <3>2. CASE UNCHANGED S!vars
      BY <3>2, Zenon DEF S!vars
    <3>3. QED
      BY <1>8, <3>1, <3>2
  <2>4. (OneBusy => OneBusy') /\ (OwnFd => OwnFd')
    BY <1>a, <2>1, <2>2 DEF OneBusy, OwnFd
  <2>5. at' \in [Thread -> Places]
    BY <1>b, <2>1
  <2>6. QED
    BY <2>3, <2>4, <2>5, Zenon DEF OwnInv
<1>9. QED
  BY <1>1, <1>2, <1>3, <1>4, <1>5, <1>6, <1>7, <1>8 DEF S!Next, S!Step

(* A stored reading is no older than the last success before its call, and *)
(* until two calls overlap only the sampling's own descriptor is written   *)
(* to or closed (AcSample.c:33, 264-308).                                  *)
THEOREM ReadingsAreRecent == S!Spec => []SamplesAreRecent
<1>1. RecentInv /\ OwnInv => SamplesAreRecent
  <2> SUFFICES ASSUME RecentInv, OwnInv PROVE SamplesAreRecent
    OBVIOUS
  <2>1. ACdate.sent >= ACdate.began
    BY DEF RecentInv
  <2>2. strayed => overlapped
    BY Zenon DEF OwnInv
  <2>3. QED
    BY <2>1, <2>2, Zenon DEF SamplesAreRecent, S!SamplesAreRecent
<1>2. QED
  BY InitRecent, NextRecent, InitOwn, NextOwn, <1>1, PTL DEF S!Spec
=============================================================================
