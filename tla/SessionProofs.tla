----------------------------- MODULE SessionProofs -----------------------------
(***************************************************************************)
(* What holds of the connections for every number of stations and of       *)
(* descriptors, whatever the stations and the kernel do: as long as accept *)
(* has not overtaken a thread that was to read connfd, each connection has *)
(* a thread and a descriptor of its own, and begins with a login.          *)
(***************************************************************************)
EXTENDS Session, WellFoundedInduction, TLAPS

(* Past the login, with a connection that may be written to.               *)
Past == {"loop", "fresh", "read", "close"}
ClientHolds == client.at \in Past \union {"connect", "login"}
Apart == {"none", "waiting"}

(* Each open descriptor is some connection's only one, and somebody's:     *)
(* client_worker's, that of one thread, or the one main hands over, in     *)
(* which case one thread at most is on its way to read connfd.             *)
TableInv ==
  /\ \A f, g \in Fds : desc[f] = desc[g] => f = g \/ desc[f] = Free
  /\ \A f \in Fds : desc[f] \in Conns => link[desc[f]] \notin Apart
  /\ \A t \in Threads : Serving(t) => thr[t].fd \in Fds /\ desc[thr[t].fd] \in Conns
  /\ \A t, u \in Threads : Serving(t) /\ Serving(u) /\ thr[t].fd = thr[u].fd => t = u
  /\ \A f \in Fds : desc[f] \in Conns => Handing(f) \/ \E t \in Threads : Serving(t) /\ thr[t].fd = f
  /\ mainAt = "create" \/ Late =>
       /\ connfd \in Fds /\ desc[connfd] \in Conns
       /\ \A t \in Threads : Serving(t) => thr[t].fd # connfd
  /\ Late => mainAt = "accept"
  /\ \A t, u \in Threads : thr[t].at = "start" /\ thr[u].at = "start" => t = u
  /\ \A f \in Fds : desc[f] = Sock <=> ClientHolds /\ client.fd = f
  /\ ClientHolds => client.fd \in Fds

(* A connection that can carry a frame beyond its login has begun with     *)
(* one, or its login could not be written.                                 *)
LoginInv ==
  /\ \A c \in All : first[c] # "other"
  /\ \A t \in Threads : thr[t].at \in Past /\ link[desc[thr[t].fd]] = "up"
                          => first[desc[thr[t].fd]] # "nothing"
  /\ client.at \in Past \union {"login"} => link[Sock] \notin Apart
  /\ client.at \in Past /\ link[Sock] = "up" => first[Sock] # "nothing"

SessionInv == ~overtaken => TableInv /\ LoginInv
--------------------------------------------------------------------------------
LEMMA LowestIsFree ==
  ASSUME FreeFds # {}
  PROVE  LowestFree \in FreeFds
<1> DEFINE R == {p \in Nat \X Nat : p[1] < p[2]}
<1>1. IsWellFoundedOn(R, Nat)
  BY NatLessThanWellFounded DEF OpToRel
<1>2. FreeFds \subseteq Nat
  BY SessionAssumption DEF FreeFds, Fds
<1>3. PICK x \in FreeFds : \A y \in FreeFds : ~ (<<y, x>> \in R)
  BY <1>1, <1>2, WFMin
<1>4. \A y \in FreeFds : x <= y
  <2> TAKE y \in FreeFds
  <2>1. x \in Nat /\ y \in Nat
    BY <1>2
  <2>2. <<y, x>> \in R <=> y < x
    BY <2>1
  <2>3. QED
    BY <1>3, <2>1, <2>2
<1>5. QED
  BY <1>3, <1>4 DEF LowestFree, Min

LEMMA Constants ==
  /\ Free \notin Conns /\ Free # Sock /\ Sock \notin Conns
  /\ All = Conns \union {Sock} /\ NoFd \notin Fds /\ Threads = Conns
BY SessionAssumption DEF All, Conns, Sock, Fds, NoFd, Threads

(* What reading and writing may do to the connections, and what writing    *)
(* may do to the history.                                                  *)
LinksMove ==
  /\ link' \in [All -> LinkStates]
  /\ \A c \in All : \/ link'[c] = link[c]
                    \/ link[c] \in {"fin", "rst"} /\ link'[c] \in {"fin", "gone"}

FirstMoves(fd, frames) ==
  /\ first' \in [All -> {"nothing", "login", "refused", "other"}]
  /\ \A c \in All :
       \/ first'[c] = first[c]
       \/ /\ Open(fd) /\ c = desc[fd] /\ first[c] = "nothing" /\ first'[c] \in frames
          /\ "other" \in frames => link[c] = "up"

LEMMA BecomesMoves ==
  ASSUME TypeOK, NEW fd, NEW s \in {"fin", "gone"}, State(fd) \in {"fin", "rst"}, Becomes(fd, s)
  PROVE  LinksMove
<1>1. Open(fd)
  BY DEF State
<1>2. desc[fd] \in All /\ link \in [All -> LinkStates]
  BY <1>1 DEF TypeOK, Open
<1>3. link' = [link EXCEPT ![desc[fd]] = s] /\ link[desc[fd]] \in {"fin", "rst"}
  BY <1>1 DEF Becomes, State
<1>4. QED
  BY <1>2, <1>3 DEF LinksMove, LinkStates

LEMMA StaysMoves ==
  ASSUME TypeOK, link' = link
  PROVE  LinksMove
BY DEF LinksMove, TypeOK

LEMMA SendOkEffect ==
  ASSUME TypeOK, NEW fd, NEW frame \in {"login", "other"}, SendOk(fd, frame)
  PROVE  /\ LinksMove /\ alive' = alive
         /\ FirstMoves(fd, {frame})
         /\ \/ State(fd) = "up" /\ link' = link /\ first'[desc[fd]] # "nothing"
            \/ State(fd) = "fin" /\ first' = first
<1> DEFINE up == State(fd) = "up"
           new == [c \in All |-> IF up /\ c = desc[fd] /\ first[c] = "nothing"
                                 THEN frame ELSE first[c]]
<1>1. first' = new /\ alive' = alive
  BY DEF SendOk
<1>2. first \in [All -> {"nothing", "login", "refused", "other"}]
  BY DEF TypeOK
<1>3. first' \in [All -> {"nothing", "login", "refused", "other"}]
  BY <1>1, <1>2
<1>4. CASE up /\ link' = link
  <2>1. Open(fd) /\ desc[fd] \in All /\ link[desc[fd]] = "up"
    BY <1>4 DEF State, Open, TypeOK
  <2>2. first'[desc[fd]] # "nothing"
    BY <1>1, <1>2, <1>4, <2>1
  <2>3. FirstMoves(fd, {frame})
    BY <1>1, <1>2, <1>3, <1>4, <2>1 DEF FirstMoves
  <2>4. QED
    BY <1>1, <1>4, <2>2, <2>3, StaysMoves
<1>5. CASE State(fd) = "fin" /\ \E s \in {"fin", "gone"} : Becomes(fd, s)
  <2>1. first' = first
    BY <1>1, <1>2, <1>5
  <2>2. FirstMoves(fd, {frame})
    BY <1>2, <2>1 DEF FirstMoves
  <2>3. LinksMove
    BY <1>5, BecomesMoves
  <2>4. QED
    BY <1>1, <1>5, <2>1, <2>2, <2>3
<1>6. QED
  BY <1>4, <1>5 DEF SendOk

LEMMA BrokenEffect ==
  ASSUME TypeOK, NEW fd, Broken(fd)
  PROVE  LinksMove /\ alive' = alive
BY BecomesMoves, StaysMoves DEF Broken

LEMMA SendFailsEffect ==
  ASSUME TypeOK, NEW fd, SendFails(fd) \/ SendKills(fd)
  PROVE  LinksMove /\ first' = first /\ alive' \in BOOLEAN
BY BrokenEffect, StaysMoves DEF SendFails, SendKills, TypeOK

LEMMA LoginRefusedEffect ==
  ASSUME TypeOK, NEW fd, LoginRefused(fd)
  PROVE  /\ LinksMove /\ alive' \in BOOLEAN
         /\ FirstMoves(fd, {"refused"})
         /\ Open(fd) /\ link'[desc[fd]] = "up" => first'[desc[fd]] # "nothing"
<1>1. first \in [All -> {"nothing", "login", "refused", "other"}] /\ link \in [All -> LinkStates]
      /\ alive \in BOOLEAN
  BY DEF TypeOK
<1>2. CASE SendKills(fd)
  <2>1. State(fd) = "gone" /\ alive' = FALSE /\ link' = link /\ first' = first
    BY <1>2 DEF SendKills
  <2>2. Open(fd) => link[desc[fd]] = "gone"
    BY <2>1 DEF State
  <2>3. QED
    BY <1>1, <2>1, <2>2, StaysMoves DEF FirstMoves
<1>3. CASE /\ Broken(fd)
           /\ first' = [c \in All |-> IF Open(fd) /\ c = desc[fd] /\ first[c] = "nothing"
                                        THEN "refused" ELSE first[c]]
  <2>1. Open(fd) => desc[fd] \in All
    BY DEF Open, TypeOK
  <2>2. FirstMoves(fd, {"refused"})
    BY <1>1, <1>3 DEF FirstMoves
  <2>3. Open(fd) => first'[desc[fd]] # "nothing"
    BY <1>1, <1>3, <2>1
  <2>4. QED
    BY <1>1, <1>3, <2>2, <2>3, BrokenEffect
<1>4. QED
  BY <1>2, <1>3 DEF LoginRefused

(* Several frames: the history changes only on a connection that is up and *)
(* has carried nothing yet.                                                *)
LEMMA SendManyEffect ==
  ASSUME TypeOK, NEW fd, SendMany(fd)
  PROVE  LinksMove /\ alive' \in BOOLEAN /\ FirstMoves(fd, {"other"})
<1>1. first' = first /\ first \in [All -> {"nothing", "login", "refused", "other"}]
        => FirstMoves(fd, {"other"})
  BY DEF FirstMoves
<1>2. first \in [All -> {"nothing", "login", "refused", "other"}] /\ alive \in BOOLEAN
  BY DEF TypeOK
<1>3. CASE SendOk(fd, "other")
  BY <1>2, <1>3, SendOkEffect
<1>4. CASE SendFails(fd) \/ SendKills(fd)
  BY <1>1, <1>2, <1>4, SendFailsEffect
<1>5. CASE alive' = FALSE /\ UNCHANGED <<link, first>>
  BY <1>1, <1>2, <1>5, StaysMoves
<1>6. QED
  BY <1>3, <1>4, <1>5 DEF SendMany

LEMMA RecvNothingEffect ==
  ASSUME TypeOK, NEW fd, RecvNothing(fd)
  PROVE  LinksMove
BY BecomesMoves, StaysMoves DEF RecvNothing
--------------------------------------------------------------------------------
(* Types.                                                                  *)
FdOrNone == Fds \union {NoFd}
Clients == [at : Places \union {"socket", "connect"}, fd : FdOrNone, seen : BOOLEAN]

LEMMA ThreadTypes ==
  ASSUME TypeOK, NEW t \in Threads, NEW at \in Places, Goto(t, at)
  PROVE  thr' \in [Threads -> [at : Places, fd : FdOrNone]]
BY DEF TypeOK, Goto, FdOrNone

LEMMA ClientTypes ==
  ASSUME TypeOK, NEW at \in Places \union {"socket", "connect"}, ClientGoto(at)
  PROVE  client' \in Clients
BY DEF TypeOK, ClientGoto, FdOrNone, Clients

LEMMA TypesStep == TypeOK /\ [Next]_vars => TypeOK'
<1> SUFFICES ASSUME TypeOK, [Next]_vars PROVE TypeOK'
  OBVIOUS
<1> USE DEF FdOrNone, Clients
<1>t. /\ desc \in [Fds -> All \union {Free}] /\ link \in [All -> LinkStates]
      /\ connfd \in FdOrNone /\ thr \in [Threads -> [at : Places, fd : FdOrNone]]
      /\ client \in Clients
  BY DEF TypeOK
<1>s. LinksMove => link' \in [All -> LinkStates]
  BY DEF LinksMove
<1>f. \A fd, frames : FirstMoves(fd, frames) => first' \in [All -> {"nothing", "login", "refused", "other"}]
  BY DEF FirstMoves
<1>p. {"loop", "read", "fresh", "close", "ended", "login", "start", "none"} = Places
  BY DEF Places
<1>1. ASSUME NEW c \in Conns, Accept(c) PROVE TypeOK'
  <2>1. LowestFree \in Fds
    BY <1>1, LowestIsFree DEF Accept, FreeFds
  <2>2. c \in All /\ "up" \in LinkStates
    BY Constants DEF LinkStates
  <2>3. desc' \in [Fds -> All \union {Free}] /\ link' \in [All -> LinkStates]
    BY <1>1, <1>t, <2>1, <2>2 DEF Accept
  <2>4. overtaken' \in BOOLEAN
    BY <1>1 DEF Accept, TypeOK, Late
  <2>5. QED
    BY <1>1, <2>1, <2>3, <2>4 DEF Accept, TypeOK
<1>2. ASSUME AcceptFails PROVE TypeOK'
  <2>1. overtaken' \in BOOLEAN
    BY <1>2 DEF AcceptFails, TypeOK, Late
  <2>2. QED
    BY <1>2, <2>1 DEF AcceptFails, TypeOK, kernel
<1>3. ASSUME NEW t \in Threads, Create(t) PROVE TypeOK'
  <2>1. thr' \in [Threads -> [at : Places, fd : FdOrNone]]
    BY <1>3, <1>t, <1>p DEF Create
  <2>2. QED
    BY <1>3, <2>1 DEF Create, TypeOK, kernel, history
<1>4. ASSUME NEW t \in Threads, Begin(t) PROVE TypeOK'
  <2>1. thr' \in [Threads -> [at : Places, fd : FdOrNone]]
    BY <1>4, <1>t, <1>p DEF Begin
  <2>2. QED
    BY <1>4, <2>1 DEF Begin, TypeOK, kernel, history
<1>5. ASSUME NEW t \in Threads, Login(t) PROVE TypeOK'
  <2>1. thr' \in [Threads -> [at : Places, fd : FdOrNone]]
    BY <1>5, <1>p, ThreadTypes DEF Login
  <2>2. /\ link' \in [All -> LinkStates] /\ alive' \in BOOLEAN /\ login_ok' \in BOOLEAN
        /\ first' \in [All -> {"nothing", "login", "refused", "other"}]
    BY <1>5, <1>s, <1>f, SendOkEffect, LoginRefusedEffect DEF Login, TypeOK
  <2>3. QED
    BY <1>5, <2>1, <2>2 DEF Login, TypeOK
<1>6. ASSUME NEW t \in Threads, Heartbeat(t) PROVE TypeOK'
  <2>1. thr' \in [Threads -> [at : Places, fd : FdOrNone]]
    BY <1>6, <1>p, ThreadTypes DEF Heartbeat
  <2>2. /\ link' \in [All -> LinkStates] /\ alive' \in BOOLEAN
        /\ first' \in [All -> {"nothing", "login", "refused", "other"}]
    BY <1>6, <1>s, <1>f, SendOkEffect, SendManyEffect DEF Heartbeat, TypeOK
  <2>3. QED
    BY <1>6, <2>1, <2>2 DEF Heartbeat, TypeOK
<1>7. ASSUME NEW t \in Threads, HeartbeatFails(t) PROVE TypeOK'
  <2>1. thr' \in [Threads -> [at : Places, fd : FdOrNone]]
    BY <1>7, <1>p, ThreadTypes DEF HeartbeatFails
  <2>2. link' \in [All -> LinkStates] /\ alive' \in BOOLEAN /\ first' = first
    BY <1>7, <1>s, SendFailsEffect DEF HeartbeatFails
  <2>3. QED
    BY <1>7, <2>1, <2>2 DEF HeartbeatFails, TypeOK
<1>8. ASSUME NEW t \in Threads, NoHeartbeat(t) PROVE TypeOK'
  <2>1. thr' \in [Threads -> [at : Places, fd : FdOrNone]]
    BY <1>8, <1>p, ThreadTypes DEF NoHeartbeat
  <2>2. /\ link' \in [All -> LinkStates] /\ alive' \in BOOLEAN
        /\ first' \in [All -> {"nothing", "login", "refused", "other"}]
    BY <1>8, <1>s, <1>f, SendManyEffect DEF NoHeartbeat, TypeOK
  <2>3. QED
    BY <1>8, <2>1, <2>2 DEF NoHeartbeat, TypeOK
<1>9. ASSUME NEW t \in Threads, Receive(t) PROVE TypeOK'
  <2>1. thr' \in [Threads -> [at : Places, fd : FdOrNone]]
    BY <1>9, <1>p, ThreadTypes DEF Receive
  <2>2. /\ link' \in [All -> LinkStates] /\ alive' \in BOOLEAN
        /\ first' \in [All -> {"nothing", "login", "refused", "other"}]
    BY <1>9, <1>s, <1>f, SendManyEffect, RecvNothingEffect DEF Receive, TypeOK
  <2>3. QED
    BY <1>9, <2>1, <2>2 DEF Receive, TypeOK
<1>10. ASSUME NEW t \in Threads, End(t) PROVE TypeOK'
  <2>1. thr' \in [Threads -> [at : Places, fd : FdOrNone]]
    BY <1>10, <1>p, ThreadTypes DEF End
  <2>2. desc' \in [Fds -> All \union {Free}]
    BY <1>10, <1>t DEF End, Close
  <2>3. QED
    BY <1>10, <2>1, <2>2 DEF End, TypeOK, history
<1>11. ASSUME ClientSocket PROVE TypeOK'
  <2>1. CASE ClientGoto("ended") /\ UNCHANGED <<desc, link, first>>
    <3>1. client' \in Clients
      BY <1>p, <2>1, ClientTypes
    <3>2. QED
      BY <1>11, <2>1, <3>1 DEF ClientSocket, TypeOK, server
  <2>2. CASE /\ FreeFds # {}
             /\ desc' = [desc EXCEPT ![LowestFree] = Sock]
             /\ link' = [link EXCEPT ![Sock] = "none"]
             /\ client' = [at |-> "connect", fd |-> LowestFree, seen |-> FALSE]
             /\ first' = [first EXCEPT ![Sock] = "nothing"]
    <3>1. LowestFree \in Fds /\ Sock \in All /\ "none" \in LinkStates
      BY <2>2, LowestIsFree, Constants DEF FreeFds, LinkStates
    <3>2. desc' \in [Fds -> All \union {Free}] /\ link' \in [All -> LinkStates] /\ client' \in Clients
      BY <1>t, <2>2, <3>1
    <3>3. QED
      BY <1>11, <2>2, <3>2 DEF ClientSocket, TypeOK, server
  <2>3. QED
    BY <1>11, <2>1, <2>2 DEF ClientSocket
<1>12. ASSUME ClientConnect PROVE TypeOK'
  <2>1. client' \in Clients
    BY <1>12, <1>t, <1>p DEF ClientConnect
  <2>2. \A fd, s : Becomes(fd, s) /\ s \in LinkStates => link' \in [All -> LinkStates]
    BY <1>t DEF Becomes, Open
  <2>3. link' \in [All -> LinkStates]
    BY <1>12, <1>t, <2>2 DEF ClientConnect, LinkStates
  <2>4. QED
    BY <1>12, <2>1, <2>3 DEF ClientConnect, TypeOK, server, history
<1>13. ASSUME ClientLogin PROVE TypeOK'
  <2>1. client' \in Clients
    BY <1>13, <1>p, ClientTypes DEF ClientLogin
  <2>2. /\ link' \in [All -> LinkStates] /\ alive' \in BOOLEAN /\ login_ok' \in BOOLEAN
        /\ first' \in [All -> {"nothing", "login", "refused", "other"}]
    BY <1>13, <1>s, <1>f, SendOkEffect, LoginRefusedEffect DEF ClientLogin, TypeOK
  <2>3. QED
    BY <1>13, <2>1, <2>2 DEF ClientLogin, TypeOK, server
<1>14. ASSUME ClientHeartbeat PROVE TypeOK'
  <2>1. client' \in Clients
    BY <1>14, <1>p, ClientTypes DEF ClientHeartbeat
  <2>2. /\ link' \in [All -> LinkStates] /\ alive' \in BOOLEAN
        /\ first' \in [All -> {"nothing", "login", "refused", "other"}]
    BY <1>14, <1>s, <1>f, SendOkEffect DEF ClientHeartbeat, TypeOK
  <2>3. QED
    BY <1>14, <2>1, <2>2 DEF ClientHeartbeat, TypeOK, server
<1>15. ASSUME ClientHeartbeatFails PROVE TypeOK'
  <2>1. client' \in Clients
    BY <1>15, <1>p, ClientTypes DEF ClientHeartbeatFails
  <2>2. link' \in [All -> LinkStates] /\ alive' \in BOOLEAN /\ first' = first
    BY <1>15, <1>s, SendFailsEffect DEF ClientHeartbeatFails
  <2>3. QED
    BY <1>15, <2>1, <2>2 DEF ClientHeartbeatFails, TypeOK, server
<1>16. ASSUME ClientNoHeartbeat PROVE TypeOK'
  <2>1. client' \in Clients
    BY <1>16, <1>p, ClientTypes DEF ClientNoHeartbeat
  <2>2. /\ link' \in [All -> LinkStates] /\ alive' \in BOOLEAN
        /\ first' \in [All -> {"nothing", "login", "refused", "other"}]
    BY <1>16, <1>s, <1>f, SendManyEffect DEF ClientNoHeartbeat, TypeOK
  <2>3. QED
    BY <1>16, <2>1, <2>2 DEF ClientNoHeartbeat, TypeOK, server
<1>17. ASSUME ClientReceive PROVE TypeOK'
  <2>1. client' \in Clients
    BY <1>17, <1>p, ClientTypes DEF ClientReceive
  <2>2. /\ link' \in [All -> LinkStates] /\ alive' \in BOOLEAN
        /\ first' \in [All -> {"nothing", "login", "refused", "other"}]
    BY <1>17, <1>s, <1>f, SendManyEffect, RecvNothingEffect DEF ClientReceive, TypeOK
  <2>3. QED
    BY <1>17, <2>1, <2>2 DEF ClientReceive, TypeOK, server
<1>18. ASSUME ClientClose PROVE TypeOK'
  <2>1. client' \in Clients
    BY <1>18, <1>p, ClientTypes DEF ClientClose
  <2>2. desc' \in [Fds -> All \union {Free}]
    BY <1>18, <1>t DEF ClientClose, Close
  <2>3. QED
    BY <1>18, <2>1, <2>2 DEF ClientClose, TypeOK, server, history
<1>19. ASSUME SerialOpen \/ SerialLogin \/ SerialReceive PROVE TypeOK'
  BY <1>19 DEF SerialOpen, SerialLogin, SerialReceive, serialOnly, TypeOK, kernel, server, history
<1>20. ASSUME NEW c \in Conns, Dial(c) \/ HangUp(c) PROVE TypeOK'
  <2>1. link' \in [All -> LinkStates]
    BY <1>20, <1>t DEF Dial, HangUp, LinkStates
  <2>2. QED
    BY <1>20, <2>1 DEF Dial, HangUp, TypeOK, others, history
<1>21. ASSUME Establish PROVE TypeOK'
  <2>1. link' \in [All -> LinkStates]
    BY <1>21, <1>t DEF Establish, LinkStates
  <2>2. QED
    BY <1>21, <2>1 DEF Establish, TypeOK, others, history
<1>22. ASSUME Drop PROVE TypeOK'
  <2>1. link' \in [All -> LinkStates]
    BY <1>22, <1>t DEF Drop, LinkStates
  <2>2. drops' \in 0 .. MaxDrops
    BY <1>22, SessionAssumption DEF Drop, TypeOK
  <2>3. QED
    BY <1>22, <2>1, <2>2 DEF Drop, TypeOK, others
<1>23. CASE UNCHANGED vars
  BY <1>23 DEF vars, TypeOK
<1>24. QED
  BY <1>1, <1>2, <1>3, <1>4, <1>5, <1>6, <1>7, <1>8, <1>9, <1>10, <1>11, <1>12, <1>13, <1>14,
     <1>15, <1>16, <1>17, <1>18, <1>19, <1>20, <1>21, <1>22, <1>23
  DEF Next, Server, Client
--------------------------------------------------------------------------------
(* Who owns what.  Threads and client_worker that go on with the           *)
(* descriptor they have leave the table as it is.                          *)
LEMMA LinksKeepTable ==
  ASSUME TypeOK, TableInv, LinksMove, UNCHANGED <<desc, connfd, mainAt, thr, client>>
  PROVE  TableInv'
<1>1. \A f \in Fds : desc[f] \in Conns => link'[desc[f]] \notin Apart
  BY Constants DEF LinksMove, TableInv, Apart
<1>2. QED
  BY <1>1 DEF TableInv, Serving, Handing, Late, ClientHolds

LEMMA ThreadKeepsTable ==
  ASSUME TypeOK, TableInv, NEW t \in Threads, NEW at \in Past, thr[t].at \in Past \union {"login"},
         Goto(t, at), LinksMove, UNCHANGED <<desc, connfd, mainAt, client>>
  PROVE  TableInv'
<1>1. \A f \in Fds : desc[f] \in Conns => link'[desc[f]] \notin Apart
  BY Constants DEF LinksMove, TableInv, Apart
<1>2. \A u \in Threads : /\ thr'[u].fd = thr[u].fd
                         /\ Serving(u)' <=> Serving(u)
                         /\ thr'[u].at = "start" <=> thr[u].at = "start"
  BY DEF TypeOK, Goto, Serving, Past
<1>3. Late' <=> Late
  BY <1>2 DEF Late
<1>4. \A f : Handing(f)' <=> Handing(f)
  BY <1>3 DEF Handing
<1>5. QED
  BY <1>1, <1>2, <1>3, <1>4 DEF TableInv, ClientHolds

LEMMA ClientKeepsTable ==
  ASSUME TypeOK, TableInv, ClientHolds, ClientHolds', client'.fd = client.fd,
         LinksMove \/ (\E s \in LinkStates : Becomes(client.fd, s)),
         UNCHANGED <<desc, connfd, mainAt, thr>>
  PROVE  TableInv'
<1>1. \A f \in Fds : desc[f] \in Conns => link'[desc[f]] \notin Apart
  <2>1. CASE LinksMove
    BY <2>1, Constants DEF LinksMove, TableInv, Apart
  <2>2. CASE \E s \in LinkStates : Becomes(client.fd, s)
    <3>1. client.fd \in Fds /\ desc[client.fd] = Sock
      BY DEF TableInv
    <3>2. \A c \in Conns : link'[c] = link[c]
      BY <2>2, <3>1, Constants DEF Becomes, Open, TypeOK
    <3>3. QED
      BY <3>2 DEF TableInv
  <2>3. QED
    BY <2>1, <2>2
<1>2. QED
  BY <1>1 DEF TableInv, Serving, Handing, Late

LEMMA TableStep ==
  ASSUME TypeOK, TableInv, [Next]_vars, ~overtaken'
  PROVE  TableInv'
<1>t. /\ desc \in [Fds -> All \union {Free}] /\ link \in [All -> LinkStates]
      /\ thr \in [Threads -> [at : Places, fd : FdOrNone]]
      /\ client \in Clients
  BY DEF TypeOK, Clients, FdOrNone
<1>1. ASSUME NEW c \in Conns, Accept(c) PROVE TableInv'
  <2>1. LowestFree \in Fds /\ desc[LowestFree] = Free
    BY <1>1, LowestIsFree DEF Accept, FreeFds
  <2>2. ~Late /\ mainAt = "accept" /\ mainAt' = "create" /\ connfd' = LowestFree
        /\ link[c] = "waiting" /\ link' = [link EXCEPT ![c] = "up"]
        /\ desc' = [desc EXCEPT ![LowestFree] = c] /\ UNCHANGED <<thr, client>>
    BY <1>1 DEF Accept
  <2>3. \A f \in Fds : desc[f] # c
    BY <2>2 DEF TableInv, Apart
  <2>4. \A f \in Fds : desc'[f] = IF f = LowestFree THEN c ELSE desc[f]
    BY <1>t, <2>1, <2>2
  <2>5. \A t \in Threads : Serving(t)' <=> Serving(t)
    BY <2>2 DEF Serving
  <2>6. ~Late'
    BY <2>2 DEF Late
  <2>7. \A f \in Fds : Handing(f) => FALSE
    BY <2>2 DEF Handing
  <2>8. \A f : Handing(f)' <=> f = LowestFree
    BY <2>2 DEF Handing
  <2>9. \A f, g \in Fds : desc'[f] = desc'[g] => f = g \/ desc'[f] = Free
    BY <2>3, <2>4 DEF TableInv
  <2>10. \A f \in Fds : desc'[f] \in Conns => link'[desc'[f]] \notin Apart
    BY <1>t, <2>2, <2>4, Constants DEF TableInv, Apart
  <2>11. \A t \in Threads : Serving(t) => thr[t].fd # LowestFree
    BY <2>1, Constants DEF TableInv
  <2>12. \A f \in Fds : desc'[f] = Sock <=> ClientHolds' /\ client'.fd = f
    BY <2>1, <2>2, <2>4, Constants DEF TableInv, ClientHolds
  <2>13. QED
    BY <2>1, <2>2, <2>4, <2>5, <2>6, <2>7, <2>8, <2>9, <2>10, <2>11, <2>12
    DEF TableInv, ClientHolds
<1>2. ASSUME AcceptFails PROVE TableInv'
  <2>1. ~Late /\ mainAt = "accept" /\ mainAt' = "accept" /\ UNCHANGED <<desc, link, thr, client>>
    BY <1>2 DEF AcceptFails, kernel
  <2>2. ~Late' /\ \A f : ~Handing(f)
    BY <2>1 DEF Late, Handing
  <2>3. QED
    BY <2>1, <2>2 DEF TableInv, Serving, ClientHolds
<1>3. ASSUME NEW t \in Threads, Create(t) PROVE TableInv'
  <2>1. mainAt = "create" /\ mainAt' = "accept" /\ thr[t].at = "none"
        /\ thr' = [thr EXCEPT ![t].at = "start"] /\ UNCHANGED <<desc, link, connfd, client>>
    BY <1>3 DEF Create, kernel
  <2>2. ~Late
    BY <2>1 DEF TableInv
  <2>3. \A u \in Threads : /\ thr'[u].fd = thr[u].fd
                           /\ Serving(u)' <=> Serving(u)
                           /\ thr'[u].at = "start" <=> u = t
    BY <1>t, <2>1, <2>2 DEF Serving, Late
  <2>4. \A f : Handing(f)' <=> Handing(f)
    BY <2>1, <2>3 DEF Handing, Late
  <2>5. QED
    BY <2>1, <2>3, <2>4 DEF TableInv, ClientHolds
<1>4. ASSUME NEW t \in Threads, Begin(t) PROVE TableInv'
  <2>1. thr[t].at = "start" /\ thr' = [thr EXCEPT ![t] = [at |-> "login", fd |-> connfd]]
        /\ UNCHANGED <<desc, link, connfd, mainAt, client>>
    BY <1>4 DEF Begin, kernel
  <2>2. Late /\ mainAt = "accept" /\ connfd \in Fds /\ desc[connfd] \in Conns
        /\ \A u \in Threads : Serving(u) => thr[u].fd # connfd
    BY <2>1 DEF TableInv, Late
  <2>3. \A u \in Threads : thr'[u] = IF u = t THEN [at |-> "login", fd |-> connfd] ELSE thr[u]
    BY <1>t, <2>1
  <2>4. ~Late'
    BY <2>1, <2>3 DEF TableInv, Late
  <2>5. \A u \in Threads : Serving(u)' <=> u = t \/ Serving(u)
    BY <2>3 DEF Serving
  <2>6. ~Serving(t)
    BY <2>1 DEF Serving
  <2>7. \A f : Handing(f) => f = connfd
    BY DEF Handing
  <2>8. QED
    BY <2>1, <2>2, <2>3, <2>4, <2>5, <2>6, <2>7 DEF TableInv, ClientHolds
<1>5. ASSUME NEW t \in Threads, Login(t) PROVE TableInv'
  <2>1. Goto(t, "loop") /\ thr[t].at = "login" /\ UNCHANGED <<desc, connfd, mainAt, client>>
    BY <1>5 DEF Login
  <2>2. LinksMove
    BY <1>5, SendOkEffect, LoginRefusedEffect DEF Login
  <2>3. QED
    BY <2>1, <2>2, ThreadKeepsTable DEF Past
<1>6. ASSUME NEW t \in Threads, Heartbeat(t) \/ HeartbeatFails(t) \/ NoHeartbeat(t) \/ Receive(t)
      PROVE  TableInv'
  <2>1. (\E at \in Past : Goto(t, at)) /\ thr[t].at \in Past
        /\ UNCHANGED <<desc, connfd, mainAt, client>>
    BY <1>6 DEF Heartbeat, HeartbeatFails, NoHeartbeat, Receive, Past
  <2>2. LinksMove
    BY <1>6, SendOkEffect, SendManyEffect, SendFailsEffect, RecvNothingEffect, StaysMoves
    DEF Heartbeat, HeartbeatFails, NoHeartbeat, Receive
  <2>3. QED
    BY <2>1, <2>2, ThreadKeepsTable
<1>7. ASSUME NEW t \in Threads, End(t) PROVE TableInv'
  <2>1. thr[t].at = "close" /\ thr' = [thr EXCEPT ![t].at = "ended"]
        /\ UNCHANGED <<link, connfd, mainAt, client>>
    BY <1>7 DEF End, Goto
  <2>2. Serving(t) /\ thr[t].fd \in Fds /\ desc[thr[t].fd] \in Conns
    BY <2>1 DEF TableInv, Serving
  <2>3. \A f \in Fds : desc'[f] = IF f = thr[t].fd THEN Free ELSE desc[f]
    BY <1>7, <1>t, <2>2 DEF End, Close
  <2>4. \A u \in Threads : /\ thr'[u].fd = thr[u].fd
                           /\ Serving(u)' <=> Serving(u) /\ u # t
                           /\ thr'[u].at = "start" <=> thr[u].at = "start"
    BY <1>t, <2>1 DEF Serving
  <2>5. Late' <=> Late
    BY <2>4 DEF Late
  <2>6. \A f : Handing(f)' <=> Handing(f)
    BY <2>1, <2>5 DEF Handing
  <2>7. \A u \in Threads : Serving(u) /\ u # t => thr[u].fd # thr[t].fd
    BY <2>2 DEF TableInv
  <2>8. mainAt = "create" \/ Late => connfd # thr[t].fd
    BY <2>2 DEF TableInv
  <2>9. QED
    BY <2>1, <2>2, <2>3, <2>4, <2>5, <2>6, <2>7, <2>8, Constants DEF TableInv, ClientHolds
<1>8. ASSUME ClientSocket PROVE TableInv'
  <2>1. client.at = "socket" /\ ~ClientHolds /\ UNCHANGED <<connfd, mainAt, thr>>
    BY <1>8 DEF ClientSocket, server, ClientHolds, Past
  <2>2. CASE ClientGoto("ended") /\ UNCHANGED <<desc, link, first>>
    <3>1. ~ClientHolds'
      BY <1>t, <2>2 DEF ClientGoto, Clients, ClientHolds, Past
    <3>2. QED
      BY <2>1, <2>2, <3>1 DEF TableInv, Serving, Handing, Late
  <2>3. CASE /\ FreeFds # {}
             /\ desc' = [desc EXCEPT ![LowestFree] = Sock]
             /\ link' = [link EXCEPT ![Sock] = "none"]
             /\ client' = [at |-> "connect", fd |-> LowestFree, seen |-> FALSE]
             /\ first' = [first EXCEPT ![Sock] = "nothing"]
    <3>1. LowestFree \in Fds /\ desc[LowestFree] = Free
      BY <2>3, LowestIsFree DEF FreeFds
    <3>2. \A f \in Fds : desc'[f] = IF f = LowestFree THEN Sock ELSE desc[f]
      BY <1>t, <2>3, <3>1
    <3>3. \A f \in Fds : desc[f] # Sock
      BY <2>1 DEF TableInv
    <3>4. ClientHolds' /\ client'.fd = LowestFree
      BY <2>3 DEF ClientHolds
    <3>5. \A c \in Conns : link'[c] = link[c]
      BY <1>t, <2>3, Constants
    <3>6. QED
      BY <2>1, <3>1, <3>2, <3>3, <3>4, <3>5, Constants DEF TableInv, Serving, Handing, Late
  <2>4. QED
    BY <1>8, <2>2, <2>3 DEF ClientSocket
<1>9. ASSUME ClientConnect PROVE TableInv'
  <2>1. ClientHolds /\ UNCHANGED <<desc, connfd, mainAt, thr>>
    BY <1>9 DEF ClientConnect, ClientHolds, server
  <2>2. ClientHolds' /\ client'.fd = client.fd
    BY <1>9, <1>t DEF ClientConnect, ClientHolds, Clients
  <2>3. LinksMove \/ \E s \in LinkStates : Becomes(client.fd, s)
    BY <1>9, StaysMoves DEF ClientConnect, LinkStates
  <2>4. QED
    BY <2>1, <2>2, <2>3, ClientKeepsTable
<1>10. ASSUME ClientLogin \/ ClientHeartbeat \/ ClientHeartbeatFails \/ ClientNoHeartbeat \/ ClientReceive
       PROVE  TableInv'
  <2>1. ClientHolds /\ UNCHANGED <<desc, connfd, mainAt, thr>>
        /\ \E at \in Past \union {"connect"} : ClientGoto(at)
    BY <1>10 DEF ClientLogin, ClientHeartbeat, ClientHeartbeatFails, ClientNoHeartbeat,
                 ClientReceive, ClientHolds, Past, server
  <2>2. ClientHolds' /\ client'.fd = client.fd
    BY <1>t, <2>1 DEF ClientGoto, ClientHolds, Clients
  <2>3. LinksMove
    BY <1>10, SendOkEffect, LoginRefusedEffect, SendManyEffect, SendFailsEffect, RecvNothingEffect,
       StaysMoves
    DEF ClientLogin, ClientHeartbeat, ClientHeartbeatFails, ClientNoHeartbeat, ClientReceive
  <2>4. QED
    BY <2>1, <2>2, <2>3, ClientKeepsTable
<1>11. ASSUME ClientClose PROVE TableInv'
  <2>1. ClientHolds /\ client.fd \in Fds /\ desc[client.fd] = Sock
        /\ UNCHANGED <<link, connfd, mainAt, thr>>
    BY <1>11 DEF ClientClose, ClientHolds, Past, TableInv, server
  <2>2. \A f \in Fds : desc'[f] = IF f = client.fd THEN Free ELSE desc[f]
    BY <1>11, <1>t, <2>1 DEF ClientClose, Close
  <2>3. ~ClientHolds'
    BY <1>11, <1>t DEF ClientClose, ClientGoto, Clients, ClientHolds, Past
  <2>4. \A f \in Fds : desc'[f] \in Conns <=> desc[f] \in Conns
    BY <2>1, <2>2, Constants
  <2>5. QED
    BY <2>1, <2>2, <2>3, <2>4, Constants DEF TableInv, Serving, Handing, Late
<1>12. ASSUME SerialOpen \/ SerialLogin \/ SerialReceive PROVE TableInv'
  BY <1>12, LinksKeepTable, StaysMoves
  DEF SerialOpen, SerialLogin, SerialReceive, serialOnly, kernel, server
<1>13. ASSUME NEW c \in Conns, Dial(c) PROVE TableInv'
  <2>1. link[c] = "none" /\ link' = [link EXCEPT ![c] = "waiting"]
        /\ UNCHANGED <<desc, connfd, mainAt, thr, client>>
    BY <1>13 DEF Dial, others
  <2>2. \A f \in Fds : desc[f] \in Conns => link'[desc[f]] \notin Apart
    BY <1>t, <2>1, Constants DEF TableInv, Apart
  <2>3. QED
    BY <2>1, <2>2 DEF TableInv, Serving, Handing, Late, ClientHolds
<1>14. ASSUME (\E c \in Conns : HangUp(c)) \/ Establish \/ Drop PROVE TableInv'
  <2>1. UNCHANGED <<desc, connfd, mainAt, thr, client>>
    BY <1>14 DEF HangUp, Establish, Drop, others
  <2>2. \A f \in Fds : desc[f] \in Conns => link'[desc[f]] \notin Apart
    BY <1>14, <1>t, Constants DEF HangUp, Establish, Drop, TableInv, Apart
  <2>3. QED
    BY <2>1, <2>2 DEF TableInv, Serving, Handing, Late, ClientHolds
<1>15. CASE UNCHANGED vars
  BY <1>15, LinksKeepTable, StaysMoves DEF vars
<1>16. QED
  BY <1>1, <1>2, <1>3, <1>4, <1>5, <1>6, <1>7, <1>8, <1>9, <1>10, <1>11, <1>12, <1>13, <1>14, <1>15
  DEF Next, Server, Client
--------------------------------------------------------------------------------
(* What has begun with a login keeps that.                                 *)
Begun ==
  /\ \A c \in All : first[c] # "nothing" => first'[c] # "nothing"
  /\ \A c \in All : first'[c] # "other"

LEMMA UnchangedBegun ==
  ASSUME LoginInv, first' = first
  PROVE  Begun
BY DEF LoginInv, Begun

LEMMA LoginBegun ==
  ASSUME LoginInv, NEW fd, NEW frame \in {"login", "refused"}, FirstMoves(fd, {frame})
  PROVE  Begun
BY DEF LoginInv, FirstMoves, Begun

(* After its login nothing a connection carries is its first frame.        *)
LEMMA OtherBegun ==
  ASSUME TypeOK, LoginInv, NEW fd, FirstMoves(fd, {"other"}),
         Open(fd) /\ link[desc[fd]] = "up" => first[desc[fd]] # "nothing"
  PROVE  Begun
BY DEF LoginInv, FirstMoves, Begun

LEMMA ThreadHas ==
  ASSUME TableInv, NEW t \in Threads, thr[t].at \in Past \union {"login"}
  PROVE  Serving(t) /\ thr[t].fd \in Fds /\ desc[thr[t].fd] \in Conns /\ desc[thr[t].fd] \in All
BY Constants DEF TableInv, Serving, Past

LEMMA ClientHas ==
  ASSUME TableInv, client.at \in Past \union {"login", "connect"}
  PROVE  client.fd \in Fds /\ desc[client.fd] = Sock /\ Sock \in All
BY Constants DEF TableInv, ClientHolds

(* No thread and no client_worker gets past its login.                     *)
LEMMA NobodyEnters ==
  ASSUME TypeOK, TableInv, LoginInv, Begun, LinksMove, UNCHANGED desc,
         \A t \in Threads : thr'[t].at \in Past => thr[t].at \in Past /\ thr'[t].fd = thr[t].fd,
         client'.at \in Past => client.at \in Past,
         client'.at = "login" => client.at \in Past \union {"login"}
  PROVE  LoginInv'
<1>1. \A c \in All : link'[c] = "up" => link[c] = "up"
  BY DEF LinksMove
<1>2. ASSUME NEW t \in Threads, thr'[t].at \in Past, link'[desc'[thr'[t].fd]] = "up"
      PROVE  first'[desc'[thr'[t].fd]] # "nothing"
  <2>1. thr[t].at \in Past /\ thr'[t].fd = thr[t].fd /\ desc[thr[t].fd] \in All
    BY <1>2, ThreadHas
  <2>2. QED
    BY <1>1, <1>2, <2>1 DEF LoginInv, Begun
<1>3. ASSUME client'.at \in Past \union {"login"}
      PROVE  link'[Sock] \notin Apart
  BY <1>3, Constants DEF LoginInv, LinksMove, Apart
<1>4. ASSUME client'.at \in Past, link'[Sock] = "up"
      PROVE  first'[Sock] # "nothing"
  BY <1>1, <1>4, Constants DEF LoginInv, Begun
<1>5. QED
  BY <1>2, <1>3, <1>4 DEF LoginInv, Begun

LEMMA LoginStep ==
  ASSUME TypeOK, TableInv, LoginInv, [Next]_vars, ~overtaken'
  PROVE  LoginInv'
<1>t. /\ desc \in [Fds -> All \union {Free}] /\ link \in [All -> LinkStates]
      /\ thr \in [Threads -> [at : Places, fd : FdOrNone]]
      /\ client \in Clients
      /\ first \in [All -> {"nothing", "login", "refused", "other"}]
  BY DEF TypeOK, Clients, FdOrNone
<1>1. ASSUME NEW c \in Conns, Accept(c) PROVE LoginInv'
  <2>1. LowestFree \in Fds /\ desc[LowestFree] = Free
    BY <1>1, LowestIsFree DEF Accept, FreeFds
  <2>2. /\ link[c] = "waiting" /\ link' = [link EXCEPT ![c] = "up"]
        /\ desc' = [desc EXCEPT ![LowestFree] = c] /\ UNCHANGED <<thr, client, first>>
    BY <1>1 DEF Accept
  <2>3. ASSUME NEW t \in Threads, thr[t].at \in Past
        PROVE  desc'[thr[t].fd] = desc[thr[t].fd] /\ link'[desc[thr[t].fd]] = link[desc[thr[t].fd]]
    <3>1. thr[t].fd \in Fds /\ desc[thr[t].fd] \in Conns
      BY <2>3, ThreadHas
    <3>2. thr[t].fd # LowestFree /\ desc[thr[t].fd] # c
      BY <2>1, <2>2, <3>1, Constants DEF TableInv, Apart
    <3>3. QED
      BY <1>t, <2>1, <2>2, <3>1, <3>2, Constants
  <2>4. link'[Sock] = link[Sock]
    BY <1>t, <2>2, Constants
  <2>5. QED
    BY <2>2, <2>3, <2>4 DEF LoginInv
<1>2. ASSUME AcceptFails PROVE LoginInv'
  BY <1>2 DEF AcceptFails, kernel, LoginInv
<1>3. ASSUME NEW t \in Threads, Create(t) \/ Begin(t) PROVE LoginInv'
  <2>1. \A u \in Threads : thr'[u].at \in Past => thr[u].at \in Past /\ thr'[u].fd = thr[u].fd
    BY <1>3, <1>t DEF Create, Begin, Past
  <2>2. UNCHANGED <<desc, link, first, client>>
    BY <1>3 DEF Create, Begin, kernel, history
  <2>3. QED
    BY <2>1, <2>2, NobodyEnters, StaysMoves, UnchangedBegun
<1>4. ASSUME NEW t \in Threads, Login(t) PROVE LoginInv'
  <2> DEFINE fd == thr[t].fd
  <2>1. thr[t].at = "login" /\ Goto(t, "loop") /\ UNCHANGED <<desc, client>>
    BY <1>4 DEF Login
  <2>2. fd \in Fds /\ desc[fd] \in Conns /\ desc[fd] \in All /\ Open(fd)
    BY <2>1, ThreadHas, Constants DEF Open
  <2>3. LinksMove /\ Begun /\ (link'[desc[fd]] = "up" => first'[desc[fd]] # "nothing")
    <3>1. CASE SendOk(fd, "login")
      <4>1. LinksMove /\ Begun
        BY <3>1, SendOkEffect, LoginBegun
      <4>2. CASE State(fd) = "up" /\ first'[desc[fd]] # "nothing"
        BY <4>1, <4>2
      <4>3. CASE State(fd) = "fin"
        BY <2>2, <4>1, <4>3 DEF State, LinksMove
      <4>4. QED
        BY <3>1, <4>2, <4>3, SendOkEffect
    <3>2. CASE LoginRefused(fd)
      BY <2>2, <3>2, LoginRefusedEffect, LoginBegun
    <3>3. QED
      BY <1>4, <3>1, <3>2 DEF Login
  <2>4. \A u \in Threads : thr'[u].fd = thr[u].fd /\ (u # t => thr'[u].at = thr[u].at)
    BY <1>t, <2>1 DEF Goto
  <2>5. ASSUME NEW u \in Threads, thr'[u].at \in Past, link'[desc[thr[u].fd]] = "up"
        PROVE  first'[desc[thr[u].fd]] # "nothing"
    <3>1. CASE u = t
      BY <2>3, <2>5, <3>1
    <3>2. CASE u # t
      <4>1. thr[u].at \in Past /\ desc[thr[u].fd] \in All
        BY <2>4, <2>5, <3>2, ThreadHas
      <4>2. QED
        BY <2>3, <2>5, <4>1 DEF LinksMove, LoginInv, Begun
    <3>3. QED
      BY <3>1, <3>2
  <2>6. client'.at \in Past \union {"login"} => link'[Sock] \notin Apart
    BY <2>1, <2>3, Constants DEF LoginInv, LinksMove, Apart
  <2>7. client'.at \in Past /\ link'[Sock] = "up" => first'[Sock] # "nothing"
    BY <2>1, <2>3, Constants DEF LoginInv, LinksMove, Begun
  <2>8. QED
    BY <2>1, <2>3, <2>4, <2>5, <2>6, <2>7 DEF LoginInv, Begun
<1>5. ASSUME NEW t \in Threads, Heartbeat(t) \/ HeartbeatFails(t) \/ NoHeartbeat(t) \/ Receive(t)
      PROVE  LoginInv'
  <2> DEFINE fd == thr[t].fd
  <2>1. thr[t].at \in Past /\ (\E at \in Past : Goto(t, at)) /\ UNCHANGED <<desc, client>>
    BY <1>5 DEF Heartbeat, HeartbeatFails, NoHeartbeat, Receive, Past
  <2>2. link[desc[fd]] = "up" => first[desc[fd]] # "nothing"
    BY <2>1 DEF LoginInv
  <2>3. LinksMove /\ (FirstMoves(fd, {"other"}) \/ first' = first)
    BY <1>5, SendOkEffect, SendManyEffect, SendFailsEffect, RecvNothingEffect, StaysMoves
    DEF Heartbeat, HeartbeatFails, NoHeartbeat, Receive
  <2>4. Begun
    BY <2>2, <2>3, OtherBegun, UnchangedBegun
  <2>5. \A u \in Threads : thr'[u].fd = thr[u].fd /\ (thr'[u].at \in Past => thr[u].at \in Past)
    BY <1>t, <2>1 DEF Goto
  <2>6. QED
    BY <2>1, <2>3, <2>4, <2>5, NobodyEnters
<1>6. ASSUME NEW t \in Threads, End(t) PROVE LoginInv'
  <2>1. thr[t].at = "close" /\ thr' = [thr EXCEPT ![t].at = "ended"]
        /\ UNCHANGED <<link, first, client>> /\ Close(thr[t].fd)
    BY <1>6 DEF End, Goto, history
  <2>2. Serving(t) /\ thr[t].fd \in Fds
    BY <2>1, ThreadHas DEF Past
  <2>3. ASSUME NEW u \in Threads, thr'[u].at \in Past
        PROVE  thr[u].at \in Past /\ thr'[u].fd = thr[u].fd /\ desc'[thr[u].fd] = desc[thr[u].fd]
    <3>1. u # t /\ thr'[u] = thr[u]
      BY <1>t, <2>1, <2>3 DEF Past
    <3>2. Serving(u) /\ thr[u].fd \in Fds
      BY <2>3, <3>1, ThreadHas
    <3>3. thr[u].fd # thr[t].fd
      BY <2>2, <3>1, <3>2 DEF TableInv
    <3>4. QED
      BY <1>t, <2>1, <2>2, <2>3, <3>1, <3>2, <3>3 DEF Close
  <2>4. QED
    BY <2>1, <2>3 DEF LoginInv
<1>7. ASSUME ClientSocket PROVE LoginInv'
  <2>1. client.at = "socket" /\ UNCHANGED thr
    BY <1>7 DEF ClientSocket, server
  <2>2. CASE ClientGoto("ended") /\ UNCHANGED <<desc, link, first>>
    <3>1. client'.at = "ended"
      BY <1>t, <2>2 DEF ClientGoto, Clients
    <3>2. QED
      BY <2>1, <2>2, <3>1 DEF LoginInv, Past
  <2>3. CASE /\ FreeFds # {}
             /\ desc' = [desc EXCEPT ![LowestFree] = Sock]
             /\ link' = [link EXCEPT ![Sock] = "none"]
             /\ client' = [at |-> "connect", fd |-> LowestFree, seen |-> FALSE]
             /\ first' = [first EXCEPT ![Sock] = "nothing"]
    <3>1. LowestFree \in Fds /\ desc[LowestFree] = Free
      BY <2>3, LowestIsFree DEF FreeFds
    <3>2. ASSUME NEW t \in Threads, thr[t].at \in Past
          PROVE  /\ desc'[thr[t].fd] = desc[thr[t].fd]
                 /\ link'[desc[thr[t].fd]] = link[desc[thr[t].fd]]
                 /\ first'[desc[thr[t].fd]] = first[desc[thr[t].fd]]
      <4>1. thr[t].fd \in Fds /\ desc[thr[t].fd] \in Conns
        BY <3>2, ThreadHas
      <4>2. QED
        BY <1>t, <2>3, <3>1, <4>1, Constants
    <3>3. \A c \in All : first'[c] # "other"
      BY <1>t, <2>3 DEF LoginInv
    <3>4. client'.at = "connect"
      BY <2>3
    <3>5. QED
      BY <2>1, <3>2, <3>3, <3>4 DEF LoginInv, Past
  <2>4. QED
    BY <1>7, <2>2, <2>3 DEF ClientSocket
<1>8. ASSUME ClientConnect PROVE LoginInv'
  <2>1. client.at = "connect" /\ UNCHANGED <<desc, thr, first>>
    BY <1>8 DEF ClientConnect, server, history
  <2>2. client.fd \in Fds /\ desc[client.fd] = Sock /\ Sock \in All /\ Open(client.fd)
        /\ State(client.fd) = link[Sock]
    BY <2>1, ClientHas, Constants DEF Open, State
  <2>3. CASE link[Sock] \in {"up", "fin"} /\ client'.at = "login" /\ link' = link
    BY <2>1, <2>3 DEF LoginInv, Apart, Past
  <2>4. CASE client' = client /\ (link' = link \/ \E s \in {"waiting", "none"} : Becomes(client.fd, s))
    <3>1. \A c \in Conns : link'[c] = link[c]
      BY <1>t, <2>2, <2>4, Constants DEF Becomes
    <3>2. \A t \in Threads : thr[t].at \in Past => desc[thr[t].fd] \in Conns
      BY ThreadHas
    <3>3. QED
      BY <2>1, <2>4, <3>1, <3>2 DEF LoginInv, Past
  <2>5. QED
    <3>1. client' = [client EXCEPT !.at = "login", !.seen = TRUE] => client'.at = "login"
      BY <1>t DEF Clients
    <3>2. QED
      BY <1>8, <2>2, <2>3, <2>4, <3>1 DEF ClientConnect
<1>9. ASSUME ClientLogin PROVE LoginInv'
  <2> DEFINE fd == client.fd
  <2>1. client.at = "login" /\ UNCHANGED <<desc, thr>>
    BY <1>9 DEF ClientLogin, server
  <2>2. fd \in Fds /\ desc[fd] = Sock /\ Sock \in All /\ Open(fd)
    BY <2>1, ClientHas, Constants DEF Open
  <2>3. LinksMove /\ Begun /\ (link'[Sock] = "up" => first'[Sock] # "nothing")
    <3>1. CASE SendOk(fd, "login")
      <4>1. LinksMove /\ Begun
        BY <3>1, SendOkEffect, LoginBegun
      <4>2. CASE State(fd) = "up" /\ first'[desc[fd]] # "nothing"
        BY <2>2, <4>1, <4>2
      <4>3. CASE State(fd) = "fin"
        BY <2>2, <4>1, <4>3 DEF State, LinksMove
      <4>4. QED
        BY <3>1, <4>2, <4>3, SendOkEffect
    <3>2. CASE LoginRefused(fd)
      BY <2>2, <3>2, LoginRefusedEffect, LoginBegun
    <3>3. QED
      BY <1>9, <3>1, <3>2 DEF ClientLogin
  <2>4. link'[Sock] \notin Apart
    BY <2>1, <2>2, <2>3 DEF LoginInv, LinksMove, Apart
  <2>5. ASSUME NEW u \in Threads, thr[u].at \in Past, link'[desc[thr[u].fd]] = "up"
        PROVE  first'[desc[thr[u].fd]] # "nothing"
    <3>1. desc[thr[u].fd] \in All
      BY <2>5, ThreadHas
    <3>2. QED
      BY <2>3, <2>5, <3>1 DEF LinksMove, LoginInv, Begun
  <2>6. QED
    BY <2>1, <2>3, <2>4, <2>5 DEF LoginInv, Begun
<1>10. ASSUME ClientHeartbeat \/ ClientHeartbeatFails \/ ClientNoHeartbeat \/ ClientReceive
       PROVE  LoginInv'
  <2> DEFINE fd == client.fd
  <2>1. client.at \in Past /\ (\E at \in Past : ClientGoto(at)) /\ UNCHANGED <<desc, thr>>
    BY <1>10 DEF ClientHeartbeat, ClientHeartbeatFails, ClientNoHeartbeat, ClientReceive, Past, server
  <2>2. desc[fd] = Sock
    BY <2>1, ClientHas
  <2>3. link[desc[fd]] = "up" => first[desc[fd]] # "nothing"
    BY <2>1, <2>2 DEF LoginInv
  <2>4. LinksMove /\ (FirstMoves(fd, {"other"}) \/ first' = first)
    BY <1>10, SendOkEffect, SendManyEffect, SendFailsEffect, RecvNothingEffect, StaysMoves
    DEF ClientHeartbeat, ClientHeartbeatFails, ClientNoHeartbeat, ClientReceive
  <2>5. Begun
    BY <2>3, <2>4, OtherBegun, UnchangedBegun
  <2>6. QED
    BY <2>1, <2>4, <2>5, NobodyEnters
<1>11. ASSUME ClientClose PROVE LoginInv'
  <2>1. UNCHANGED <<link, thr, first>> /\ Close(client.fd) /\ client.at = "close"
    BY <1>11 DEF ClientClose, server, history
  <2>2. client.fd \in Fds /\ desc[client.fd] = Sock
    BY <2>1, ClientHas DEF Past
  <2>3. client'.at = "socket"
    BY <1>11, <1>t DEF ClientClose, ClientGoto, Clients
  <2>4. ASSUME NEW t \in Threads, thr[t].at \in Past
        PROVE  desc'[thr[t].fd] = desc[thr[t].fd]
    <3>1. thr[t].fd \in Fds /\ desc[thr[t].fd] \in Conns
      BY <2>4, ThreadHas
    <3>2. QED
      BY <1>t, <2>1, <2>2, <3>1, Constants DEF Close
  <2>5. QED
    BY <2>1, <2>3, <2>4 DEF LoginInv, Past
<1>12. ASSUME SerialOpen \/ SerialLogin \/ SerialReceive PROVE LoginInv'
  BY <1>12, NobodyEnters, StaysMoves, UnchangedBegun
  DEF SerialOpen, SerialLogin, SerialReceive, serialOnly, kernel, server, history
<1>13. ASSUME (\E c \in Conns : Dial(c) \/ HangUp(c)) \/ Drop PROVE LoginInv'
  <2>1. UNCHANGED <<desc, thr, client, first>>
    BY <1>13 DEF Dial, HangUp, Drop, others, history
  <2>2. \A c \in All : link'[c] = "up" => link[c] = "up"
    BY <1>13, <1>t, Constants DEF Dial, HangUp, Drop
  <2>3. link[Sock] \notin Apart => link'[Sock] \notin Apart
    BY <1>13, <1>t, Constants DEF Dial, HangUp, Drop, Apart
  <2>4. \A t \in Threads : thr[t].at \in Past => desc[thr[t].fd] \in All
    BY ThreadHas
  <2>5. QED
    BY <2>1, <2>2, <2>3, <2>4, Constants DEF LoginInv
<1>14. ASSUME Establish PROVE LoginInv'
  <2>1. UNCHANGED <<desc, thr, client, first>> /\ client.at \notin Past \union {"login"}
    BY <1>14 DEF Establish, others, history, LoginInv, Apart
  <2>2. \A c \in Conns : link'[c] = link[c]
    BY <1>14, <1>t, Constants DEF Establish
  <2>3. \A t \in Threads : thr[t].at \in Past => desc[thr[t].fd] \in Conns
    BY ThreadHas
  <2>4. QED
    BY <2>1, <2>2, <2>3 DEF LoginInv
<1>15. CASE UNCHANGED vars
  BY <1>15, NobodyEnters, StaysMoves, UnchangedBegun DEF vars
<1>16. QED
  BY <1>1, <1>2, <1>3, <1>4, <1>5, <1>6, <1>7, <1>8, <1>9, <1>10, <1>11, <1>12, <1>13, <1>14, <1>15
  DEF Next, Server, Client
--------------------------------------------------------------------------------
(* The variables keep their types, for every number of stations, threads   *)
(* and descriptors.                                                        *)
THEOREM SessionTypes == Spec => []TypeOK
<1>1. ASSUME Init PROVE TypeOK
  <2>1. client \in [at : Places \union {"socket", "connect"}, fd : FdOrNone, seen : BOOLEAN]
    BY <1>1 DEF Init, Places, FdOrNone
  <2>2. thr \in [Threads -> [at : Places, fd : FdOrNone]]
    BY <1>1 DEF Init, Places, FdOrNone
  <2>3. drops \in 0 .. MaxDrops
    BY <1>1, SessionAssumption DEF Init
  <2>4. QED
    BY <1>1, <2>1, <2>2, <2>3 DEF Init, TypeOK, LinkStates, FdOrNone
<1>2. QED
  BY <1>1, TypesStep, PTL DEF Spec

LEMMA InitSession == Init => TableInv /\ LoginInv
BY Constants DEF Init, TableInv, LoginInv, Serving, Handing, Late, ClientHolds, Past

(* Until accept overtakes a thread (Server_com.c:1141-1151), every open    *)
(* descriptor is somebody's, and every connection begins with a login.     *)
THEOREM SessionInvariant == Spec => []SessionInv
<1>1. Init => SessionInv
  BY InitSession DEF SessionInv
<1>2. TypeOK /\ SessionInv /\ [Next]_vars => SessionInv'
  <2> SUFFICES ASSUME TypeOK, SessionInv, [Next]_vars, ~overtaken' PROVE (TableInv /\ LoginInv)'
    BY DEF SessionInv
  <2>1. ~overtaken
    BY DEF Next, vars, Accept, AcceptFails, Create, Server, Begin, Login, Heartbeat, HeartbeatFails,
           NoHeartbeat, Receive, End, Client, ClientSocket, ClientConnect, ClientLogin, ClientHeartbeat,
           ClientHeartbeatFails, ClientNoHeartbeat, ClientReceive, ClientClose,
           SerialOpen, SerialLogin, SerialReceive, serialOnly, history, Dial, HangUp, Establish, Drop
  <2>2. QED
    BY <2>1, TableStep, LoginStep DEF SessionInv
<1>3. QED
  BY <1>1, <1>2, SessionTypes, PTL DEF Spec

(* Every accepted connection has a thread and a descriptor of its own,     *)
(* and no open descriptor is forgotten: OwnConnection of the run session,  *)
(* for any number of stations and descriptors.                             *)
THEOREM EachOwnsItsConnection == Spec => []OwnConnection
<1>1. SessionInv => OwnConnection
  BY Constants DEF SessionInv, TableInv, OwnConnection, Open
<1>2. QED
  BY <1>1, SessionInvariant, PTL

(* Every connection begins with a login: LoginFirst of the run session,    *)
(* for any number of stations and descriptors.                             *)
THEOREM LoginComesFirst == Spec => []LoginFirst
<1>1. SessionInv => LoginFirst
  BY DEF SessionInv, LoginInv, LoginFirst
<1>2. QED
  BY <1>1, SessionInvariant, PTL
================================================================================
