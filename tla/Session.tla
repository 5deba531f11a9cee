------------------------------ MODULE Session ------------------------------
(***************************************************************************)
(* The connections of the terminal (Server_com.c): main accepts stations   *)
(* and starts a serrver_worker for each, client_worker keeps a connection  *)
(* of its own to the station, RS485_Worker_I serves the serial line.  The  *)
(* threads share the descriptor table of the process, the variable connfd  *)
(* through which main hands a descriptor over, and the flag login_ok.      *)
(*                                                                         *)
(* What the kernel does is modelled as far as the code can tell: accept    *)
(* and socket return the lowest free number, a write to a connection the   *)
(* station has left succeeds, fails or raises SIGPIPE, which nobody        *)
(* handles and which ends the process.                                     *)
(***************************************************************************)
EXTENDS Integers, FiniteSetsExt

CONSTANTS MaxConns,   \* connections 1..MaxConns are opened to the terminal,
                      \* in this order, and each gets a serrver_worker thread
          MaxFd,      \* descriptors are numbered 1..MaxFd
          MaxDrops,   \* how often the station ends client_worker's connection
          Free        \* a descriptor that is not open

Sock == 0             \* the connection client_worker opens
Conns == 1 .. MaxConns
Threads == 1 .. MaxConns
All == Conns \union {Sock}
Fds == 1 .. MaxFd
NoFd == 0             \* a negative descriptor: accept failed

ASSUME SessionAssumption ==
    /\ MaxConns \in Nat /\ MaxFd \in Nat /\ MaxDrops \in Nat
    /\ Free \notin All

VARIABLES
    desc,        \* the descriptor table: descriptor -> connection or Free
    link,        \* state of each connection, as the kernel sees it
    connfd,      \* main's variable, whose address every thread gets
    mainAt,      \* where main is: "accept" or "create"
    thr,         \* serrver_worker: where it is, and its client_fd
    client,      \* client_worker: where it is, its descriptor, and whether
                 \* connect has already returned 0 on it
    serial,      \* where RS485_Worker_I is
    login_ok,
    alive,       \* the process runs
    first,       \* history: what the station got first on a connection, or
                 \* that the login on it could not be written
    overtaken,   \* history: main went to accept again before a thread it
                 \* had started read connfd, and accept returned
    drops        \* bound: ends of client_worker's connection so far

vars == <<desc, link, connfd, mainAt, thr, client, serial, login_ok, alive,
          first, overtaken, drops>>
kernel == <<desc, link>>
history == <<first, overtaken, drops>>

LinkStates ==
    {"none",     \* no connection yet
     "waiting",  \* in the backlog, or connect has sent its SYN
     "up",
     "fin",      \* the station has closed it
     "rst",      \* the station has reset it, and nobody was told yet
     "gone"}     \* writes raise SIGPIPE, reads return 0

Places == {"none", "start", "login", "loop", "fresh", "read", "close", "ended"}

TypeOK ==
    /\ desc \in [Fds -> All \union {Free}]
    /\ link \in [All -> LinkStates]
    /\ connfd \in Fds \union {NoFd}
    /\ mainAt \in {"accept", "create"}
    /\ thr \in [Threads -> [at : Places, fd : Fds \union {NoFd}]]
    /\ client \in [at : Places \union {"socket", "connect"},
                   fd : Fds \union {NoFd}, seen : BOOLEAN]
    /\ serial \in {"open", "line", "read", "ended"}
    /\ login_ok \in BOOLEAN /\ alive \in BOOLEAN
    /\ first \in [All -> {"nothing", "login", "refused", "other"}]
    /\ overtaken \in BOOLEAN
    /\ drops \in 0 .. MaxDrops

Init ==
    /\ desc = [f \in Fds |-> Free]
    /\ link = [c \in All |-> "none"]
    /\ connfd = NoFd
    /\ mainAt = "accept"
    /\ thr = [t \in Threads |-> [at |-> "none", fd |-> NoFd]]
    /\ \E at \in {"socket", "ended"} :    \* pthread_create may have failed
          client = [at |-> at, fd |-> NoFd, seen |-> FALSE]
    /\ serial = "open"
    /\ login_ok = FALSE
    /\ alive = TRUE
    /\ first = [c \in All |-> "nothing"]
    /\ overtaken = FALSE
    /\ drops = 0

FreeFds == {f \in Fds : desc[f] = Free}
LowestFree == Min(FreeFds)

Open(fd) == fd \in Fds /\ desc[fd] # Free

\* The state of the connection behind a descriptor; "none" on a bad one.
State(fd) == IF Open(fd) THEN link[desc[fd]] ELSE "none"
Becomes(fd, s) == link' = IF Open(fd) THEN [link EXCEPT ![desc[fd]] = s] ELSE link

-----------------------------------------------------------------------------
(* Reading and writing a descriptor. *)

\* SendData: one write of a whole frame on descriptor fd.  A write on a
\* connection the station has closed still succeeds, and may be answered with
\* a reset; one after that raises SIGPIPE.
SendOk(fd, frame) ==
    /\ \/ State(fd) = "up" /\ link' = link
       \/ State(fd) = "fin" /\ \E s \in {"fin", "gone"} : Becomes(fd, s)
    /\ first' = [c \in All |-> IF State(fd) = "up" /\ c = desc[fd] /\ first[c] = "nothing"
                                THEN frame ELSE first[c]]
    /\ alive' = alive

Broken(fd) ==
    /\ \/ State(fd) \in {"none", "waiting", "up", "fin"} /\ link' = link
       \/ State(fd) = "rst" /\ Becomes(fd, "gone")
    /\ alive' = alive

SendFails(fd) == Broken(fd) /\ first' = first

SendKills(fd) ==
    /\ State(fd) = "gone"
    /\ alive' = FALSE
    /\ UNCHANGED <<link, first>>

LoginRefused(fd) ==
    \/ SendKills(fd)
    \/ /\ Broken(fd)
       /\ first' = [c \in All |-> IF Open(fd) /\ c = desc[fd] /\ first[c] = "nothing"
                                   THEN "refused" ELSE first[c]]

\* Several frames in a row, whose results are ignored: on a connection that
\* the station has left the second or third write ends the process.
SendMany(fd) ==
    \/ SendOk(fd, "other") \/ SendFails(fd) \/ SendKills(fd)
    \/ /\ State(fd) \in {"fin", "rst"}
       /\ alive' = FALSE
       /\ UNCHANGED <<link, first>>

\* RecvData as its callers tell the results apart: a frame, the end of the
\* connection (-2), and everything else.  A reset is reported as one byte.
RecvFrame(fd) == State(fd) = "up"
RecvEnd(fd) == State(fd) \in {"fin", "gone"}
RecvNothing(fd) ==
    \/ State(fd) \in {"none", "waiting", "up"} /\ link' = link
    \/ State(fd) = "rst" /\ Becomes(fd, "gone")

Close(fd) == desc' = IF fd \in Fds THEN [desc EXCEPT ![fd] = Free] ELSE desc
-----------------------------------------------------------------------------
(* main: accept a station, hand connfd over to a new thread. *)

\* accept returns the lowest free number for the connection that has waited
\* longest, or fails: connfd is written in both
\* cases, and a thread that was started before may not have read it yet.
Late == \E t \in Threads : thr[t].at = "start"

Accept(c) ==
    /\ mainAt = "accept" /\ link[c] = "waiting" /\ FreeFds # {}
    /\ \A d \in Conns : link[d] = "waiting" => c <= d
    /\ desc' = [desc EXCEPT ![LowestFree] = c]
    /\ link' = [link EXCEPT ![c] = "up"]
    /\ connfd' = LowestFree
    /\ mainAt' = "create"
    /\ overtaken' = (overtaken \/ Late)
    /\ UNCHANGED <<thr, client, serial, login_ok, alive, first, drops>>

AcceptFails ==
    /\ mainAt = "accept"
    /\ connfd' = NoFd
    /\ overtaken' = (overtaken \/ Late)
    /\ UNCHANGED <<kernel, mainAt, thr, client, serial, login_ok, alive, first,
                   drops>>

Create(t) ==
    /\ mainAt = "create" /\ thr[t].at = "none"
    /\ \A u \in Threads : thr[u].at = "none" => t <= u
    /\ thr' = [thr EXCEPT ![t].at = "start"]
    /\ mainAt' = "accept"
    /\ UNCHANGED <<kernel, connfd, client, serial, login_ok, alive, history>>

-----------------------------------------------------------------------------
(* serrver_worker.  Every step is one of the thread's system calls with what *)
(* it does to its own variables around it.                                  *)

Goto(t, at) == thr' = [thr EXCEPT ![t].at = at]

\* client_fd = *((int*)arg): whatever connfd holds by now.
Begin(t) ==
    /\ thr[t].at = "start"
    /\ thr' = [thr EXCEPT ![t] = [at |-> "login", fd |-> connfd]]
    /\ UNCHANGED <<kernel, connfd, mainAt, client, serial, login_ok, alive, history>>

Login(t) ==
    /\ thr[t].at = "login"
    /\ \/ SendOk(thr[t].fd, "login") /\ login_ok' = TRUE
       \/ LoginRefused(thr[t].fd) /\ login_ok' = login_ok
    /\ Goto(t, "loop")
    /\ UNCHANGED <<desc, connfd, mainAt, client, serial, overtaken, drops>>

\* Top of the loop: a heartbeat when one is due, then every 5 s send_event on
\* this connection and the periodic work, then the read.  Linklasttime is set
\* before the heartbeat is written, so that a failed one starts the next turn
\* without a heartbeat ("fresh").
HeartbeatFails(t) ==
    /\ thr[t].at = "loop"
    /\ SendFails(thr[t].fd) \/ SendKills(thr[t].fd)
    /\ Goto(t, "fresh")
    /\ UNCHANGED <<desc, connfd, mainAt, client, serial, login_ok, overtaken, drops>>

Heartbeat(t) ==
    /\ thr[t].at = "loop"
    /\ SendOk(thr[t].fd, "other") \/ (State(thr[t].fd) = "fin" /\ SendMany(thr[t].fd))
    /\ login_ok' = TRUE
    /\ Goto(t, "read")
    /\ UNCHANGED <<desc, connfd, mainAt, client, serial, overtaken, drops>>

NoHeartbeat(t) ==
    /\ thr[t].at \in {"loop", "fresh"}
    /\ SendMany(thr[t].fd) \/ UNCHANGED <<link, first, alive>>
    /\ Goto(t, "read")
    /\ UNCHANGED <<desc, connfd, mainAt, client, serial, login_ok, overtaken, drops>>

Receive_IgnoresEnd(t) ==
    /\ thr[t].at = "read"
    /\ LET fd == thr[t].fd IN
       \/ RecvFrame(fd) /\ SendMany(fd)
       \/ ~RecvFrame(fd) /\ UNCHANGED <<link, first, alive>>
    /\ Goto(t, "loop")
    /\ UNCHANGED <<desc, connfd, mainAt, client, serial, login_ok, overtaken, drops>>

\* RecvData: a frame is executed and answered on the same descriptor, -2 ends
\* the thread, everything else starts the next turn.
Receive(t) ==
    /\ thr[t].at = "read"
    /\ LET fd == thr[t].fd IN
       \/ RecvFrame(fd) /\ SendMany(fd) /\ Goto(t, "loop")
       \/ RecvNothing(fd) /\ Goto(t, "loop") /\ UNCHANGED <<first, alive>>
       \/ RecvEnd(fd) /\ Goto(t, "close") /\ UNCHANGED <<link, first, alive>>
    /\ UNCHANGED <<desc, connfd, mainAt, client, serial, login_ok, overtaken, drops>>

End_NoClose(t) ==
    /\ thr[t].at = "close"
    /\ Goto(t, "ended")
    /\ UNCHANGED <<kernel, connfd, mainAt, client, serial, login_ok, alive, history>>

End_KeepsRunning(t) ==
    /\ thr[t].at = "close"
    /\ Close(thr[t].fd)
    /\ Goto(t, "loop")
    /\ UNCHANGED <<link, connfd, mainAt, client, serial, login_ok, alive, history>>

End(t) ==
    /\ thr[t].at = "close"
    /\ Close(thr[t].fd)
    /\ Goto(t, "ended")
    /\ UNCHANGED <<link, connfd, mainAt, client, serial, login_ok, alive, history>>

Server(t) ==
    \/ Begin(t) \/ Login(t) \/ Heartbeat(t) \/ HeartbeatFails(t)
    \/ NoHeartbeat(t) \/ Receive(t) \/ End(t)

-----------------------------------------------------------------------------
(* client_worker. *)

server == <<connfd, mainAt, thr>>
ClientGoto(at) == client' = [client EXCEPT !.at = at]

ClientSocket ==
    /\ client.at = "socket"
    /\ \/ /\ FreeFds = {}
          /\ ClientGoto("ended") /\ UNCHANGED <<desc, link, first>>
       \/ /\ FreeFds # {}
          /\ desc' = [desc EXCEPT ![LowestFree] = Sock]
          /\ link' = [link EXCEPT ![Sock] = "none"]
          /\ client' = [at |-> "connect", fd |-> LowestFree, seen |-> FALSE]
          /\ first' = [first EXCEPT ![Sock] = "nothing"]
    /\ UNCHANGED <<server, serial, login_ok, alive, overtaken, drops>>

\* connect on a non-blocking socket, once every 10 s: it starts, is under way,
\* has been refused, succeeds once, and fails for ever on a socket on which it
\* has succeeded already.
ClientConnect ==
    /\ client.at = "connect"
    /\ \/ /\ ~client.seen /\ State(client.fd) \in {"up", "fin"}
          /\ client' = [client EXCEPT !.at = "login", !.seen = TRUE]
          /\ link' = link
       \/ /\ ~client.seen /\ State(client.fd) = "none"
          /\ client' = client /\ Becomes(client.fd, "waiting")
       \/ /\ ~client.seen /\ State(client.fd) \in {"rst", "gone"}
          /\ client' = client /\ Becomes(client.fd, "none")
       \/ /\ client.seen \/ State(client.fd) = "waiting"
          /\ UNCHANGED <<client, link>>
    /\ UNCHANGED <<desc, server, serial, login_ok, alive, history>>

ClientLogin ==
    /\ client.at = "login"
    /\ \/ SendOk(client.fd, "login") /\ login_ok' = TRUE /\ ClientGoto("loop")
       \/ LoginRefused(client.fd) /\ login_ok' = login_ok /\ ClientGoto("connect")
    /\ UNCHANGED <<desc, server, serial, overtaken, drops>>

ClientHeartbeatFails ==
    /\ client.at = "loop"
    /\ SendFails(client.fd) \/ SendKills(client.fd)
    /\ ClientGoto("fresh")
    /\ UNCHANGED <<desc, server, serial, login_ok, overtaken, drops>>

\* Right after a heartbeat no events are due here (line 491).
ClientHeartbeat ==
    /\ client.at = "loop"
    /\ SendOk(client.fd, "other")
    /\ login_ok' = TRUE
    /\ ClientGoto("read")
    /\ UNCHANGED <<desc, server, serial, overtaken, drops>>

ClientNoHeartbeat ==
    /\ client.at \in {"loop", "fresh"}
    /\ \/ client.at = "loop" /\ SendMany(client.fd)
       \/ UNCHANGED <<link, first, alive>>
    /\ ClientGoto("read")
    /\ UNCHANGED <<desc, server, serial, login_ok, overtaken, drops>>

ClientReceive ==
    /\ client.at = "read"
    /\ LET fd == client.fd IN
       \/ RecvFrame(fd) /\ SendMany(fd) /\ ClientGoto("loop")
       \/ RecvNothing(fd) /\ ClientGoto("loop") /\ UNCHANGED <<first, alive>>
       \/ RecvEnd(fd) /\ ClientGoto("close") /\ UNCHANGED <<link, first, alive>>
    /\ UNCHANGED <<desc, server, serial, login_ok, overtaken, drops>>

ClientClose_SameSocket ==
    /\ client.at = "close"
    /\ login_ok' = FALSE
    /\ ClientGoto("connect")
    /\ UNCHANGED <<kernel, server, serial, alive, history>>

\* close, login_ok = 0, goto connect.
ClientClose ==
    /\ client.at = "close"
    /\ Close(client.fd)
    /\ login_ok' = FALSE
    /\ ClientGoto("socket")
    /\ UNCHANGED <<link, server, serial, alive, history>>

Client ==
    \/ ClientSocket \/ ClientConnect \/ ClientLogin \/ ClientHeartbeat
    \/ ClientHeartbeatFails \/ ClientNoHeartbeat \/ ClientReceive \/ ClientClose

-----------------------------------------------------------------------------
(* RS485_Worker_I: opens the line and sets its speed, or ends; then logs in  *)
(* on the line whenever the flag is down, and reads.  The descriptors of the *)
(* serial ports are numbered apart.                                          *)

\* The port may be missing, or fcntl refuse to make it blocking.
OpenComPort == {-1, 1}

\* An unknown speed or flow control is passed over, other unknown settings are
\* refused; the driver may refuse every setting.
ComPort_Set(databits, parity, stopbits) ==
    {-1} \union IF /\ databits \in 5 .. 8
                   /\ parity \in {"n", "N", "o", "O", "e", "E", "s", "S"}
                   /\ stopbits \in {1, 2}
                THEN {0} ELSE {}

\* An error, nothing within ten seconds (there is no return statement then: 0
\* is what select has left), or bytes; never the -2 on which the thread would
\* open the line again.
ComPort_Recv == {-1, 0, 1}

serialOnly == <<kernel, server, client, alive, history>>

SerialOpen ==
    /\ serial = "open"
    /\ \E fd \in OpenComPort, set \in ComPort_Set(8, "N", 1) :
          serial' = IF fd < 0 THEN "open" ELSE IF set # 0 THEN "ended" ELSE "line"
    /\ login_ok' = login_ok /\ UNCHANGED serialOnly

\* The result of the write is overwritten by the `=' of the comparison.
SerialLogin ==
    /\ serial = "line"
    /\ serial' = "read"
    /\ login_ok' = TRUE
    /\ UNCHANGED serialOnly

\* A frame is executed and answered on the line.
SerialReceive ==
    /\ serial = "read"
    /\ \E len \in ComPort_Recv :
          IF len = -2 THEN serial' = "open" /\ login_ok' = FALSE
                      ELSE serial' = "line" /\ login_ok' = login_ok
    /\ UNCHANGED serialOnly

-----------------------------------------------------------------------------
(* The stations. *)

others == <<desc, connfd, mainAt, thr, client, serial, login_ok, alive>>

Dial(c) ==
    /\ link[c] = "none"
    /\ \A d \in Conns : d < c => link[d] # "none"
    /\ link' = [link EXCEPT ![c] = "waiting"]
    /\ UNCHANGED <<others, history>>

HangUp(c) ==
    /\ link[c] = "up"
    /\ \E s \in {"fin", "rst"} : link' = [link EXCEPT ![c] = s]
    /\ UNCHANGED <<others, history>>

\* The station takes or refuses client_worker's connection, and ends it.
Establish ==
    /\ link[Sock] = "waiting"
    /\ link' = [link EXCEPT ![Sock] = "up"]
    /\ UNCHANGED <<others, history>>

Drop ==
    /\ link[Sock] \in {"waiting", "up"} /\ drops < MaxDrops
    /\ \E s \in {"fin", "rst"} :
          /\ link[Sock] = "waiting" => s = "rst"
          /\ link' = [link EXCEPT ![Sock] = s]
    /\ drops' = drops + 1
    /\ UNCHANGED <<others, first, overtaken>>

Next ==
    /\ alive
    /\ \/ \E c \in Conns : Accept(c)
       \/ AcceptFails
       \/ \E t \in Threads : Create(t) \/ Server(t)
       \/ Client \/ SerialOpen \/ SerialLogin \/ SerialReceive
       \/ \E c \in Conns : Dial(c) \/ HangUp(c)
       \/ Establish \/ Drop

\* Every thread runs on: the kernel schedules it and its calls return.  The
\* station answers client_worker's connection request.
Fairness ==
    /\ \A t \in Threads : WF_vars(alive /\ Create(t)) /\ WF_vars(alive /\ Server(t))
    /\ \A c \in Conns : WF_vars(alive /\ Accept(c))
    /\ WF_vars(alive /\ Client)
    /\ WF_vars(alive /\ Establish)

Spec == Init /\ [][Next]_vars /\ Fairness

-----------------------------------------------------------------------------
(* What the connections promise. *)

Serving(t) == thr[t].at \in {"login", "loop", "fresh", "read", "close"}
Handing(f) == connfd = f /\ (mainAt = "create" \/ Late)

\* Server_com.c:1141-1151 and 230: as long as accept has not returned again
\* before a new thread had read connfd, every accepted connection is served by
\* exactly one thread, no thread uses a descriptor that was closed and given to
\* somebody else, and no descriptor is left open without a thread.
OwnConnection ==
    ~overtaken =>
    /\ \A t \in Threads : Serving(t) => Open(thr[t].fd) /\ desc[thr[t].fd] \in Conns
    /\ \A t, u \in Threads :
          Serving(t) /\ Serving(u) /\ thr[t].fd = thr[u].fd => t = u
    /\ \A f \in Fds :
          desc[f] \in Conns => Handing(f) \/ \E t \in Threads : Serving(t) /\ thr[t].fd = f

\* The first frame a station gets on any connection, also on a descriptor
\* number that another connection had before, is the login, unless the login
\* could not be written (Server_com.c:235 and 451).
LoginFirst ==
    ~overtaken => \A c \in All : first[c] # "other"

\* A connection that its station has closed or reset is closed here too, its
\* thread ends and the number is free again; the writes before the thread
\* notices may end the process instead (Server_com.c:289-321).
ClosedIsReleased ==
    \A c \in Conns :
        (link[c] \in {"fin", "rst", "gone"} /\ \E f \in Fds : desc[f] = c)
            ~> (~alive \/ overtaken \/ \A f \in Fds : desc[f] # c)

\* client_worker comes back to a station that stays up, and logs in anew,
\* unless a login could not be written: then connect fails for ever on the
\* connected socket (Server_com.c:440, 462).
ClientReturns ==
    []<>\/ client.at \in {"loop", "fresh", "read"} /\ link[Sock] = "up" /\ first[Sock] = "login"
        \/ first[Sock] = "refused" \/ client.at = "ended" \/ ~alive \/ overtaken
=============================================================================
