---------------------------- MODULE ParamStore ----------------------------
(***************************************************************************)
(* The terminal's parameters: the file term3761.conf (file.c), its copy in *)
(* memory TermSysInfo (para.c), and the commands that set them, AFN04 and  *)
(* AFN01 F4 (Mrs_fw_proto376_1.c).  Several channels execute commands at   *)
(* once; the file is read, emptied, written and loaded again without a     *)
(* lock around the whole.                                                  *)
(*                                                                         *)
(* The file is a sequence of lines with a key and a value.  The parameters *)
(* of one Fn are a group, whose keys are saved and loaded together.  Five  *)
(* groups stand for all: F1 has a key whose name begins another one's, F3  *)
(* is kept by AFN01 F4, F7 configures the network through a timer, F16 is  *)
(* in no default file and F91 has a loader that clears another group.      *)
(* A frame is a sequence of data units, each a value for a group or one    *)
(* that is always refused (an unknown Fn, a measuring point, F154, AFN01   *)
(* F2 and F3), or the word "F4" for AFN01 F4.                              *)
(***************************************************************************)
EXTENDS Naturals, Sequences, FiniteSets

CONSTANTS Channel,    \* the threads that execute commands
          Val,        \* values the station sets
          Default,    \* the value of every key in the default file
          None,       \* no value: the key is missing, the memory is zeroed
          Frames,     \* the frames the station sends, without AFN01 F4
          MaxFrames,  \* how many frames it sends at most
          MaxCuts     \* how many power failures there are at most

KeysOf ==
    [F1  |-> <<"CS_F1_TRANSDELAY", "CS_F1_TRANSDELAYMAX">>,
     F3  |-> <<"CS_F3_IP1">>,
     F7  |-> <<"CS_F7_IP">>,
     F16 |-> <<"CS_F16_VIRUSER">>,
     F91 |-> <<"CS_F91_LONGITUDE">>]

Group == DOMAIN KeysOf
Key == {"CS_F1_TRANSDELAY", "CS_F1_TRANSDELAYMAX", "CS_F3_IP1", "CS_F7_IP",
        "CS_F16_VIRUSER", "CS_F91_LONGITUDE"}
AtBoot == Group \ {"F16"}      \* the groups CircuitParaLoad loads
InDefault == Group \ {"F16"}   \* the groups of the default file
Refused == [fn |-> "other", val |-> None]
Unit == [fn : Group, val : Val] \union {Refused}

ASSUME ParamAssumption ==
    /\ Default \notin Val
    /\ None \notin Channel \union Val \union {Default} \union Seq(Val \union {Default})
    /\ \A f \in Frames : f \in Seq(Unit) /\ f # <<>>
    /\ MaxFrames \in Nat /\ MaxCuts \in Nat

VARIABLES
    init,      \* term3761_init.conf
    file,      \* term3761.conf
    mem,       \* TermSysInfo: group -> its values or None
    lock,      \* the flock on the file: a channel or None
    chan,      \* what each channel executes, see Idle below
    net,       \* the address in the network configuration
    timers,    \* pending timers that call LocalSetTermIpInfo
    believed,  \* history: what the station was told each group holds
    last,      \* history: the channel whose command came to the group last
    mixed,     \* history: two commands were in the file at the same time
    torn,      \* history: the power failed while the file was empty
    frames, cuts   \* bounds

vars == <<init, file, mem, lock, chan, net, timers, believed, last, mixed,
          torn, frames, cuts>>

Idle == [at |-> "idle", cmd |-> "none", units |-> <<>>, done |-> <<>>,
         grp |-> "F3", val |-> None, buf |-> <<>>, ok |-> TRUE]

-----------------------------------------------------------------------------
(* The file.  strstr finds the first line that contains the name of the key *)
(* anywhere, getConfPara the first one whose key it is.                      *)

Line(k, v) == [key |-> k, val |-> v]

Containing(k) ==
    IF k = "CS_F1_TRANSDELAY" THEN {k, "CS_F1_TRANSDELAYMAX"} ELSE {k}

FirstOf(f, keys) ==
    CHOOSE i \in DOMAIN f :
        /\ f[i].key \in keys
        /\ \A j \in 1 .. i - 1 : f[j].key \notin keys

Has(f, keys) == \E i \in DOMAIN f : f[i].key \in keys

PutKey_AlwaysAppends(f, k, v) == Append(f, Line(k, v))

\* One round of the loop in SaveConfMultiGroup: the line is replaced as a
\* whole, or a new one is added at the end.
PutKey(f, k, v) ==
    IF Has(f, Containing(k))
    THEN [f EXCEPT ![FirstOf(f, Containing(k))] = Line(k, v)]
    ELSE Append(f, Line(k, v))

PutGroup(f, g, vs) ==
    LET put[n \in 0 .. Len(KeysOf[g])] ==
          IF n = 0 THEN f ELSE PutKey(put[n - 1], KeysOf[g][n], vs[n])
    IN  put[Len(KeysOf[g])]

GetKey(f, k) == IF Has(f, {k}) THEN f[FirstOf(f, {k})].val ELSE None

\* GetFileDataGroup: all keys of the group, or nothing.
GetGroup(f, g) ==
    LET vs == [i \in 1 .. Len(KeysOf[g]) |-> GetKey(f, KeysOf[g][i])] IN
    IF \E i \in DOMAIN vs : vs[i] = None THEN None ELSE vs

All(g, v) == [i \in 1 .. Len(KeysOf[g]) |-> v]

\* Writing from the start of a file that another channel has filled since:
\* what is longer than the text written stays behind it.
Overwrite(f, text) ==
    text \o SubSeq(f, Len(text) + 1, Len(f))

-----------------------------------------------------------------------------
TypeOK ==
    /\ file \in Seq([key : Key, val : Val \union {Default}])
    /\ mem \in [Group -> Seq(Val \union {Default}) \union {None}]
    /\ lock \in Channel \union {None}
    /\ timers \in Nat /\ frames \in 0 .. MaxFrames /\ cuts \in 0 .. MaxCuts

DefaultFiles ==
    {<<Line("CS_F3_IP1", Default), Line("CS_F1_TRANSDELAY", Default),
       Line("CS_F1_TRANSDELAYMAX", Default), Line("CS_F7_IP", Default),
       Line("CS_F91_LONGITUDE", Default)>>,
     <<Line("CS_F1_TRANSDELAYMAX", Default), Line("CS_F1_TRANSDELAY", Default),
       Line("CS_F91_LONGITUDE", Default), Line("CS_F7_IP", Default),
       Line("CS_F3_IP1", Default)>>}

\* CircuitParaLoad on memory that is all zero, or after each loader but the
\* one of F91 has cleared its group.
LoadAll(f, m) ==
    [g \in Group |->
        IF g \notin AtBoot THEN m[g]
        ELSE IF g = "F91" /\ GetGroup(f, g) = None THEN m[g]
        ELSE GetGroup(f, g)]

Zeroed == [g \in Group |-> None]

\* The terminal has been started with a file like the default one.
Init ==
    /\ init \in DefaultFiles
    /\ file = init
    /\ mem = LoadAll(file, Zeroed)
    /\ lock = None
    /\ chan = [c \in Channel |-> Idle]
    /\ net = Default
    /\ timers = 0
    /\ believed = [g \in Group |-> GetGroup(file, g)]
    /\ last = [g \in Group |-> None]
    /\ mixed = FALSE /\ torn = FALSE
    /\ frames = 0 /\ cuts = 0

-----------------------------------------------------------------------------
(* Which commands are in the file at the same time. *)

\* Between the read of the file and the write; the file is empty from "lock"
\* (or "copied") on.
Saving(c) == chan[c].at \in {"open", "lock", "locked", "flush", "f4copy", "copied", "f4load", "f4save"}
OthersSave(c) == \E d \in Channel \ {c} : Saving(d)

Touch(c) == mixed' = (mixed \/ OthersSave(c))

Move(c, at) == chan' = [chan EXCEPT ![c].at = at]

bounds == <<frames, cuts>>
network == <<net, timers>>
told == <<believed, last>>

-----------------------------------------------------------------------------
(* A command: AFN_04H takes the units one after the other and stops at the  *)
(* first that fails.                                                        *)

Receive(c, f) ==
    /\ chan[c].at = "idle" /\ frames < MaxFrames
    /\ frames' = frames + 1
    /\ chan' = [chan EXCEPT ![c] = [Idle EXCEPT !.at = "unit", !.cmd = "set", !.units = f]]
    /\ UNCHANGED <<init, file, mem, lock, network, told, mixed, torn, cuts>>

\* SaveConfMultiGroup up to the first fclose: the new text is made from the
\* file as it is now.  An empty file cannot be read: -1.
ReadFile(c, g, vs) ==
    /\ Touch(c)
    /\ chan' = [chan EXCEPT ![c] =
          IF file = <<>>
          THEN [@ EXCEPT !.at = IF chan[c].at = "f4save" THEN "f4end" ELSE "clear",
                         !.grp = g, !.ok = FALSE]
          ELSE [@ EXCEPT !.at = "open", !.grp = g, !.val = vs, !.ok = TRUE,
                         !.buf = PutGroup(file, g, vs)]]

NextUnit(c) ==
    /\ chan[c].at = "unit" /\ Len(chan[c].done) < Len(chan[c].units)
    /\ LET u == chan[c].units[Len(chan[c].done) + 1] IN
       IF u = Refused
       THEN /\ chan' = [chan EXCEPT ![c].at = "answer",
                                    ![c].done = Append(@, FALSE)]
            /\ UNCHANGED <<mixed, last>>
       ELSE /\ ReadFile(c, u.fn, All(u.fn, u.val))
            /\ last' = [last EXCEPT ![u.fn] = c]
    /\ UNCHANGED <<init, file, mem, lock, network, believed, torn, bounds>>

\* fopen(confile, "w+") empties the file before the lock is tried.
Truncate(c) ==
    /\ chan[c].at = "open"
    /\ file' = <<>>
    /\ Touch(c)
    /\ Move(c, "lock")
    /\ UNCHANGED <<init, mem, lock, network, told, torn, bounds>>

AfterSave(c) == IF chan[c].cmd = "F4" THEN "f4end" ELSE "clear"

\* flock without waiting; a busy file is closed and counts as saved.
TryLock(c) ==
    /\ chan[c].at = "lock"
    /\ IF lock = None
       THEN lock' = c /\ Move(c, "locked")
       ELSE lock' = lock /\ Move(c, AfterSave(c))
    /\ UNCHANGED <<init, file, mem, network, told, mixed, torn, bounds>>

\* fwrite puts the text into the stream's buffer, flock gives the lock back,
\* and only fclose writes the text.
Unlock(c) ==
    /\ chan[c].at = "locked"
    /\ lock' = None
    /\ Move(c, "flush")
    /\ UNCHANGED <<init, file, mem, network, told, mixed, torn, bounds>>

Flush(c) ==
    /\ chan[c].at = "flush"
    /\ file' = Overwrite(file, chan[c].buf)
    /\ Touch(c)
    /\ chan' = [chan EXCEPT ![c].at = AfterSave(c), ![c].buf = <<>>]
    /\ UNCHANGED <<init, mem, lock, network, told, torn, bounds>>

\* The loader of the group: memset, then the keys from the file.  LocationLoad
\* (F91) clears the main station's parameters.
ClearGroup(c) ==
    /\ chan[c].at = "clear"
    /\ mem' = [mem EXCEPT ![IF chan[c].grp = "F91" THEN "F3" ELSE chan[c].grp] = None]
    /\ Move(c, "load")
    /\ UNCHANGED <<init, file, lock, network, told, mixed, torn, bounds>>

LoadGroup_ClearedOnly(c) ==
    /\ chan[c].at = "load"
    /\ Touch(c)
    /\ chan' = [chan EXCEPT ![c].at = IF chan[c].ok THEN "unit" ELSE "answer",
                            ![c].done = Append(@, chan[c].ok)]
    /\ timers' = IF chan[c].grp = "F7" THEN timers + 1 ELSE timers
    /\ UNCHANGED <<init, file, mem, lock, net, told, torn, bounds>>

LoadGroup_NoTimer(c) ==
    /\ chan[c].at = "load"
    /\ Touch(c)
    /\ LET g == chan[c].grp IN
       mem' = IF GetGroup(file, g) = None THEN mem
              ELSE [mem EXCEPT ![g] = GetGroup(file, g)]
    /\ chan' = [chan EXCEPT ![c].at = IF chan[c].ok THEN "unit" ELSE "answer",
                            ![c].done = Append(@, chan[c].ok)]
    /\ UNCHANGED <<init, file, lock, network, told, torn, bounds>>

\* F7 then sets a timer of 5 s.  The unit counts as done if it was saved.
LoadGroup(c) ==
    /\ chan[c].at = "load"
    /\ Touch(c)
    /\ LET g == chan[c].grp IN
       /\ mem' = IF GetGroup(file, g) = None THEN mem
                 ELSE [mem EXCEPT ![g] = GetGroup(file, g)]
       /\ timers' = IF g = "F7" THEN timers + 1 ELSE timers
    /\ chan' = [chan EXCEPT ![c].at = IF chan[c].ok THEN "unit" ELSE "answer",
                            ![c].done = Append(@, chan[c].ok)]
    /\ UNCHANGED <<init, file, lock, net, told, torn, bounds>>

\* The answer: all refused, all accepted, or the result of every unit that was
\* reached.
AckType(done) ==
    IF \A i \in DOMAIN done : ~done[i] THEN "ACK_ALL_ERR"
    ELSE IF \A i \in DOMAIN done : done[i] THEN "ACK_ALL_OK" ELSE "ACK_PART"

\* The units the station takes for set.
Acknowledged(c) ==
    LET n == Len(chan[c].units) IN
    CASE AckType(chan[c].done) = "ACK_ALL_OK" -> 1 .. n
      [] AckType(chan[c].done) = "ACK_ALL_ERR" -> {}
      [] OTHER -> {i \in DOMAIN chan[c].done : chan[c].done[i]}

Answer(c) ==
    /\ \/ chan[c].at = "answer"
       \/ chan[c].at = "unit" /\ Len(chan[c].done) = Len(chan[c].units)
    /\ LET us == chan[c].units
           set(g) == {i \in Acknowledged(c) : us[i].fn = g /\ last[g] = c} IN
       believed' = [g \in Group |->
           IF set(g) = {} THEN believed[g]
           ELSE All(g, us[CHOOSE i \in set(g) : \A j \in set(g) : j <= i].val)]
    /\ chan' = [chan EXCEPT ![c] = Idle]
    /\ UNCHANGED <<init, file, mem, lock, network, last, mixed, torn, bounds>>

-----------------------------------------------------------------------------
(* AFN01 F4, TermParaDefButMainSta: the default file, with the parameters of *)
(* the main station kept.                                                    *)

ResetCommand(c) ==
    /\ chan[c].at = "idle" /\ frames < MaxFrames
    /\ frames' = frames + 1
    /\ chan' = [chan EXCEPT ![c] = [Idle EXCEPT !.at = "f4read", !.cmd = "F4"]]
    /\ UNCHANGED <<init, file, mem, lock, network, told, mixed, torn, cuts>>

F4Read(c) ==
    /\ chan[c].at = "f4read"
    /\ Touch(c)
    /\ LET station == GetGroup(file, "F3") IN
       chan' = IF station = None
               THEN [chan EXCEPT ![c] = Idle]       \* answered: all refused
               ELSE [chan EXCEPT ![c].at = "f4copy", ![c].val = station]
    /\ last' = [g \in Group |-> IF g = "F3" THEN last[g] ELSE c]
    /\ UNCHANGED <<init, file, mem, lock, network, believed, torn, bounds>>

\* system("cp -f ..."), which empties the file first.
F4Copy(c) ==
    /\ chan[c].at = "f4copy"
    /\ file' = <<>>
    /\ Touch(c)
    /\ Move(c, "copied")
    /\ UNCHANGED <<init, mem, lock, network, told, torn, bounds>>

F4Copied(c) ==
    /\ chan[c].at = "copied"
    /\ file' = Overwrite(file, init)
    /\ Touch(c)
    /\ Move(c, "f4load")
    /\ UNCHANGED <<init, mem, lock, network, told, torn, bounds>>

\* CircuitParaLoad of the default file: the memory gets its main station, too.
F4Load(c) ==
    /\ chan[c].at = "f4load"
    /\ mem' = LoadAll(init, mem)
    /\ Move(c, "f4save")
    /\ UNCHANGED <<init, file, lock, network, told, mixed, torn, bounds>>

F4Save(c) ==
    /\ chan[c].at = "f4save"
    /\ ReadFile(c, "F3", chan[c].val)
    /\ UNCHANGED <<init, file, mem, lock, network, told, torn, bounds>>

\* The function ends without a return statement: the answer may say either;
\* the station is taken to know that the reset was carried out.
F4End(c) ==
    /\ chan[c].at = "f4end"
    /\ believed' = [g \in Group |->
          IF last[g] = c /\ g # "F3" THEN GetGroup(init, g) ELSE believed[g]]
    /\ chan' = [chan EXCEPT ![c] = Idle]
    /\ UNCHANGED <<init, file, mem, lock, network, last, mixed, torn, bounds>>

Command(c) ==
    \/ NextUnit(c) \/ Truncate(c) \/ TryLock(c) \/ Unlock(c) \/ Flush(c)
    \/ ClearGroup(c) \/ LoadGroup(c) \/ Answer(c)
    \/ F4Read(c) \/ F4Copy(c) \/ F4Copied(c) \/ F4Load(c) \/ F4Save(c) \/ F4End(c)

-----------------------------------------------------------------------------
(* The timer of F7, and the power. *)

\* A zero address, that of a group another channel is loading, is left alone.
LocalSetTermIpInfo ==
    /\ timers > 0
    /\ timers' = timers - 1
    /\ net' = IF mem["F7"] = None THEN net ELSE mem["F7"][1]
    /\ UNCHANGED <<init, file, mem, lock, chan, told, mixed, torn, bounds>>

\* TermParaPowerUp: the file exists, if perhaps empty.
TermParaPowerUp == LoadAll(file, Zeroed)

\* What a command in progress has reached the station is told by a query.
PowerCut ==
    /\ cuts < MaxCuts
    /\ cuts' = cuts + 1
    /\ torn' = (torn \/ file = <<>>)
    /\ mem' = TermParaPowerUp
    /\ lock' = None
    /\ chan' = [c \in Channel |-> Idle]
    /\ timers' = 0
    /\ believed' = [g \in Group |->
          IF \E c \in Channel : chan[c].at # "idle" THEN GetGroup(file, g) ELSE believed[g]]
    /\ UNCHANGED <<init, file, net, last, mixed, frames>>

Next ==
    \/ \E c \in Channel :
          \/ \E f \in Frames : Receive(c, f)
          \/ ResetCommand(c)
          \/ Command(c)
    \/ LocalSetTermIpInfo
    \/ PowerCut

\* The threads run on, and the main thread's timer loop ticks.
Fairness ==
    /\ \A c \in Channel : WF_vars(Command(c))
    /\ WF_vars(LocalSetTermIpInfo)

Spec == Init /\ [][Next]_vars /\ Fairness

-----------------------------------------------------------------------------
(* What the parameters promise, as long as no two commands are in the file  *)
(* at the same time and the power does not fail while it is empty.          *)

Quiet == \A c \in Channel : chan[c].at = "idle"

\* When no command is in progress the file holds, for every group, what the
\* station was last told: the values of accepted units, also when a later unit
\* of the frame was refused, the old ones of refused units and of units behind
\* them, and after AFN01 F4 the defaults and the old main station.  In
\* particular the line that SaveConfMultiGroup finds for a key is the one
\* getConfPara reads, in whatever order the file is (file.c:433, 351).
ConfirmedIsKept ==
    Quiet /\ ~mixed /\ ~torn => \A g \in Group : GetGroup(file, g) = believed[g]

\* The memory agrees with the file, for every group that is loaded at the start
\* and but for the main station, which F91 and AFN01 F4 leave different from
\* the file until the next start (para.c:36, 440).
MemoryIsFile ==
    Quiet /\ ~mixed => \A g \in AtBoot \ {"F3"} : mem[g] = GetGroup(file, g)

\* An address that F7 has set gets into the network configuration, unless
\* another command or a power failure comes first (the timer is lost and the
\* start does not apply the address, Mrs_fw_proto376_1.c:970).
NetworkFollows ==
    \A v \in Val :
        (believed["F7"] = All("F7", v))
            ~> (net = v \/ believed["F7"] # All("F7", v) \/ mixed \/ cuts > 0)
=============================================================================
