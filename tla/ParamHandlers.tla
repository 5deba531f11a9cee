---------------------------- MODULE ParamHandlers ----------------------------
(***************************************************************************)
(* What each parameter is on its way from the station and back: AFN04 Fn   *)
(* turns the parameters of a message into texts and saves them under the   *)
(* keys of the group (Mrs_fw_proto376_1.c), the loader of the group turns  *)
(* the texts of the file into TermSysInfo again (para.c), and AFN0A Fn     *)
(* answers with TermSysInfo.  One command at a time: what several do to    *)
(* the file is ParamStore's matter.                                        *)
(*                                                                         *)
(* A text is the numbers in it and the characters in it.  Decimal(n) is    *)
(* what itoa(n) or "%d" writes, Dotted(b) a "%d.%d.%d.%d".                 *)
(***************************************************************************)
EXTENDS Naturals, Sequences

CONSTANTS Message,   \* Message[g]: the parameters the station may set for g
          UserSize,  \* 20: the bytes of a name or password in DATA_AFN04_F7
          Char,      \* the characters of names
          NUL,       \* the zero byte
          MaxCommands

(* The fields of the messages that are answered with what was set: numbers, *)
(* addresses of four, flags for three phases, and names.                   *)
HandlerAssumption ==
  LET Address == [1 .. 4 -> Nat]
      Name == Seq(Char)
  IN
  /\ UserSize \in Nat
  /\ Message["F1"] \subseteq [RTS : Nat, delay_time : Nat, over_time : Nat, over_times : Nat,
                              confirm : Nat, heart_beats : Nat]
  /\ Message["F3"] \subseteq [IP_main : Address, Port_main : Nat, IP_bak : Address,
                              Port_bak : Nat, APN : Name]
  /\ Message["F5"] \subseteq [No : Nat, Parameter : Nat]
  /\ Message["F7"] \subseteq
       [termip : Address, netmask : Address, gateway : Address, proxytype : Nat,
        proxyserverip : Address, proxyserverport : Nat, connectway : Nat, user : Name, pw : Name,
        listen_port : Nat]
  /\ Message["F8"] \subseteq
       [ConnStartMode : Nat, mode : Nat, TcpUdp : Nat, ReconnInterval : Nat, MaxRetryCnt : Nat,
        MaxIdleTime : Nat, TimeSpan : [1 .. 3 -> Nat]]
  /\ Message["F9"] \subseteq [valid : [1 .. 2 -> Nat], rating : [1 .. 2 -> Nat]]
  /\ Message["F16"] \subseteq [VirUser : Name, VirPasswd : Name]
  /\ Message["F36"] \subseteq Nat
  /\ Message["F89"] \subseteq [districtCode : Nat, termAddr : Nat]
  /\ Message["F153"] \subseteq [phase : [1 .. 3 -> Nat], mac : Address]

Decimal(n) == [parts |-> <<n>>, chars |-> <<>>]
Dotted(b) == [parts |-> b, chars |-> <<>>]
String(s) == [parts |-> <<>>, chars |-> s]

atoi(t) == IF t.parts = <<>> THEN 0 ELSE t.parts[1]

(* "5" is the address 0.0.0.5.                                             *)
inet_addr(t) ==
  CASE Len(t.parts) = 4 -> t.parts
    [] Len(t.parts) = 1 -> <<0, 0, 0, t.parts[1]>>
    [] OTHER -> <<255, 255, 255, 255>>

(* memcpy of n bytes out of a zeroed buffer that holds the text.           *)
Copied(t, n) == [i \in 1 .. n |-> IF i <= Len(t.chars) THEN t.chars[i] ELSE NUL]

(* snprintf(..., UserSize, "%s", ...): one byte is the terminating zero.   *)
Printed(s) == String(SubSeq(s, 1, IF Len(s) < UserSize THEN Len(s) ELSE UserSize - 1))

KeysOf ==
  [F1   |-> <<"TRANSDELAY", "TRANSDELAYMAX", "TIMEOUT", "RETRYCNT",
              "FLAG_CLASS1", "FLAG_CLASS2", "FLAG_CLASS3", "PULSECYCLE">>,
   F3   |-> <<"IP1", "PORT1", "IP2", "PORT2", "APN">>,
   F5   |-> <<"CONSCHEMENO", "CONSCHEMEPARAMETER">>,
   F7   |-> <<"IP", "MASK", "GW", "PROXYTYPE", "PROXYIP", "PROXYPOTE", "PROXYAUTH",
              "LEN_USER", "USER", "LEN_PWD", "PWD", "TERMPORT">>,
   F8   |-> <<"CONNSTARTMODE", "MODE", "ISUDP", "RECONNINTERVAL", "MAXRETRYCNT",
              "MAXIDLETIME", "TIMESPAN_1", "TIMESPAN_2", "TIMESPAN_3">>,
   F9   |-> <<"VALIDFLAG_1", "RATINGFLAG_1", "VALIDFLAG_2", "RATINGFLAG_2">>,
   F16  |-> <<"VIRUSER", "VIRPASSWD">>,
   F36  |-> <<"FLUX_LIMITOR">>,
   F89  |-> <<"AREA_CODE", "TERMINAL_CODE">>,
   F91  |-> <<"LONGITUDE", "DIMENSION">>,
   F153 |-> <<"PA_EN", "PB_EN", "PC_EN", "MAC">>,
   F154 |-> <<"FORMAT", "PA_RATIO", "PB_RATIO", "PC_RATIO", "MAC">>]

Group == DOMAIN KeysOf

(* The groups whose keys the default file holds, and those that            *)
(* CircuitParaLoad loads.                                                  *)
InFile == {"F1", "F3", "F5", "F7", "F8", "F9"}
AtBoot == Group \ {"F16"}
-----------------------------------------------------------------------------
(* AFN04: the texts to save, for the keys of the group in their order.     *)

(* The bit of n that weighs w.                                             *)
Bit(n, w) == (n \div w) % 2

(* A text that may be left out: what follows moves up to its key.          *)
Optional(present, text) == IF present THEN <<text>> ELSE <<>>

AFN04H_01H(p) ==
  << Decimal(p.RTS), Decimal(p.delay_time), Decimal(p.over_time), Decimal(p.over_times),
     Decimal(Bit(p.confirm, 1)), Decimal(Bit(p.confirm, 2)), Decimal(Bit(p.confirm, 4)),
     Decimal(p.heart_beats) >>

AFN04H_03H(p) ==
  << Dotted(p.IP_main), Decimal(p.Port_main), Dotted(p.IP_bak), Decimal(p.Port_bak),
     String(p.APN) >>

AFN04H_05H(p) == << Decimal(p.No), Decimal(p.Parameter) >>

(* The name and the password are left out when their length is 0.  The     *)
(* port is not among the texts.                                            *)
AFN04H_07H(p) ==
  << Dotted(p.termip), Dotted(p.netmask), Dotted(p.gateway), Decimal(p.proxytype),
     Dotted(p.proxyserverip), Decimal(p.proxyserverport), Decimal(p.connectway),
     Decimal(Len(p.user)) >>
  \o Optional(p.user # <<>>, Printed(p.user))
  \o << Decimal(Len(p.pw)) >>
  \o Optional(p.pw # <<>>, Printed(p.pw))

AFN04H_08H(p) ==
  << Decimal(p.ConnStartMode), Decimal(p.mode), Decimal(p.TcpUdp), Decimal(p.ReconnInterval),
     Decimal(p.MaxRetryCnt), Decimal(p.MaxIdleTime), Decimal(p.TimeSpan[1]),
     Decimal(p.TimeSpan[2]), Decimal(p.TimeSpan[3]) >>

AFN04H_09H_swapped(p) ==
  [i \in 1 .. 4 |-> Decimal(IF i <= 2 THEN p.valid[i] ELSE p.rating[i - 2])]

(* Two of the eight pairs of flag bytes.                                   *)
AFN04H_09H(p) ==
  [i \in 1 .. 4 |-> Decimal(IF i % 2 = 1 THEN p.valid[(i + 1) \div 2] ELSE p.rating[i \div 2])]

AFN04H_16H(p) == << String(p.VirUser), String(p.VirPasswd) >>
AFN04H_36H(p) == << Decimal(p) >>
AFN04H_89H(p) == << Decimal(p.districtCode), Decimal(p.termAddr) >>

(* "W116-23'45.6", without the last number when it is 0.                   *)
Angle(a) ==
  [parts |-> IF a.dec = 0 THEN << a.deg, a.min, a.sec >> ELSE << a.deg, a.min, a.sec, a.dec >>,
   chars |-> << a.side >>]
AFN04H_91H(p) == << Angle(p.longitude), Angle(p.latitude) >>

(* A phase that is neither 0 nor 1 is left out.                            *)
AFN04H_153H(p) ==
  Optional(p.phase[1] < 2, Decimal(p.phase[1])) \o Optional(p.phase[2] < 2, Decimal(p.phase[2]))
    \o Optional(p.phase[3] < 2, Decimal(p.phase[3]))
    \o << Dotted(<< p.mac[4], p.mac[3], p.mac[2], p.mac[1] >>) >>

AFN04H_154H(p) ==
  << Decimal(p.format), Decimal(p.trans[1]), Decimal(p.trans[2]), Decimal(p.trans[3]),
     Dotted(<< p.mac[4], p.mac[3], p.mac[2], p.mac[1] >>) >>

Texts(g, p) ==
  CASE g = "F1" -> AFN04H_01H(p) [] g = "F3" -> AFN04H_03H(p) [] g = "F5" -> AFN04H_05H(p)
    [] g = "F7" -> AFN04H_07H(p) [] g = "F8" -> AFN04H_08H(p) [] g = "F9" -> AFN04H_09H(p)
    [] g = "F16" -> AFN04H_16H(p) [] g = "F36" -> AFN04H_36H(p) [] g = "F89" -> AFN04H_89H(p)
    [] g = "F91" -> AFN04H_91H(p) [] g = "F153" -> AFN04H_153H(p) [] g = "F154" -> AFN04H_154H(p)
-----------------------------------------------------------------------------
(* The loaders, on the texts of the group's keys.                          *)

UpCommParaLoad(t) ==
  [RTS |-> atoi(t[1]), delay_time |-> atoi(t[2]), over_time |-> atoi(t[3]),
   over_times |-> atoi(t[4]), heart_beats |-> atoi(t[8]),
   confirm |-> Bit(atoi(t[5]), 1) + 2 * Bit(atoi(t[6]), 1) + 4 * Bit(atoi(t[7]), 1)]

MainStationInfoLoad(t) ==
  [IP_main |-> inet_addr(t[1]), Port_main |-> atoi(t[2]), IP_bak |-> inet_addr(t[3]),
   Port_bak |-> atoi(t[4]), APN |-> t[5].chars]

ConsCheInfoLoad(t) == [No |-> atoi(t[1]), Parameter |-> atoi(t[2])]

CirIpAndPortLoad(t) ==
  [termip |-> inet_addr(t[1]), netmask |-> inet_addr(t[2]), gateway |-> inet_addr(t[3]),
   proxytype |-> atoi(t[4]), proxyserverip |-> inet_addr(t[5]), proxyserverport |-> atoi(t[6]),
   connectway |-> atoi(t[7]), user |-> Copied(t[9], atoi(t[8])), pw |-> Copied(t[11], atoi(t[10])),
   listen_port |-> atoi(t[12])]

UpCommWorkWaysLoad(t) ==
  [ConnStartMode |-> atoi(t[1]), mode |-> atoi(t[2]), TcpUdp |-> atoi(t[3]),
   ReconnInterval |-> atoi(t[4]), MaxRetryCnt |-> atoi(t[5]), MaxIdleTime |-> atoi(t[6]),
   TimeSpan |-> << atoi(t[7]), atoi(t[8]), atoi(t[9]) >>]

EventParaLoad(t) ==
  [valid |-> [i \in 1 .. 2 |-> atoi(t[2 * i - 1])], rating |-> [i \in 1 .. 2 |-> atoi(t[2 * i])]]

VirtualNetLoad(t) == [VirUser |-> t[1].chars, VirPasswd |-> t[2].chars]
TermUpFluxLimitLoad(t) == atoi(t[1])
CircuitLogicAddrLoad(t) == [districtCode |-> atoi(t[1]), termAddr |-> atoi(t[2])]

(* The digits of a number in fields of four bits.  The tens of the degrees *)
(* are a tenth of them, not the last digit of it.                          *)
Digits(n) == << (n \div 10) % 16, n % 10 >>
Degrees(n) == << (n \div 100) % 16, (n \div 10) % 16, n % 10 >>

Number(t, i) == IF i <= Len(t.parts) THEN t.parts[i] ELSE 0
Power(n) == CASE n < 10 -> 10 [] n \in 10 .. 99 -> 100 [] OTHER -> 1000

(* The numbers of the latitude are read on to those of the longitude, tmp  *)
(* is not cleared in between.  The side is compared and then dropped.      *)
LocationLoad(t) ==
  LET first(i) == Number(t[1], i)
      both(i) == IF i <= Len(t[2].parts) THEN first(i) * Power(t[2].parts[i]) + t[2].parts[i]
                 ELSE first(i)
      fields(n(_)) == [deg |-> Degrees(n(1)), min |-> Digits(n(2)), sec |-> Digits(n(3)),
                       dec |-> Digits(n(4))]
  IN [longitude |-> fields(first), latitude |-> fields(both)]

(* The address is made of the text of phase C.                             *)
CurLoopParaLoad(t) ==
  [phase |-> << atoi(t[1]), atoi(t[2]), atoi(t[3]) >>, mac |-> inet_addr(t[3])]

TaRateParaLoad(t) ==
  [format |-> atoi(t[1]), trans |-> << atoi(t[2]), atoi(t[3]), atoi(t[4]) >>,
   mac |-> inet_addr(t[5])]

Loaded(g, t) ==
  CASE g = "F1" -> UpCommParaLoad(t) [] g = "F3" -> MainStationInfoLoad(t)
    [] g = "F5" -> ConsCheInfoLoad(t) [] g = "F7" -> CirIpAndPortLoad(t)
    [] g = "F8" -> UpCommWorkWaysLoad(t) [] g = "F9" -> EventParaLoad(t)
    [] g = "F16" -> VirtualNetLoad(t) [] g = "F36" -> TermUpFluxLimitLoad(t)
    [] g = "F89" -> CircuitLogicAddrLoad(t) [] g = "F91" -> LocationLoad(t)
    [] g = "F153" -> CurLoopParaLoad(t) [] g = "F154" -> TaRateParaLoad(t)
-----------------------------------------------------------------------------
VARIABLES
  file,      \* group -> key -> its text, of the keys that the file holds
  memory,    \* TermSysInfo: group -> <<its parameters>>, <<>> when zeroed
  set,       \* history: group -> <<what the station set last>>, <<>> for nothing
  erased,    \* the data files AFN01 has emptied since the last accepted AFN01
  commands   \* bound

vars == <<file, memory, set, erased, commands>>

(* GetFileDataGroup: all keys of the group, or none.                       *)
Load(f, g) ==
  LET keys == KeysOf[g] IN
  IF \A i \in DOMAIN keys : keys[i] \in DOMAIN f[g]
  THEN << Loaded(g, [i \in DOMAIN keys |-> f[g][keys[i]]]) >>
  ELSE <<>>

(* CircuitParaLoad.  LocationLoad does not clear the location.             *)
CircuitParaLoad(f, m) ==
  [g \in Group |->
     CASE g \notin AtBoot -> m[g]
       [] g = "F91" /\ Load(f, g) = <<>> -> m[g]
       [] OTHER -> Load(f, g)]

Nothing == [g \in Group |-> <<>>]

Init ==
  /\ file = [g \in Group |->
       IF g \in InFile THEN [k \in {KeysOf[g][i] : i \in DOMAIN KeysOf[g]} |-> Decimal(1)]
       ELSE [k \in {} |-> Decimal(1)]]
  /\ memory = CircuitParaLoad(file, Nothing)
  /\ set = Nothing
  /\ erased = {}
  /\ commands = 0

Count == commands < MaxCommands /\ commands' = commands + 1

(* The texts go to the first keys of the group.                            *)
Save(g, t) ==
  LET new == {KeysOf[g][i] : i \in DOMAIN t} IN
  [file EXCEPT ![g] =
     [k \in DOMAIN @ \union new |->
        IF k \in new THEN t[CHOOSE i \in DOMAIN t : KeysOf[g][i] = k] ELSE @[k]]]

(* Loading one group: LocationLoad (F91) clears the main station.          *)
Reload(m, f, g) ==
  IF g = "F91" THEN [m EXCEPT !["F3"] = <<>>, !["F91"] = IF Load(f, g) = <<>> THEN @ ELSE Load(f, g)]
  ELSE [m EXCEPT ![g] = Load(f, g)]

(* AFN04 Fn of one data unit.                                              *)
AFN_04H(g, p) ==
  /\ Count
  /\ g # "F154"
  /\ file' = Save(g, Texts(g, p))
  /\ memory' = Reload(memory, file', g)
  /\ set' = [set EXCEPT ![g] = <<p>>]
  /\ UNCHANGED erased

(* F154 counts one text too many for its own check.  F153 counts from an   *)
(* uninitialised index: it may find too many, too.                         *)
Refused(g) ==
  /\ Count
  /\ g \in {"F154", "F153"}
  /\ UNCHANGED <<file, memory, set, erased>>

(* AFN0A Fn.                                                               *)
Queried(g) == memory[g]

Files == <<"events", "flow", "current">>

(* AFN01 F2 and F3: the files are emptied one after the other until one    *)
(* fails; behind the last `ret = -1` ends both commands, before the        *)
(* initialisation is recorded and before F3 restores the parameters.       *)
AFN_01H ==
  /\ Count
  /\ \E n \in 1 .. Len(Files) : erased' = erased \union {Files[i] : i \in 1 .. n}
  /\ UNCHANGED <<file, memory, set>>

(* AFN01 F1 and AFN04 F10, the archives, answer with success and do        *)
(* nothing.                                                                *)
Unheeded ==
  /\ Count
  /\ UNCHANGED <<file, memory, set, erased>>

(* The terminal starts anew.                                               *)
TermParaPowerUp ==
  /\ Count
  /\ memory' = CircuitParaLoad(file, Nothing)
  /\ UNCHANGED <<file, set, erased>>

Next ==
  \/ \E g \in Group : Refused(g) \/ \E p \in Message[g] : AFN_04H(g, p)
  \/ AFN_01H \/ Unheeded \/ TermParaPowerUp

Spec == Init /\ [][Next]_vars
-----------------------------------------------------------------------------
(* What a group holds after p was set, where the code keeps it.            *)
Without(r, fields) == [f \in DOMAIN r \ fields |-> r[f]]

Same(g, m, p) ==
  CASE g = "F1" -> m = [p EXCEPT !.confirm = @ % 8]
    [] g = "F7" -> Without(m, {"listen_port"}) = Without(p, {"listen_port"})
    [] g = "F153" -> m.phase = p.phase
    [] OTHER -> m = p

(* The messages that the handlers and loaders do not carry over: a name or *)
(* password that fills its field or is left out, an invalid phase, and     *)
(* every location.                                                         *)
Carried(g, p) ==
  CASE g = "F7" -> p.user # <<>> /\ Len(p.user) < UserSize /\ Len(p.pw) < UserSize
    [] g = "F153" -> \A i \in 1 .. 3 : p.phase[i] < 2
    [] g = "F91" -> FALSE
    [] OTHER -> TRUE

(* AFN0A answers with what AFN04 has set, after whatever else was set and  *)
(* restarted in between: no handler, loader or restart loses a parameter   *)
(* or mixes up two.  F16 is not loaded at a start, and F91 leaves the main *)
(* station zero (para.c:36).                                               *)
QueriedIsSet ==
  \A g \in Group :
    set[g] # <<>> /\ Carried(g, set[g][1]) =>
      \/ Queried(g) # <<>> /\ Same(g, Queried(g)[1], set[g][1])
      \/ g \in {"F3", "F16"} /\ Queried(g) = <<>>
=============================================================================
