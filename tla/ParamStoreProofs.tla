--------------------------- MODULE ParamStoreProofs ---------------------------
(***************************************************************************)
(* Proofs about the terminal's parameters: as long as no two commands are  *)
(* in the file at the same time, the memory agrees with the file, and the  *)
(* file with what the station was told, between commands.                  *)
(*                                                                         *)
(* While one command has the file, what the file is going to be is in the  *)
(* command's buffer, or is the default file.  The invariant says of that   *)
(* text what the properties say of the file.                               *)
(*                                                                         *)
(* The last part is about the handlers of ParamHandlers, the data units    *)
(* themselves: what AFN0A answers is what AFN04 has set.                   *)
(***************************************************************************)
EXTENDS Parameters, SequenceTheorems, WellFoundedInduction, TLAPS

V == Val \union {Default}
Entry == [key : Key, val : V]
ValuesOf(g) == [1 .. Len(KeysOf[g]) -> V]

Complete(f) == f \in Seq(Entry) /\ \A g \in InDefault : GetGroup(f, g) # None

Label == {"idle", "unit", "open", "lock", "locked", "flush", "clear", "load", "answer",
          "f4read", "f4copy", "copied", "f4load", "f4save", "f4end"}

ChanType == [at : Label, cmd : {"none", "set", "F4"}, units : Seq(Unit), done : Seq(BOOLEAN),
             grp : Group, val : Seq(V) \union {None}, buf : Seq(Entry), ok : BOOLEAN]

TypeInv ==
    /\ init \in DefaultFiles
    /\ file \in Seq(Entry)
    /\ mem \in [Group -> Seq(V) \union {None}]
    /\ lock \in Channel \union {None}
    /\ chan \in [Channel -> ChanType]
    /\ believed \in [Group -> Seq(V) \union {None}]
    /\ last \in [Group -> Channel \union {None}]
    /\ mixed \in BOOLEAN /\ torn \in BOOLEAN

(* A command that has the new text in its buffer, one that has emptied the  *)
(* file, and AFN01 F4 while the main station is in its locals only.         *)
Holding(c) == chan[c].at \in {"open", "lock", "locked", "flush"}
Gap(c) == chan[c].at \in {"lock", "locked", "flush", "copied"}
Resetting(c) == chan[c].at \in {"copied", "f4load", "f4save"}

(* The unit of AFN04 that channel c is at.                                  *)
AtUnit(c) == chan[c].cmd = "set" /\ (Holding(c) \/ chan[c].at \in {"clear", "load"})
Current(c) == chan[c].units[Len(chan[c].done) + 1]

PhaseInv(c) ==
    /\ (chan[c].at = "idle") <=> (chan[c].cmd = "none")
    /\ chan[c].at \in {"unit", "clear", "load", "answer"} => chan[c].cmd = "set"
    /\ chan[c].at \in {"f4read", "f4copy", "copied", "f4load", "f4save", "f4end"} =>
         chan[c].cmd = "F4"
    /\ chan[c].cmd = "set" =>
         /\ Len(chan[c].done) <= Len(chan[c].units) /\ Len(chan[c].units) > 0
         /\ \A i \in DOMAIN chan[c].done :
              chan[c].done[i] = ~(chan[c].at = "answer" /\ i = Len(chan[c].done))
         /\ chan[c].at = "answer" => Len(chan[c].done) > 0
    /\ AtUnit(c) => /\ Len(chan[c].done) < Len(chan[c].units)
                    /\ Current(c) # Refused /\ chan[c].grp = Current(c).fn
    /\ chan[c].at \in {"f4copy", "copied", "f4load", "f4save"} => chan[c].val \in ValuesOf("F3")
    /\ (chan[c].at = "locked") <=> (lock = c)

(* One command at a time in the file, as long as none was there together    *)
(* with another; the file is complete or is just being replaced, or it was  *)
(* empty when the power failed.                                             *)
Alone == \A c, d \in Channel : Saving(c) /\ Saving(d) => c = d
Whole == \A c \in Channel : ~Gap(c)
Loaded == AtBoot \ {"F3"}
EmptySince ==
    /\ file = <<>> /\ torn
    /\ \A c \in Channel : ~Saving(c)
    /\ \A g \in Loaded : mem[g] = None

FileOf(c) ==
    /\ Holding(c) => chan[c].ok /\ Complete(chan[c].buf)
    /\ chan[c].at \in {"f4load", "f4save"} => file = init
    /\ chan[c].at = "f4copy" => chan[c].val = GetGroup(file, "F3")
    /\ chan[c].at \in {"f4copy", "copied", "f4load", "f4save"} =>
         \A g \in Group \ {"F3"} : last[g] = c
    /\ AtUnit(c) => chan[c].ok \/ torn

FileInv ==
    /\ Alone
    /\ ~Whole => file = <<>>
    /\ Whole => Complete(file) \/ EmptySince
    /\ \A c \in Channel : FileOf(c)

(* No command has its new text elsewhere than in the file.                  *)
InPlace == \A c \in Channel : ~Holding(c) /\ chan[c].at # "copied"

(* A group that a command is still going to load, and what the memory holds *)
(* of the others.                                                           *)
Pending(g) ==
    \E c \in Channel : \/ AtUnit(c) /\ chan[c].grp = g
                       \/ chan[c].at \in {"copied", "f4load"}

MemInv ==
    \A g \in Loaded : ~Pending(g) =>
        /\ \A c \in Channel : Holding(c) => mem[g] = GetGroup(chan[c].buf, g)
        /\ InPlace => mem[g] = GetGroup(file, g)

(* What the station is going to believe of group g: what the command that   *)
(* came to it last has set it to so far.                                    *)
Taken(c) == IF AtUnit(c) THEN Len(chan[c].done) + 1 ELSE Len(chan[c].done)
SetBy(c, g) ==
    {i \in 1 .. Taken(c) : /\ chan[c].units[i].fn = g
                           /\ i \in DOMAIN chan[c].done => chan[c].done[i]}
Reset(c, g) == chan[c].cmd = "F4" /\ chan[c].at \notin {"f4read", "f4copy"} /\ g # "F3"

Latest(S) == CHOOSE i \in S : \A j \in S : j <= i

LastSet(c, g) == All(g, chan[c].units[Latest(SetBy(c, g))].val)

HasSet(c, g) == chan[c].cmd = "set" /\ SetBy(c, g) # {}

ExpectedFrom(c, g) ==
    IF c \in Channel /\ HasSet(c, g) THEN LastSet(c, g)
    ELSE IF c \in Channel /\ Reset(c, g) THEN GetGroup(init, g)
    ELSE believed[g]
Expected(g) == ExpectedFrom(last[g], g)

(* AFN01 F4 has claimed the group and has not begun to write.               *)
Unsure(g) == g # "F3" /\ \E c \in Channel : chan[c].at = "f4copy"

BeliefInv ==
    \A g \in Group : ~Unsure(g) =>
        /\ \A c \in Channel :
             /\ Holding(c) => GetGroup(chan[c].buf, g) = Expected(g)
             /\ Resetting(c) /\ g = "F3" => chan[c].val = Expected(g)
        /\ InPlace /\ (g = "F3" => \A c \in Channel : ~Resetting(c)) =>
             GetGroup(file, g) = Expected(g)

ParamInv ==
    /\ TypeInv
    /\ \A c \in Channel : PhaseInv(c)
    /\ ~mixed => FileInv /\ MemInv
    /\ ~mixed /\ ~torn => BeliefInv

-----------------------------------------------------------------------------
(* The file.                                                                *)

\* A set of numbers that is not empty has a least one.
LEMMA LeastOf ==
  ASSUME NEW S \in SUBSET Nat, S # {}
  PROVE  \E m \in S : \A y \in S : m <= y
<1>1. PICK m \in S : \A y \in S : ~(<<y, m>> \in OpToRel(<, Nat))
  BY NatLessThanWellFounded, WFMin, Zenon
<1>2. \A y \in S : ~(y < m)
  BY <1>1 DEF OpToRel
<1>3. QED
  BY <1>2

\* The groups and their keys.
LEMMA Groups ==
  /\ Group = {"F1", "F3", "F7", "F16", "F91"}
  /\ KeysOf["F1"] = <<"CS_F1_TRANSDELAY", "CS_F1_TRANSDELAYMAX">>
  /\ KeysOf["F3"] = <<"CS_F3_IP1">> /\ KeysOf["F7"] = <<"CS_F7_IP">>
  /\ KeysOf["F16"] = <<"CS_F16_VIRUSER">> /\ KeysOf["F91"] = <<"CS_F91_LONGITUDE">>
BY DEF Group, KeysOf

LEMMA Lengths ==
  ASSUME NEW g \in Group
  PROVE  /\ Len(KeysOf[g]) = IF g = "F1" THEN 2 ELSE 1
         /\ 1 .. Len(KeysOf[g]) = IF g = "F1" THEN {1, 2} ELSE {1}
         /\ \A i \in 1 .. Len(KeysOf[g]) : KeysOf[g][i] \in Key
<1>1. 1 .. 1 = {1} /\ 1 .. 2 = {1, 2}
  OBVIOUS
<1>2. CASE g = "F1"
  <2>1. Len(KeysOf[g]) = 2
    BY <1>2, Groups
  <2>2. KeysOf[g][1] \in Key /\ KeysOf[g][2] \in Key
    BY <1>2, Groups DEF Key
  <2>3. QED
    BY <1>1, <1>2, <2>1, <2>2
<1>3. CASE g # "F1"
  <2>1. Len(KeysOf[g]) = 1
    BY <1>3, Groups
  <2>2. KeysOf[g][1] \in Key
    BY <1>3, Groups DEF Key
  <2>3. QED
    BY <1>1, <1>3, <2>1, <2>2
<1>4. QED
  BY <1>2, <1>3

\* The line that is found for a set of keys.
LEMMA FirstIsFirst ==
  ASSUME NEW f \in Seq(Entry), NEW keys, Has(f, keys)
  PROVE  /\ FirstOf(f, keys) \in DOMAIN f
         /\ f[FirstOf(f, keys)].key \in keys
         /\ \A j \in 1 .. FirstOf(f, keys) - 1 : f[j].key \notin keys
<1> DEFINE S == {i \in DOMAIN f : f[i].key \in keys}
<1>1. S \in SUBSET Nat /\ S # {}
  BY DEF Has
<1>2. PICK m \in S : \A y \in S : m <= y
  BY <1>1, LeastOf
<1>3. \A j \in 1 .. m - 1 : f[j].key \notin keys
  BY <1>2
<1>4. QED
  BY <1>2, <1>3 DEF FirstOf

\* The value of a key is that of any line with it that has none before it.
LEMMA GetKeyAt ==
  ASSUME NEW f \in Seq(Entry), NEW k, NEW i \in DOMAIN f, f[i].key = k,
         \A j \in 1 .. i - 1 : f[j].key # k
  PROVE  GetKey(f, k) = f[i].val
<1>1. Has(f, {k})
  BY DEF Has
<1> DEFINE m == FirstOf(f, {k})
<1>2. m \in DOMAIN f /\ f[m].key \in {k} /\ \A j \in 1 .. m - 1 : f[j].key \notin {k}
  BY <1>1, FirstIsFirst
<1> HIDE DEF m
<1>3. m = i
  BY <1>2
<1>4. QED
  BY <1>1, <1>3 DEF GetKey, m

LEMMA GetKeyNone ==
  ASSUME NEW f, NEW k, \A j \in DOMAIN f : f[j].key # k
  PROVE  GetKey(f, k) = None
BY DEF GetKey, Has

LEMMA GetKeyType ==
  ASSUME NEW f \in Seq(Entry), NEW k
  PROVE  /\ GetKey(f, k) \in V \union {None}
         /\ Has(f, {k}) => GetKey(f, k) \in V
<1>1. CASE Has(f, {k})
  <2>1. FirstOf(f, {k}) \in DOMAIN f
    BY <1>1, FirstIsFirst
  <2>2. f[FirstOf(f, {k})] \in Entry
    BY <2>1
  <2>3. QED
    BY <1>1, <2>2 DEF GetKey, Entry
<1>2. QED
  BY <1>1 DEF GetKey

\* What one round of the loop makes of the file.
LEMMA PutKeyType ==
  ASSUME NEW f \in Seq(Entry), NEW k \in Key, NEW v \in V
  PROVE  PutKey(f, k, v) \in Seq(Entry)
<1>1. Line(k, v) \in Entry
  BY DEF Line, Entry
<1>2. CASE Has(f, Containing(k))
  <2>1. FirstOf(f, Containing(k)) \in DOMAIN f
    BY <1>2, FirstIsFirst
  <2>2. QED
    BY <1>1, <1>2, <2>1 DEF PutKey
<1>3. QED
  BY <1>1, <1>2 DEF PutKey

LEMMA PutKeyLines ==
  ASSUME NEW f \in Seq(Entry), NEW k \in Key, NEW v \in V
  PROVE  \E i \in Nat \ {0} :
           LET h == PutKey(f, k, v) IN
           /\ h \in Seq(Entry) /\ i \in DOMAIN h /\ h[i] = Line(k, v)
           /\ Len(h) = IF i <= Len(f) THEN Len(f) ELSE Len(f) + 1
           /\ i <= Len(f) + 1
           /\ \A j \in 1 .. Len(f) : j # i => h[j] = f[j]
           /\ i <= Len(f) => f[i].key \in Containing(k)
           /\ \A j \in 1 .. i - 1 : f[j].key \notin Containing(k)
<1> DEFINE h == PutKey(f, k, v)
<1>0. h \in Seq(Entry)
  BY PutKeyType
<1>1. CASE Has(f, Containing(k))
  <2> DEFINE i == FirstOf(f, Containing(k))
  <2>1. i \in DOMAIN f /\ f[i].key \in Containing(k) /\ \A j \in 1 .. i - 1 : f[j].key \notin Containing(k)
    BY <1>1, FirstIsFirst
  <2>2. h = [f EXCEPT ![i] = Line(k, v)]
    BY <1>1 DEF PutKey
  <2> HIDE DEF i
  <2>3. Len(h) = Len(f) /\ h[i] = Line(k, v) /\ \A j \in 1 .. Len(f) : j # i => h[j] = f[j]
    BY <2>1, <2>2
  <2> HIDE DEF h
  <2>4. i \in Nat \ {0} /\ i <= Len(f) /\ i \in DOMAIN h
    BY <2>1, <2>3, <1>0
  <2>5. QED
    BY <1>0, <2>1, <2>3, <2>4 DEF h
<1>2. CASE ~Has(f, Containing(k))
  <2>1. h = Append(f, Line(k, v))
    BY <1>2 DEF PutKey
  <2>2. Len(h) = Len(f) + 1 /\ h[Len(f) + 1] = Line(k, v) /\ \A j \in 1 .. Len(f) : h[j] = f[j]
    BY <2>1
  <2>3. \A j \in 1 .. Len(f) : f[j].key \notin Containing(k)
    BY <1>2 DEF Has
  <2> HIDE DEF h
  <2>4. Len(f) + 1 \in Nat \ {0} /\ Len(f) + 1 \in DOMAIN h
    BY <2>2, <1>0
  <2>5. QED
    BY <1>0, <2>2, <2>3, <2>4 DEF h
<1>3. QED
  BY <1>1, <1>2

LEMMA PutKeyGets ==
  ASSUME NEW f \in Seq(Entry), NEW k \in Key, NEW v \in V
  PROVE  GetKey(PutKey(f, k, v), k) = v
<1> DEFINE h == PutKey(f, k, v)
<1>1. PICK i \in Nat \ {0} :
         /\ h \in Seq(Entry) /\ i \in DOMAIN h /\ h[i] = Line(k, v)
         /\ i <= Len(f) + 1
         /\ \A j \in 1 .. Len(f) : j # i => h[j] = f[j]
         /\ \A j \in 1 .. i - 1 : f[j].key \notin Containing(k)
  BY PutKeyLines, Zenon
<1> HIDE DEF h
<1>2. k \in Containing(k)
  BY DEF Containing
<1>3. \A j \in 1 .. i - 1 : h[j].key # k
  BY <1>1, <1>2
<1>4. h[i].key = k /\ h[i].val = v
  BY <1>1 DEF Line
<1>5. GetKey(h, k) = h[i].val
  BY <1>1, <1>3, <1>4, GetKeyAt
<1>6. QED
  BY <1>4, <1>5 DEF h

\* Only a key whose name contains that of the key that is put can suffer.
LEMMA PutKeyKeeps ==
  ASSUME NEW f \in Seq(Entry), NEW k \in Key, NEW v \in V, NEW other, other \notin Containing(k)
  PROVE  GetKey(PutKey(f, k, v), other) = GetKey(f, other)
<1> DEFINE h == PutKey(f, k, v)
<1>1. PICK i \in Nat \ {0} :
         /\ h \in Seq(Entry) /\ i \in DOMAIN h /\ h[i] = Line(k, v)
         /\ Len(h) = IF i <= Len(f) THEN Len(f) ELSE Len(f) + 1
         /\ i <= Len(f) + 1
         /\ \A j \in 1 .. Len(f) : j # i => h[j] = f[j]
         /\ i <= Len(f) => f[i].key \in Containing(k)
  BY PutKeyLines, Zenon
<1> HIDE DEF h
<1>2. other # k
  BY DEF Containing
<1>3. h[i].key # other
  BY <1>1, <1>2 DEF Line
<1>4. CASE Has(f, {other})
  <2> DEFINE m == FirstOf(f, {other})
  <2>0. m \in DOMAIN f /\ f[m].key \in {other} /\ \A j \in 1 .. m - 1 : f[j].key \notin {other}
    BY <1>4, FirstIsFirst
  <2> HIDE DEF m
  <2>1. m \in DOMAIN f /\ f[m].key = other /\ \A j \in 1 .. m - 1 : f[j].key # other
    BY <2>0
  <2>2. m # i
    BY <1>1, <2>1
  <2>3. m \in DOMAIN h /\ h[m] = f[m]
    BY <1>1, <2>1, <2>2
  <2>4. \A j \in 1 .. m - 1 : h[j].key # other
    BY <1>1, <1>3, <2>1
  <2>5. GetKey(h, other) = h[m].val
    BY <1>1, <2>1, <2>3, <2>4, GetKeyAt
  <2>6. GetKey(f, other) = f[m].val
    BY <2>1, GetKeyAt
  <2>7. QED
    BY <2>3, <2>5, <2>6 DEF h
<1>5. CASE ~Has(f, {other})
  <2>1. \A j \in DOMAIN f : f[j].key # other
    BY <1>5 DEF Has
  <2>2. \A j \in DOMAIN h : h[j].key # other
    BY <1>1, <1>3, <2>1
  <2>3. GetKey(h, other) = None /\ GetKey(f, other) = None
    BY <2>1, <2>2, GetKeyNone
  <2>4. QED
    BY <2>3 DEF h
<1>6. QED
  BY <1>4, <1>5

(* Groups of keys.                                                          *)
LEMMA NoneIsNoValue ==
  /\ \A g \in Group : ValuesOf(g) \subseteq Seq(V) /\ None \notin ValuesOf(g)
  /\ None \notin V /\ None \notin Seq(V) /\ None \notin Channel
<1>1. None \notin V /\ None \notin Seq(V) /\ None \notin Channel
  BY ParamAssumption DEF V
<1>2. ASSUME NEW g \in Group PROVE ValuesOf(g) \subseteq Seq(V)
  <2>1. Len(KeysOf[g]) \in Nat
    BY Lengths
  <2> HIDE DEF V
  <2>2. QED
    BY <2>1 DEF ValuesOf
<1>3. QED
  BY <1>1, <1>2

LEMMA AllType ==
  ASSUME NEW g \in Group, NEW v \in V
  PROVE  All(g, v) \in ValuesOf(g)
BY DEF All, ValuesOf

LEMMA GetGroupWhole ==
  ASSUME NEW f, NEW g \in Group, NEW vs \in ValuesOf(g),
         \A i \in 1 .. Len(KeysOf[g]) : GetKey(f, KeysOf[g][i]) = vs[i]
  PROVE  GetGroup(f, g) = vs
<1> DEFINE ws == [i \in 1 .. Len(KeysOf[g]) |-> GetKey(f, KeysOf[g][i])]
<1>1. ws = vs
  BY DEF ValuesOf
<1>2. \A i \in 1 .. Len(KeysOf[g]) : vs[i] # None
  <2> HIDE DEF V
  <2>1. \A i \in 1 .. Len(KeysOf[g]) : vs[i] \in V
    BY DEF ValuesOf
  <2>2. QED
    BY <2>1, NoneIsNoValue
<1>3. DOMAIN ws = 1 .. Len(KeysOf[g])
  OBVIOUS
<1> HIDE DEF ws
<1>4. ~\E i \in DOMAIN ws : ws[i] = None
  BY <1>1, <1>2, <1>3
<1>5. QED
  BY <1>1, <1>4 DEF GetGroup, ws

LEMMA GetGroupNone ==
  ASSUME NEW f, NEW g \in Group, NEW i \in 1 .. Len(KeysOf[g]), GetKey(f, KeysOf[g][i]) = None
  PROVE  GetGroup(f, g) = None
BY DEF GetGroup

LEMMA GetGroupSame ==
  ASSUME NEW f, NEW h, NEW g \in Group,
         \A i \in 1 .. Len(KeysOf[g]) : GetKey(h, KeysOf[g][i]) = GetKey(f, KeysOf[g][i])
  PROVE  GetGroup(h, g) = GetGroup(f, g)
<1>1. [i \in 1 .. Len(KeysOf[g]) |-> GetKey(h, KeysOf[g][i])]
      = [i \in 1 .. Len(KeysOf[g]) |-> GetKey(f, KeysOf[g][i])]
  OBVIOUS
<1>2. QED
  BY <1>1, Zenon DEF GetGroup

LEMMA GetGroupType ==
  ASSUME NEW f \in Seq(Entry), NEW g \in Group
  PROVE  GetGroup(f, g) \in ValuesOf(g) \union {None}
<1> DEFINE ws == [i \in 1 .. Len(KeysOf[g]) |-> GetKey(f, KeysOf[g][i])]
<1>1. CASE \E i \in DOMAIN ws : ws[i] = None
  BY <1>1 DEF GetGroup
<1>2. CASE ~\E i \in DOMAIN ws : ws[i] = None
  <2>1. \A i \in 1 .. Len(KeysOf[g]) : GetKey(f, KeysOf[g][i]) \in V \union {None}
    BY GetKeyType
  <2>2. ws \in ValuesOf(g)
    BY <1>2, <2>1 DEF ValuesOf
  <2>3. GetGroup(f, g) = ws
    BY <1>2, Zenon DEF GetGroup
  <2>4. QED
    BY <2>2, <2>3
<1>3. QED
  BY <1>1, <1>2

LEMMA EmptyHasNothing ==
  ASSUME NEW f, f = <<>>, NEW g \in Group
  PROVE  GetGroup(f, g) = None
<1>1. \A j \in DOMAIN f : f[j].key # KeysOf[g][1]
  OBVIOUS
<1>2. GetKey(f, KeysOf[g][1]) = None
  BY <1>1, GetKeyNone
<1>3. 1 \in 1 .. Len(KeysOf[g])
  BY Lengths
<1>4. QED
  BY <1>2, <1>3, GetGroupNone

\* SaveConfMultiGroup as one round of its loop, or two.
LEMMA PutGroupIs ==
  ASSUME NEW f, NEW g \in Group, NEW vs
  PROVE  PutGroup(f, g, vs) =
           LET once == PutKey(f, KeysOf[g][1], vs[1]) IN
           IF g = "F1" THEN PutKey(once, KeysOf[g][2], vs[2]) ELSE once
<1> DEFINE L == Len(KeysOf[g])
           once == PutKey(f, KeysOf[g][1], vs[1])
           twice == PutKey(once, KeysOf[g][2], vs[2])
           p == [n \in 0 .. L |-> IF n = 0 THEN f ELSE IF n = 1 THEN once ELSE twice]
           Is(q) == q = [n \in 0 .. L |-> IF n = 0 THEN f ELSE PutKey(q[n - 1], KeysOf[g][n], vs[n])]
           put == CHOOSE q : Is(q)
<1>1. L = IF g = "F1" THEN 2 ELSE 1
  BY Lengths
<1>2. Is(p)
  <2> DEFINE Round(n) == IF n = 0 THEN f ELSE PutKey(p[n - 1], KeysOf[g][n], vs[n])
  <2>1. p[0] = f /\ p[1] = once
    BY <1>1
  <2>2. \A n \in 0 .. L : p[n] = Round(n)
    <3> SUFFICES ASSUME NEW n \in 0 .. L PROVE p[n] = Round(n)
      OBVIOUS
    <3>1. n = 0 \/ n = 1 \/ n = 2
      BY <1>1
    <3>2. CASE n = 0
      BY <3>2
    <3>3. CASE n = 1
      <4>1. p[n - 1] = f
        BY <2>1, <3>3
      <4>2. Round(n) = PutKey(p[n - 1], KeysOf[g][n], vs[n])
        BY <3>3
      <4>3. QED
        BY <2>1, <3>3, <4>1, <4>2
    <3>4. CASE n = 2
      <4>1. p[n - 1] = once
        BY <2>1, <3>4
      <4>2. Round(n) = PutKey(p[n - 1], KeysOf[g][n], vs[n])
        BY <3>4
      <4>3. p[n] = twice
        BY <3>4
      <4>4. QED
        BY <3>4, <4>1, <4>2, <4>3
    <3>5. QED
      BY <3>1, <3>2, <3>3, <3>4
  <2>3. p = [n \in 0 .. L |-> p[n]]
    OBVIOUS
  <2> HIDE DEF p, L
  <2>4. QED
    BY <2>2, <2>3
<1>3. Is(put)
  <2> HIDE DEF p, Is
  <2>1. QED
    BY <1>2, Zenon
<1>4. PutGroup(f, g, vs) = put[L]
  BY DEF PutGroup
<1> HIDE DEF put, p
<1>5. put[0] = f /\ put[1] = PutKey(put[0], KeysOf[g][1], vs[1])
  BY <1>1, <1>3
<1>6. CASE g = "F1"
  <2>1. L = 2
    BY <1>1, <1>6
  <2>2. put[2] = PutKey(put[1], KeysOf[g][2], vs[2])
    BY <1>3, <2>1
  <2>3. QED
    BY <1>4, <1>5, <1>6, <2>1, <2>2
<1>7. CASE g # "F1"
  BY <1>1, <1>4, <1>5, <1>7
<1>8. QED
  BY <1>6, <1>7

\* What is saved is what is read; the other groups are left alone.
LEMMA PutGroupGets ==
  ASSUME NEW f \in Seq(Entry), NEW g \in Group, NEW vs \in ValuesOf(g)
  PROVE  /\ PutGroup(f, g, vs) \in Seq(Entry)
         /\ GetGroup(PutGroup(f, g, vs), g) = vs
         /\ \A o \in Group \ {g} : GetGroup(PutGroup(f, g, vs), o) = GetGroup(f, o)
<1> DEFINE k1 == KeysOf[g][1]
           once == PutKey(f, k1, vs[1])
<1>1. k1 \in Key /\ vs[1] \in V
  BY Lengths DEF ValuesOf
<1>2. once \in Seq(Entry) /\ GetKey(once, k1) = vs[1]
  BY <1>1, PutKeyType, PutKeyGets
<1>3. \A o : o \notin Containing(k1) => GetKey(once, o) = GetKey(f, o)
  BY <1>1, PutKeyKeeps
<1>4. \A o \in Group \ {g} : \A i \in 1 .. Len(KeysOf[o]) :
         /\ KeysOf[o][i] \notin Containing(k1)
         /\ g = "F1" => KeysOf[o][i] \notin Containing(KeysOf[g][2])
  <2> SUFFICES ASSUME NEW o \in Group \ {g}, NEW i \in 1 .. Len(KeysOf[o])
               PROVE  /\ KeysOf[o][i] \notin Containing(k1)
                      /\ g = "F1" => KeysOf[o][i] \notin Containing(KeysOf[g][2])
    OBVIOUS
  <2>1. i \in IF o = "F1" THEN {1, 2} ELSE {1}
    BY Lengths
  <2>2. CASE g = "F1"
    <3>1. o # "F1" /\ i = 1
      BY <2>1, <2>2
    <3>2. Containing(k1) = {"CS_F1_TRANSDELAY", "CS_F1_TRANSDELAYMAX"}
          /\ Containing(KeysOf[g][2]) = {"CS_F1_TRANSDELAYMAX"}
      BY <2>2, Groups DEF Containing
    <3>3. KeysOf[o][1] \notin {"CS_F1_TRANSDELAY", "CS_F1_TRANSDELAYMAX"}
      BY <3>1, Groups
    <3>4. QED
      BY <3>1, <3>2, <3>3
  <2>3. CASE g # "F1"
    <3>1. Containing(k1) = {k1}
      BY <2>3, Groups DEF Containing
    <3>2. KeysOf[o][i] # k1
      BY <2>1, <2>3, Groups
    <3>3. QED
      BY <2>3, <3>1, <3>2
  <2>4. QED
    BY <2>2, <2>3
<1>5. CASE g # "F1"
  <2>1. PutGroup(f, g, vs) = once
    BY <1>5, PutGroupIs
  <2>2. \A i \in 1 .. Len(KeysOf[g]) : GetKey(once, KeysOf[g][i]) = vs[i]
    BY <1>2, <1>5, Lengths
  <2> HIDE DEF once
  <2>3. GetGroup(once, g) = vs
    BY <2>2, GetGroupWhole
  <2>4. \A o \in Group \ {g} : GetGroup(once, o) = GetGroup(f, o)
    BY <1>3, <1>4, GetGroupSame
  <2>5. QED
    BY <1>2, <2>1, <2>3, <2>4
<1>6. CASE g = "F1"
  <2> DEFINE k2 == KeysOf[g][2]
             twice == PutKey(once, k2, vs[2])
  <2>1. k2 \in Key /\ vs[2] \in V /\ k1 \notin Containing(k2)
    <3>1. k1 = "CS_F1_TRANSDELAY" /\ k2 = "CS_F1_TRANSDELAYMAX"
      BY <1>6, Groups
    <3>2. vs[2] \in V
      BY <1>6, Lengths DEF ValuesOf
    <3>3. QED
      BY <3>1, <3>2 DEF Key, Containing
  <2>2. PutGroup(f, g, vs) = twice
    BY <1>6, PutGroupIs
  <2> HIDE DEF once, k1, k2
  <2>3. twice \in Seq(Entry) /\ GetKey(twice, k2) = vs[2]
    BY <1>2, <2>1, PutKeyType, PutKeyGets
  <2>4. \A o : o \notin Containing(k2) => GetKey(twice, o) = GetKey(once, o)
    BY <1>2, <2>1, PutKeyKeeps
  <2> HIDE DEF twice
  <2>5. GetKey(twice, k1) = vs[1]
    BY <1>2, <2>1, <2>4
  <2>6. \A i \in 1 .. Len(KeysOf[g]) : GetKey(twice, KeysOf[g][i]) = vs[i]
    BY <1>6, <2>3, <2>5, Lengths DEF k1, k2
  <2>7. GetGroup(twice, g) = vs
    BY <2>6, GetGroupWhole
  <2>8. \A o \in Group \ {g} : \A i \in 1 .. Len(KeysOf[o]) :
           GetKey(twice, KeysOf[o][i]) = GetKey(f, KeysOf[o][i])
    BY <1>3, <1>4, <1>6, <2>4 DEF k1, k2
  <2>9. \A o \in Group \ {g} : GetGroup(twice, o) = GetGroup(f, o)
    BY <2>8, GetGroupSame
  <2>10. QED
    BY <2>2, <2>3, <2>7, <2>9
<1>7. QED
  BY <1>5, <1>6

LEMMA PutGroupComplete ==
  ASSUME NEW f, Complete(f), NEW g \in Group, NEW vs \in ValuesOf(g)
  PROVE  Complete(PutGroup(f, g, vs))
<1>1. f \in Seq(Entry)
  BY DEF Complete
<1>2. /\ PutGroup(f, g, vs) \in Seq(Entry)
      /\ GetGroup(PutGroup(f, g, vs), g) = vs
      /\ \A o \in Group \ {g} : GetGroup(PutGroup(f, g, vs), o) = GetGroup(f, o)
  BY <1>1, PutGroupGets
<1>3. vs # None
  BY NoneIsNoValue
<1>4. QED
  BY <1>2, <1>3 DEF Complete, InDefault

LEMMA OverwriteEmpty ==
  ASSUME NEW f, f = <<>>, NEW text \in Seq(Entry)
  PROVE  Overwrite(f, text) = text
<1>1. Len(f) = 0
  OBVIOUS
<1>2. SubSeq(f, Len(text) + 1, Len(f)) = <<>>
  BY <1>1
<1>3. QED
  BY <1>2 DEF Overwrite

\* The default file has every group but F16.
LEMMA HasAllComplete ==
  ASSUME NEW f \in Seq(Entry),
         \A k \in Key \ {"CS_F16_VIRUSER"} : \E i \in DOMAIN f : f[i].key = k
  PROVE  Complete(f)
<1>1. \A k \in Key \ {"CS_F16_VIRUSER"} : GetKey(f, k) \in V
  BY GetKeyType DEF Has
<1>2. ASSUME NEW g \in InDefault PROVE GetGroup(f, g) # None
  <2>1. g \in Group /\ g # "F16"
    BY <1>2 DEF InDefault
  <2>2. \A i \in 1 .. Len(KeysOf[g]) : KeysOf[g][i] \in Key \ {"CS_F16_VIRUSER"}
    <3> TAKE i \in 1 .. Len(KeysOf[g])
    <3>1. i \in IF g = "F1" THEN {1, 2} ELSE {1}
      BY <2>1, Lengths
    <3>2. QED
      BY <2>1, <3>1, Groups DEF Key
  <2> DEFINE ws == [i \in 1 .. Len(KeysOf[g]) |-> GetKey(f, KeysOf[g][i])]
  <2>3. ws \in ValuesOf(g)
    BY <1>1, <2>2 DEF ValuesOf
  <2>4. \A i \in 1 .. Len(KeysOf[g]) : GetKey(f, KeysOf[g][i]) = ws[i]
    OBVIOUS
  <2> HIDE DEF ws
  <2>5. GetGroup(f, g) = ws
    BY <2>1, <2>3, <2>4, GetGroupWhole
  <2>6. QED
    BY <2>1, <2>3, <2>5, NoneIsNoValue
<1>3. QED
  BY <1>2 DEF Complete

LEMMA DefaultIsComplete ==
  ASSUME NEW f \in DefaultFiles
  PROVE  f \in Seq(Entry) /\ f # <<>> /\ Complete(f)
<1>1. Default \in V
  BY DEF V
<1>2. \A k \in Key : Line(k, Default) \in Entry /\ Line(k, Default).key = k
  BY <1>1 DEF Line, Entry
<1>3. /\ "CS_F3_IP1" \in Key /\ "CS_F1_TRANSDELAY" \in Key /\ "CS_F1_TRANSDELAYMAX" \in Key
      /\ "CS_F7_IP" \in Key /\ "CS_F91_LONGITUDE" \in Key
  BY DEF Key
<1>4. PICK a, b, c, d, e \in Entry : f = <<a, b, c, d, e>>
        /\ {a.key, b.key, c.key, d.key, e.key} = Key \ {"CS_F16_VIRUSER"}
  <2> DEFINE L(k) == Line(k, Default)
  <2>1. {"CS_F3_IP1", "CS_F1_TRANSDELAY", "CS_F1_TRANSDELAYMAX", "CS_F7_IP", "CS_F91_LONGITUDE"}
        = Key \ {"CS_F16_VIRUSER"}
    BY DEF Key
  <2>2. \/ f = <<L("CS_F3_IP1"), L("CS_F1_TRANSDELAY"), L("CS_F1_TRANSDELAYMAX"), L("CS_F7_IP"),
                 L("CS_F91_LONGITUDE")>>
        \/ f = <<L("CS_F1_TRANSDELAYMAX"), L("CS_F1_TRANSDELAY"), L("CS_F91_LONGITUDE"), L("CS_F7_IP"),
                 L("CS_F3_IP1")>>
    BY DEF DefaultFiles
  <2>3. \A k \in Key : L(k) \in Entry /\ L(k).key = k
    BY <1>2
  <2> HIDE DEF L
  <2>4. CASE f = <<L("CS_F3_IP1"), L("CS_F1_TRANSDELAY"), L("CS_F1_TRANSDELAYMAX"), L("CS_F7_IP"),
                 L("CS_F91_LONGITUDE")>>
    BY <1>3, <2>1, <2>3, <2>4
  <2>5. CASE f = <<L("CS_F1_TRANSDELAYMAX"), L("CS_F1_TRANSDELAY"), L("CS_F91_LONGITUDE"), L("CS_F7_IP"),
                 L("CS_F3_IP1")>>
    BY <1>3, <2>1, <2>3, <2>5
  <2>6. QED
    BY <2>2, <2>4, <2>5
<1>5. f \in Seq(Entry) /\ f # <<>> /\ DOMAIN f = 1 .. 5
  BY <1>4
<1>6. \A k \in Key \ {"CS_F16_VIRUSER"} : \E i \in DOMAIN f : f[i].key = k
  <2> TAKE k \in Key \ {"CS_F16_VIRUSER"}
  <2>1. f[1] = a /\ f[2] = b /\ f[3] = c /\ f[4] = d /\ f[5] = e
    BY <1>4
  <2>2. k = a.key \/ k = b.key \/ k = c.key \/ k = d.key \/ k = e.key
    BY <1>4
  <2>3. QED
    BY <1>5, <2>1, <2>2
<1>7. QED
  BY <1>5, <1>6, HasAllComplete

-----------------------------------------------------------------------------
(* What an action makes of the record of its channel.                       *)

Others(c) ==
    /\ chan' \in [Channel -> ChanType]
    /\ \A d \in Channel \ {c} : chan'[d] = chan[d]

\* The command stays where it is in its frame.
SamePlace(c) ==
    /\ chan'[c].cmd = chan[c].cmd /\ chan'[c].units = chan[c].units
    /\ chan'[c].done = chan[c].done

SameRest(c) ==
    /\ SamePlace(c)
    /\ chan'[c].grp = chan[c].grp /\ chan'[c].val = chan[c].val
    /\ chan'[c].buf = chan[c].buf /\ chan'[c].ok = chan[c].ok

LEMMA Fields ==
  ASSUME NEW r \in ChanType
  PROVE  /\ r.at \in Label /\ r.cmd \in {"none", "set", "F4"} /\ r.units \in Seq(Unit)
         /\ r.done \in Seq(BOOLEAN) /\ r.grp \in Group /\ r.val \in Seq(V) \union {None}
         /\ r.buf \in Seq(Entry) /\ r.ok \in BOOLEAN
         /\ r = [at |-> r.at, cmd |-> r.cmd, units |-> r.units, done |-> r.done, grp |-> r.grp,
                 val |-> r.val, buf |-> r.buf, ok |-> r.ok]
<1> HIDE DEF Unit, V, Entry, Label, Group
<1>1. QED
  BY DEF ChanType

LEMMA ChanStep ==
  ASSUME chan \in [Channel -> ChanType], NEW c \in Channel, NEW r \in ChanType,
         chan' = [chan EXCEPT ![c] = r]
  PROVE  Others(c) /\ chan'[c] = r
<1> HIDE DEF ChanType
<1>1. QED
  BY DEF Others

LEMMA Moved ==
  ASSUME chan \in [Channel -> ChanType], NEW c \in Channel, NEW a \in Label, Move(c, a)
  PROVE  Others(c) /\ chan'[c].at = a /\ SameRest(c)
<1> DEFINE r == chan[c]
           n == [r EXCEPT !.at = a]
<1>1. r \in ChanType
  OBVIOUS
<1>2. chan' = [chan EXCEPT ![c] = n]
  BY DEF Move
<1> HIDE DEF r
<1>3. PICK b \in Label, x1 \in {"none", "set", "F4"}, x2 \in Seq(Unit), x3 \in Seq(BOOLEAN),
           x4 \in Group, x5 \in Seq(V) \union {None}, x6 \in Seq(Entry), x7 \in BOOLEAN :
         r = [at |-> b, cmd |-> x1, units |-> x2, done |-> x3, grp |-> x4,
              val |-> x5, buf |-> x6, ok |-> x7]
  BY <1>1, Fields
<1>4. n = [at |-> a, cmd |-> x1, units |-> x2, done |-> x3, grp |-> x4,
              val |-> x5, buf |-> x6, ok |-> x7]
  BY <1>3
<1> HIDE DEF n, Unit, V, Entry, Label, Group
<1>5. n \in ChanType
  BY <1>4 DEF ChanType
<1>6. /\ n.at = a /\ n.cmd = r.cmd /\ n.units = r.units /\ n.done = r.done /\ n.grp = r.grp
      /\ n.val = r.val /\ n.buf = r.buf /\ n.ok = r.ok
  BY <1>3, <1>4
<1>7. Others(c) /\ chan'[c] = n
  BY <1>2, <1>5, ChanStep
<1>8. QED
  BY <1>6, <1>7 DEF SameRest, SamePlace, r

\* No text at all is a text.
LEMMA EmptyText == <<>> \in Seq(Entry)
  OBVIOUS

\* One field of the record at a time.
LEMMA Set_at ==
  ASSUME NEW r \in ChanType, NEW y \in Label
  PROVE  LET n == [r EXCEPT !.at = y] IN
         /\ n \in ChanType /\ n.at = y
         /\ n.cmd = r.cmd /\ n.units = r.units /\ n.done = r.done /\ n.grp = r.grp
         /\ n.val = r.val /\ n.buf = r.buf /\ n.ok = r.ok
<1>1. PICK b \in Label, x1 \in {"none", "set", "F4"}, x2 \in Seq(Unit), x3 \in Seq(BOOLEAN),
           x4 \in Group, x5 \in Seq(V) \union {None}, x6 \in Seq(Entry), x7 \in BOOLEAN :
         r = [at |-> b, cmd |-> x1, units |-> x2, done |-> x3, grp |-> x4,
              val |-> x5, buf |-> x6, ok |-> x7]
  BY Fields
<1> DEFINE n == [r EXCEPT !.at = y]
<1>2. n = [at |-> y, cmd |-> x1, units |-> x2, done |-> x3, grp |-> x4,
              val |-> x5, buf |-> x6, ok |-> x7]
  <2> HIDE DEF Unit, V, Entry, Label, Group
  <2>1. n = [[at |-> b, cmd |-> x1, units |-> x2, done |-> x3, grp |-> x4,
              val |-> x5, buf |-> x6, ok |-> x7] EXCEPT !.at = y]
    BY <1>1, Zenon
  <2>2. [[at |-> b, cmd |-> x1, units |-> x2, done |-> x3, grp |-> x4,
              val |-> x5, buf |-> x6, ok |-> x7] EXCEPT !.at = y]
        = [at |-> y, cmd |-> x1, units |-> x2, done |-> x3, grp |-> x4,
              val |-> x5, buf |-> x6, ok |-> x7]
    BY SMTT(60)
  <2>3. QED
    BY <2>1, <2>2, Zenon
<1> HIDE DEF n, Unit, V, Entry, Label, Group
<1>3. n \in ChanType
  BY <1>2 DEF ChanType
<1>4. n.at = y
      /\ n.cmd = r.cmd /\ n.units = r.units /\ n.done = r.done /\ n.grp = r.grp /\ n.val = r.val /\ n.buf = r.buf /\ n.ok = r.ok
  BY <1>1, <1>2
<1>5. QED
  BY <1>3, <1>4 DEF n

LEMMA Set_cmd ==
  ASSUME NEW r \in ChanType, NEW y \in {"none", "set", "F4"}
  PROVE  LET n == [r EXCEPT !.cmd = y] IN
         /\ n \in ChanType /\ n.cmd = y
         /\ n.at = r.at /\ n.units = r.units /\ n.done = r.done /\ n.grp = r.grp
         /\ n.val = r.val /\ n.buf = r.buf /\ n.ok = r.ok
<1>1. PICK b \in Label, x1 \in {"none", "set", "F4"}, x2 \in Seq(Unit), x3 \in Seq(BOOLEAN),
           x4 \in Group, x5 \in Seq(V) \union {None}, x6 \in Seq(Entry), x7 \in BOOLEAN :
         r = [at |-> b, cmd |-> x1, units |-> x2, done |-> x3, grp |-> x4,
              val |-> x5, buf |-> x6, ok |-> x7]
  BY Fields
<1> DEFINE n == [r EXCEPT !.cmd = y]
<1>2. n = [at |-> b, cmd |-> y, units |-> x2, done |-> x3, grp |-> x4,
              val |-> x5, buf |-> x6, ok |-> x7]
  <2> HIDE DEF Unit, V, Entry, Label, Group
  <2>1. n = [[at |-> b, cmd |-> x1, units |-> x2, done |-> x3, grp |-> x4,
              val |-> x5, buf |-> x6, ok |-> x7] EXCEPT !.cmd = y]
    BY <1>1, Zenon
  <2>2. [[at |-> b, cmd |-> x1, units |-> x2, done |-> x3, grp |-> x4,
              val |-> x5, buf |-> x6, ok |-> x7] EXCEPT !.cmd = y]
        = [at |-> b, cmd |-> y, units |-> x2, done |-> x3, grp |-> x4,
              val |-> x5, buf |-> x6, ok |-> x7]
    BY SMTT(60)
  <2>3. QED
    BY <2>1, <2>2, Zenon
<1> HIDE DEF n, Unit, V, Entry, Label, Group
<1>3. n \in ChanType
  BY <1>2 DEF ChanType
<1>4. n.cmd = y
      /\ n.at = r.at /\ n.units = r.units /\ n.done = r.done /\ n.grp = r.grp /\ n.val = r.val /\ n.buf = r.buf /\ n.ok = r.ok
  BY <1>1, <1>2
<1>5. QED
  BY <1>3, <1>4 DEF n

LEMMA Set_units ==
  ASSUME NEW r \in ChanType, NEW y \in Seq(Unit)
  PROVE  LET n == [r EXCEPT !.units = y] IN
         /\ n \in ChanType /\ n.units = y
         /\ n.at = r.at /\ n.cmd = r.cmd /\ n.done = r.done /\ n.grp = r.grp
         /\ n.val = r.val /\ n.buf = r.buf /\ n.ok = r.ok
<1>1. PICK b \in Label, x1 \in {"none", "set", "F4"}, x2 \in Seq(Unit), x3 \in Seq(BOOLEAN),
           x4 \in Group, x5 \in Seq(V) \union {None}, x6 \in Seq(Entry), x7 \in BOOLEAN :
         r = [at |-> b, cmd |-> x1, units |-> x2, done |-> x3, grp |-> x4,
              val |-> x5, buf |-> x6, ok |-> x7]
  BY Fields
<1> DEFINE n == [r EXCEPT !.units = y]
<1>2. n = [at |-> b, cmd |-> x1, units |-> y, done |-> x3, grp |-> x4,
              val |-> x5, buf |-> x6, ok |-> x7]
  <2> HIDE DEF Unit, V, Entry, Label, Group
  <2>1. n = [[at |-> b, cmd |-> x1, units |-> x2, done |-> x3, grp |-> x4,
              val |-> x5, buf |-> x6, ok |-> x7] EXCEPT !.units = y]
    BY <1>1, Zenon
  <2>2. [[at |-> b, cmd |-> x1, units |-> x2, done |-> x3, grp |-> x4,
              val |-> x5, buf |-> x6, ok |-> x7] EXCEPT !.units = y]
        = [at |-> b, cmd |-> x1, units |-> y, done |-> x3, grp |-> x4,
              val |-> x5, buf |-> x6, ok |-> x7]
    BY SMTT(60)
  <2>3. QED
    BY <2>1, <2>2, Zenon
<1> HIDE DEF n, Unit, V, Entry, Label, Group
<1>3. n \in ChanType
  BY <1>2 DEF ChanType
<1>4. n.units = y
      /\ n.at = r.at /\ n.cmd = r.cmd /\ n.done = r.done /\ n.grp = r.grp /\ n.val = r.val /\ n.buf = r.buf /\ n.ok = r.ok
  BY <1>1, <1>2
<1>5. QED
  BY <1>3, <1>4 DEF n

LEMMA Set_done ==
  ASSUME NEW r \in ChanType, NEW y \in Seq(BOOLEAN)
  PROVE  LET n == [r EXCEPT !.done = y] IN
         /\ n \in ChanType /\ n.done = y
         /\ n.at = r.at /\ n.cmd = r.cmd /\ n.units = r.units /\ n.grp = r.grp
         /\ n.val = r.val /\ n.buf = r.buf /\ n.ok = r.ok
<1>1. PICK b \in Label, x1 \in {"none", "set", "F4"}, x2 \in Seq(Unit), x3 \in Seq(BOOLEAN),
           x4 \in Group, x5 \in Seq(V) \union {None}, x6 \in Seq(Entry), x7 \in BOOLEAN :
         r = [at |-> b, cmd |-> x1, units |-> x2, done |-> x3, grp |-> x4,
              val |-> x5, buf |-> x6, ok |-> x7]
  BY Fields
<1> DEFINE n == [r EXCEPT !.done = y]
<1>2. n = [at |-> b, cmd |-> x1, units |-> x2, done |-> y, grp |-> x4,
              val |-> x5, buf |-> x6, ok |-> x7]
  <2> HIDE DEF Unit, V, Entry, Label, Group
  <2>1. n = [[at |-> b, cmd |-> x1, units |-> x2, done |-> x3, grp |-> x4,
              val |-> x5, buf |-> x6, ok |-> x7] EXCEPT !.done = y]
    BY <1>1, Zenon
  <2>2. [[at |-> b, cmd |-> x1, units |-> x2, done |-> x3, grp |-> x4,
              val |-> x5, buf |-> x6, ok |-> x7] EXCEPT !.done = y]
        = [at |-> b, cmd |-> x1, units |-> x2, done |-> y, grp |-> x4,
              val |-> x5, buf |-> x6, ok |-> x7]
    BY SMTT(60)
  <2>3. QED
    BY <2>1, <2>2, Zenon
<1> HIDE DEF n, Unit, V, Entry, Label, Group
<1>3. n \in ChanType
  BY <1>2 DEF ChanType
<1>4. n.done = y
      /\ n.at = r.at /\ n.cmd = r.cmd /\ n.units = r.units /\ n.grp = r.grp /\ n.val = r.val /\ n.buf = r.buf /\ n.ok = r.ok
  BY <1>1, <1>2
<1>5. QED
  BY <1>3, <1>4 DEF n

LEMMA Set_grp ==
  ASSUME NEW r \in ChanType, NEW y \in Group
  PROVE  LET n == [r EXCEPT !.grp = y] IN
         /\ n \in ChanType /\ n.grp = y
         /\ n.at = r.at /\ n.cmd = r.cmd /\ n.units = r.units /\ n.done = r.done
         /\ n.val = r.val /\ n.buf = r.buf /\ n.ok = r.ok
<1>1. PICK b \in Label, x1 \in {"none", "set", "F4"}, x2 \in Seq(Unit), x3 \in Seq(BOOLEAN),
           x4 \in Group, x5 \in Seq(V) \union {None}, x6 \in Seq(Entry), x7 \in BOOLEAN :
         r = [at |-> b, cmd |-> x1, units |-> x2, done |-> x3, grp |-> x4,
              val |-> x5, buf |-> x6, ok |-> x7]
  BY Fields
<1> DEFINE n == [r EXCEPT !.grp = y]
<1>2. n = [at |-> b, cmd |-> x1, units |-> x2, done |-> x3, grp |-> y,
              val |-> x5, buf |-> x6, ok |-> x7]
  <2> HIDE DEF Unit, V, Entry, Label, Group
  <2>1. n = [[at |-> b, cmd |-> x1, units |-> x2, done |-> x3, grp |-> x4,
              val |-> x5, buf |-> x6, ok |-> x7] EXCEPT !.grp = y]
    BY <1>1, Zenon
  <2>2. [[at |-> b, cmd |-> x1, units |-> x2, done |-> x3, grp |-> x4,
              val |-> x5, buf |-> x6, ok |-> x7] EXCEPT !.grp = y]
        = [at |-> b, cmd |-> x1, units |-> x2, done |-> x3, grp |-> y,
              val |-> x5, buf |-> x6, ok |-> x7]
    BY SMTT(60)
  <2>3. QED
    BY <2>1, <2>2, Zenon
<1> HIDE DEF n, Unit, V, Entry, Label, Group
<1>3. n \in ChanType
  BY <1>2 DEF ChanType
<1>4. n.grp = y
      /\ n.at = r.at /\ n.cmd = r.cmd /\ n.units = r.units /\ n.done = r.done /\ n.val = r.val /\ n.buf = r.buf /\ n.ok = r.ok
  BY <1>1, <1>2
<1>5. QED
  BY <1>3, <1>4 DEF n

LEMMA Set_val ==
  ASSUME NEW r \in ChanType, NEW y \in Seq(V) \union {None}
  PROVE  LET n == [r EXCEPT !.val = y] IN
         /\ n \in ChanType /\ n.val = y
         /\ n.at = r.at /\ n.cmd = r.cmd /\ n.units = r.units /\ n.done = r.done /\ n.grp = r.grp
         /\ n.buf = r.buf /\ n.ok = r.ok
<1>1. PICK b \in Label, x1 \in {"none", "set", "F4"}, x2 \in Seq(Unit), x3 \in Seq(BOOLEAN),
           x4 \in Group, x5 \in Seq(V) \union {None}, x6 \in Seq(Entry), x7 \in BOOLEAN :
         r = [at |-> b, cmd |-> x1, units |-> x2, done |-> x3, grp |-> x4,
              val |-> x5, buf |-> x6, ok |-> x7]
  BY Fields
<1> DEFINE n == [r EXCEPT !.val = y]
<1>2. n = [at |-> b, cmd |-> x1, units |-> x2, done |-> x3, grp |-> x4,
              val |-> y, buf |-> x6, ok |-> x7]
  <2> HIDE DEF Unit, V, Entry, Label, Group
  <2>1. n = [[at |-> b, cmd |-> x1, units |-> x2, done |-> x3, grp |-> x4,
              val |-> x5, buf |-> x6, ok |-> x7] EXCEPT !.val = y]
    BY <1>1, Zenon
  <2>2. [[at |-> b, cmd |-> x1, units |-> x2, done |-> x3, grp |-> x4,
              val |-> x5, buf |-> x6, ok |-> x7] EXCEPT !.val = y]
        = [at |-> b, cmd |-> x1, units |-> x2, done |-> x3, grp |-> x4,
              val |-> y, buf |-> x6, ok |-> x7]
    BY SMTT(60)
  <2>3. QED
    BY <2>1, <2>2, Zenon
<1> HIDE DEF n, Unit, V, Entry, Label, Group
<1>3. n \in ChanType
  BY <1>2 DEF ChanType
<1>4. n.val = y
      /\ n.at = r.at /\ n.cmd = r.cmd /\ n.units = r.units /\ n.done = r.done /\ n.grp = r.grp /\ n.buf = r.buf /\ n.ok = r.ok
  BY <1>1, <1>2
<1>5. QED
  BY <1>3, <1>4 DEF n

LEMMA Set_buf ==
  ASSUME NEW r \in ChanType, NEW y \in Seq(Entry)
  PROVE  LET n == [r EXCEPT !.buf = y] IN
         /\ n \in ChanType /\ n.buf = y
         /\ n.at = r.at /\ n.cmd = r.cmd /\ n.units = r.units /\ n.done = r.done /\ n.grp = r.grp
         /\ n.val = r.val /\ n.ok = r.ok
<1>1. PICK b \in Label, x1 \in {"none", "set", "F4"}, x2 \in Seq(Unit), x3 \in Seq(BOOLEAN),
           x4 \in Group, x5 \in Seq(V) \union {None}, x6 \in Seq(Entry), x7 \in BOOLEAN :
         r = [at |-> b, cmd |-> x1, units |-> x2, done |-> x3, grp |-> x4,
              val |-> x5, buf |-> x6, ok |-> x7]
  BY Fields
<1> DEFINE n == [r EXCEPT !.buf = y]
<1>2. n = [at |-> b, cmd |-> x1, units |-> x2, done |-> x3, grp |-> x4,
              val |-> x5, buf |-> y, ok |-> x7]
  <2> HIDE DEF Unit, V, Entry, Label, Group
  <2>1. n = [[at |-> b, cmd |-> x1, units |-> x2, done |-> x3, grp |-> x4,
              val |-> x5, buf |-> x6, ok |-> x7] EXCEPT !.buf = y]
    BY <1>1, Zenon
  <2>2. [[at |-> b, cmd |-> x1, units |-> x2, done |-> x3, grp |-> x4,
              val |-> x5, buf |-> x6, ok |-> x7] EXCEPT !.buf = y]
        = [at |-> b, cmd |-> x1, units |-> x2, done |-> x3, grp |-> x4,
              val |-> x5, buf |-> y, ok |-> x7]
    BY SMTT(60)
  <2>3. QED
    BY <2>1, <2>2, Zenon
<1> HIDE DEF n, Unit, V, Entry, Label, Group
<1>3. n \in ChanType
  BY <1>2 DEF ChanType
<1>4. n.buf = y
      /\ n.at = r.at /\ n.cmd = r.cmd /\ n.units = r.units /\ n.done = r.done /\ n.grp = r.grp /\ n.val = r.val /\ n.ok = r.ok
  BY <1>1, <1>2
<1>5. QED
  BY <1>3, <1>4 DEF n

LEMMA Set_ok ==
  ASSUME NEW r \in ChanType, NEW y \in BOOLEAN
  PROVE  LET n == [r EXCEPT !.ok = y] IN
         /\ n \in ChanType /\ n.ok = y
         /\ n.at = r.at /\ n.cmd = r.cmd /\ n.units = r.units /\ n.done = r.done /\ n.grp = r.grp
         /\ n.val = r.val /\ n.buf = r.buf
<1>1. PICK b \in Label, x1 \in {"none", "set", "F4"}, x2 \in Seq(Unit), x3 \in Seq(BOOLEAN),
           x4 \in Group, x5 \in Seq(V) \union {None}, x6 \in Seq(Entry), x7 \in BOOLEAN :
         r = [at |-> b, cmd |-> x1, units |-> x2, done |-> x3, grp |-> x4,
              val |-> x5, buf |-> x6, ok |-> x7]
  BY Fields
<1> DEFINE n == [r EXCEPT !.ok = y]
<1>2. n = [at |-> b, cmd |-> x1, units |-> x2, done |-> x3, grp |-> x4,
              val |-> x5, buf |-> x6, ok |-> y]
  <2> HIDE DEF Unit, V, Entry, Label, Group
  <2>1. n = [[at |-> b, cmd |-> x1, units |-> x2, done |-> x3, grp |-> x4,
              val |-> x5, buf |-> x6, ok |-> x7] EXCEPT !.ok = y]
    BY <1>1, Zenon
  <2>2. [[at |-> b, cmd |-> x1, units |-> x2, done |-> x3, grp |-> x4,
              val |-> x5, buf |-> x6, ok |-> x7] EXCEPT !.ok = y]
        = [at |-> b, cmd |-> x1, units |-> x2, done |-> x3, grp |-> x4,
              val |-> x5, buf |-> x6, ok |-> y]
    BY SMTT(60)
  <2>3. QED
    BY <2>1, <2>2, Zenon
<1> HIDE DEF n, Unit, V, Entry, Label, Group
<1>3. n \in ChanType
  BY <1>2 DEF ChanType
<1>4. n.ok = y
      /\ n.at = r.at /\ n.cmd = r.cmd /\ n.units = r.units /\ n.done = r.done /\ n.grp = r.grp /\ n.val = r.val /\ n.buf = r.buf
  BY <1>1, <1>2
<1>5. QED
  BY <1>3, <1>4 DEF n

\* A unit that is done, with success or without.
LEMMA Counted ==
  ASSUME chan \in [Channel -> ChanType], NEW c \in Channel, NEW a \in Label, NEW y \in BOOLEAN,
         chan' = [chan EXCEPT ![c].at = a, ![c].done = Append(@, y)]
  PROVE  Others(c) /\ chan'[c].at = a /\ chan'[c].done = Append(chan[c].done, y)
         /\ chan'[c].cmd = chan[c].cmd /\ chan'[c].units = chan[c].units /\ chan'[c].grp = chan[c].grp
         /\ chan'[c].ok = chan[c].ok
<1> DEFINE r == chan[c]
           n1 == [r EXCEPT !.at = a]
           n2 == [n1 EXCEPT !.done = Append(@, y)]
<1>1. chan' = [chan EXCEPT ![c] = n2]
  OBVIOUS
<1>2. r \in ChanType
  OBVIOUS
<1> HIDE DEF r
<1> HIDE DEF ChanType
<1>3. n1 \in ChanType /\ n1.at = a
      /\ n1.cmd = r.cmd /\ n1.units = r.units /\ n1.done = r.done /\ n1.grp = r.grp /\ n1.val = r.val /\ n1.buf = r.buf /\ n1.ok = r.ok
  BY <1>2, Set_at, Zenon
<1> HIDE DEF n1
<1>2a. Append(n1.done, y) \in Seq(BOOLEAN)
  BY <1>3, Fields
<1>4. n2 \in ChanType /\ n2.done = Append(n1.done, y)
      /\ n2.at = n1.at /\ n2.cmd = n1.cmd /\ n2.units = n1.units /\ n2.grp = n1.grp /\ n2.val = n1.val /\ n2.buf = n1.buf /\ n2.ok = n1.ok
  BY <1>3, <1>2a, Set_done, Zenon
<1> HIDE DEF n2
<1>5. Others(c) /\ chan'[c] = n2
  BY <1>1, <1>4, ChanStep
<1>6. QED
  BY <1>2, <1>3, <1>4, <1>5 DEF SamePlace, SameRest, r

\* A buffer that has been written.
LEMMA Emptied ==
  ASSUME chan \in [Channel -> ChanType], NEW c \in Channel, NEW a \in Label,
         chan' = [chan EXCEPT ![c].at = a, ![c].buf = <<>>]
  PROVE  Others(c) /\ chan'[c].at = a /\ SamePlace(c)
         /\ chan'[c].grp = chan[c].grp /\ chan'[c].ok = chan[c].ok
<1> DEFINE r == chan[c]
           n1 == [r EXCEPT !.at = a]
           n2 == [n1 EXCEPT !.buf = <<>>]
<1>1. chan' = [chan EXCEPT ![c] = n2]
  OBVIOUS
<1>2. r \in ChanType
  OBVIOUS
<1> HIDE DEF r
<1> HIDE DEF ChanType
<1>3. n1 \in ChanType /\ n1.at = a
      /\ n1.cmd = r.cmd /\ n1.units = r.units /\ n1.done = r.done /\ n1.grp = r.grp /\ n1.val = r.val /\ n1.buf = r.buf /\ n1.ok = r.ok
  BY <1>2, Set_at, Zenon
<1> HIDE DEF n1
<1>4. n2 \in ChanType /\ n2.buf = <<>>
      /\ n2.at = n1.at /\ n2.cmd = n1.cmd /\ n2.units = n1.units /\ n2.done = n1.done /\ n2.grp = n1.grp /\ n2.val = n1.val /\ n2.ok = n1.ok
  BY <1>3, EmptyText, Set_buf, Zenon
<1> HIDE DEF n2
<1>5. Others(c) /\ chan'[c] = n2
  BY <1>1, <1>4, ChanStep
<1>6. QED
  BY <1>2, <1>3, <1>4, <1>5 DEF SamePlace, SameRest, r

\* The main station, kept in a local variable.
LEMMA Kept ==
  ASSUME chan \in [Channel -> ChanType], NEW c \in Channel, NEW a \in Label, NEW v \in Seq(V),
         chan' = [chan EXCEPT ![c].at = a, ![c].val = v]
  PROVE  Others(c) /\ chan'[c].at = a /\ chan'[c].val = v /\ SamePlace(c)
<1> DEFINE r == chan[c]
           n1 == [r EXCEPT !.at = a]
           n2 == [n1 EXCEPT !.val = v]
<1>1. chan' = [chan EXCEPT ![c] = n2]
  OBVIOUS
<1>2. r \in ChanType
  OBVIOUS
<1> HIDE DEF r
<1> HIDE DEF ChanType
<1>3. n1 \in ChanType /\ n1.at = a
      /\ n1.cmd = r.cmd /\ n1.units = r.units /\ n1.done = r.done /\ n1.grp = r.grp /\ n1.val = r.val /\ n1.buf = r.buf /\ n1.ok = r.ok
  BY <1>2, Set_at, Zenon
<1> HIDE DEF n1
<1>4. n2 \in ChanType /\ n2.val = v
      /\ n2.at = n1.at /\ n2.cmd = n1.cmd /\ n2.units = n1.units /\ n2.done = n1.done /\ n2.grp = n1.grp /\ n2.buf = n1.buf /\ n2.ok = n1.ok
  BY <1>3, Set_val, Zenon
<1> HIDE DEF n2
<1>5. Others(c) /\ chan'[c] = n2
  BY <1>1, <1>4, ChanStep
<1>6. QED
  BY <1>2, <1>3, <1>4, <1>5 DEF SamePlace, SameRest, r

\* The file could not be read, and the text made from it.
LEMMA ReadNothing ==
  ASSUME chan \in [Channel -> ChanType], NEW c \in Channel, NEW a \in Label, NEW g \in Group,
         chan' = [chan EXCEPT ![c] = [@ EXCEPT !.at = a, !.grp = g, !.ok = FALSE]]
  PROVE  Others(c) /\ chan'[c].at = a /\ chan'[c].grp = g /\ chan'[c].ok = FALSE /\ SamePlace(c)
         /\ chan'[c].val = chan[c].val
<1> DEFINE r == chan[c]
           n1 == [r EXCEPT !.at = a]
           n2 == [n1 EXCEPT !.grp = g]
           n3 == [n2 EXCEPT !.ok = FALSE]
<1>1. chan' = [chan EXCEPT ![c] = n3]
  OBVIOUS
<1>2. r \in ChanType
  OBVIOUS
<1> HIDE DEF r
<1> HIDE DEF ChanType
<1>3. n1 \in ChanType /\ n1.at = a
      /\ n1.cmd = r.cmd /\ n1.units = r.units /\ n1.done = r.done /\ n1.grp = r.grp /\ n1.val = r.val /\ n1.buf = r.buf /\ n1.ok = r.ok
  BY <1>2, Set_at, Zenon
<1> HIDE DEF n1
<1>4. n2 \in ChanType /\ n2.grp = g
      /\ n2.at = n1.at /\ n2.cmd = n1.cmd /\ n2.units = n1.units /\ n2.done = n1.done /\ n2.val = n1.val /\ n2.buf = n1.buf /\ n2.ok = n1.ok
  BY <1>3, Set_grp, Zenon
<1> HIDE DEF n2
<1>5. n3 \in ChanType /\ n3.ok = FALSE
      /\ n3.at = n2.at /\ n3.cmd = n2.cmd /\ n3.units = n2.units /\ n3.done = n2.done /\ n3.grp = n2.grp /\ n3.val = n2.val /\ n3.buf = n2.buf
  BY <1>4, Set_ok, Zenon
<1> HIDE DEF n3
<1>6. Others(c) /\ chan'[c] = n3
  BY <1>1, <1>5, ChanStep
<1>7. QED
  BY <1>2, <1>3, <1>4, <1>5, <1>6 DEF SamePlace, SameRest, r

\* The text made from the file.
LEMMA ReadText ==
  ASSUME chan \in [Channel -> ChanType], NEW c \in Channel, NEW a \in Label, NEW g \in Group, NEW vs \in Seq(V), NEW t \in Seq(Entry),
         chan' = [chan EXCEPT ![c] = [@ EXCEPT !.at = a, !.grp = g, !.val = vs, !.ok = TRUE, !.buf = t]]
  PROVE  Others(c) /\ chan'[c].at = a /\ chan'[c].grp = g /\ chan'[c].val = vs /\ chan'[c].ok = TRUE
         /\ chan'[c].buf = t /\ SamePlace(c)
<1> DEFINE r == chan[c]
           n1 == [r EXCEPT !.at = a]
           n2 == [n1 EXCEPT !.grp = g]
           n3 == [n2 EXCEPT !.val = vs]
           n4 == [n3 EXCEPT !.ok = TRUE]
           n5 == [n4 EXCEPT !.buf = t]
<1>1. chan' = [chan EXCEPT ![c] = n5]
  OBVIOUS
<1>2. r \in ChanType
  OBVIOUS
<1> HIDE DEF r
<1> HIDE DEF ChanType
<1>3. n1 \in ChanType /\ n1.at = a
      /\ n1.cmd = r.cmd /\ n1.units = r.units /\ n1.done = r.done /\ n1.grp = r.grp /\ n1.val = r.val /\ n1.buf = r.buf /\ n1.ok = r.ok
  BY <1>2, Set_at, Zenon
<1> HIDE DEF n1
<1>4. n2 \in ChanType /\ n2.grp = g
      /\ n2.at = n1.at /\ n2.cmd = n1.cmd /\ n2.units = n1.units /\ n2.done = n1.done /\ n2.val = n1.val /\ n2.buf = n1.buf /\ n2.ok = n1.ok
  BY <1>3, Set_grp, Zenon
<1> HIDE DEF n2
<1>5. n3 \in ChanType /\ n3.val = vs
      /\ n3.at = n2.at /\ n3.cmd = n2.cmd /\ n3.units = n2.units /\ n3.done = n2.done /\ n3.grp = n2.grp /\ n3.buf = n2.buf /\ n3.ok = n2.ok
  BY <1>4, Set_val, Zenon
<1> HIDE DEF n3
<1>6. n4 \in ChanType /\ n4.ok = TRUE
      /\ n4.at = n3.at /\ n4.cmd = n3.cmd /\ n4.units = n3.units /\ n4.done = n3.done /\ n4.grp = n3.grp /\ n4.val = n3.val /\ n4.buf = n3.buf
  BY <1>5, Set_ok, Zenon
<1> HIDE DEF n4
<1>7. n5 \in ChanType /\ n5.buf = t
      /\ n5.at = n4.at /\ n5.cmd = n4.cmd /\ n5.units = n4.units /\ n5.done = n4.done /\ n5.grp = n4.grp /\ n5.val = n4.val /\ n5.ok = n4.ok
  BY <1>6, Set_buf, Zenon
<1> HIDE DEF n5
<1>8. Others(c) /\ chan'[c] = n5
  BY <1>1, <1>7, ChanStep
<1>9. QED
  BY <1>2, <1>3, <1>4, <1>5, <1>6, <1>7, <1>8 DEF SamePlace, SameRest, r

LEMMA IdleType ==
  Idle \in ChanType /\ Idle.at = "idle" /\ Idle.cmd = "none" /\ Idle.done = <<>> /\ Idle.units = <<>>
<1>1. "idle" \in Label /\ "F3" \in Group
  BY Groups DEF Label
<1> HIDE DEF Unit, V, Entry, Label, Group
<1>2. QED
  BY <1>1 DEF Idle, ChanType

\* A command that begins.
LEMMA BegunSet ==
  ASSUME chan \in [Channel -> ChanType], NEW c \in Channel, NEW a \in Label, NEW f \in Seq(Unit),
         chan' = [chan EXCEPT ![c] = [Idle EXCEPT !.at = a, !.cmd = "set", !.units = f]]
  PROVE  Others(c) /\ chan'[c].at = a /\ chan'[c].cmd = "set" /\ chan'[c].units = f
         /\ chan'[c].done = <<>>
<1> DEFINE n1 == [Idle EXCEPT !.at = a]
           n2 == [n1 EXCEPT !.cmd = "set"]
           n3 == [n2 EXCEPT !.units = f]
<1>1. chan' = [chan EXCEPT ![c] = n3]
  OBVIOUS
<1>2. Idle \in ChanType /\ Idle.at = "idle" /\ Idle.cmd = "none" /\ Idle.done = <<>>
  BY IdleType
<1> HIDE DEF ChanType
<1>3. n1 \in ChanType /\ n1.at = a
      /\ n1.cmd = Idle.cmd /\ n1.units = Idle.units /\ n1.done = Idle.done /\ n1.grp = Idle.grp /\ n1.val = Idle.val /\ n1.buf = Idle.buf /\ n1.ok = Idle.ok
  BY <1>2, Set_at, Zenon
<1> HIDE DEF n1
<1>4. n2 \in ChanType /\ n2.cmd = "set"
      /\ n2.at = n1.at /\ n2.units = n1.units /\ n2.done = n1.done /\ n2.grp = n1.grp /\ n2.val = n1.val /\ n2.buf = n1.buf /\ n2.ok = n1.ok
  BY <1>3, Set_cmd, Zenon
<1> HIDE DEF n2
<1>5. n3 \in ChanType /\ n3.units = f
      /\ n3.at = n2.at /\ n3.cmd = n2.cmd /\ n3.done = n2.done /\ n3.grp = n2.grp /\ n3.val = n2.val /\ n3.buf = n2.buf /\ n3.ok = n2.ok
  BY <1>4, Set_units, Zenon
<1> HIDE DEF n3
<1>6. Others(c) /\ chan'[c] = n3
  BY <1>1, <1>5, ChanStep
<1>7. QED
  BY <1>2, <1>3, <1>4, <1>5, <1>6

LEMMA BegunReset ==
  ASSUME chan \in [Channel -> ChanType], NEW c \in Channel, NEW a \in Label,
         chan' = [chan EXCEPT ![c] = [Idle EXCEPT !.at = a, !.cmd = "F4"]]
  PROVE  Others(c) /\ chan'[c].at = a /\ chan'[c].cmd = "F4" /\ chan'[c].done = <<>>
<1> DEFINE n1 == [Idle EXCEPT !.at = a]
           n2 == [n1 EXCEPT !.cmd = "F4"]
<1>1. chan' = [chan EXCEPT ![c] = n2]
  OBVIOUS
<1>2. Idle \in ChanType /\ Idle.at = "idle" /\ Idle.cmd = "none" /\ Idle.done = <<>>
  BY IdleType
<1> HIDE DEF ChanType
<1>3. n1 \in ChanType /\ n1.at = a
      /\ n1.cmd = Idle.cmd /\ n1.units = Idle.units /\ n1.done = Idle.done /\ n1.grp = Idle.grp /\ n1.val = Idle.val /\ n1.buf = Idle.buf /\ n1.ok = Idle.ok
  BY <1>2, Set_at, Zenon
<1> HIDE DEF n1
<1>4. n2 \in ChanType /\ n2.cmd = "F4"
      /\ n2.at = n1.at /\ n2.units = n1.units /\ n2.done = n1.done /\ n2.grp = n1.grp /\ n2.val = n1.val /\ n2.buf = n1.buf /\ n2.ok = n1.ok
  BY <1>3, Set_cmd, Zenon
<1> HIDE DEF n2
<1>5. Others(c) /\ chan'[c] = n2
  BY <1>1, <1>4, ChanStep
<1>6. QED
  BY <1>2, <1>3, <1>4, <1>5

-----------------------------------------------------------------------------
(* Types, and where a command is, whatever the other channels do.           *)

AllPhases == \A c \in Channel : PhaseInv(c)

LEMMA SameFor ==
  ASSUME NEW d, chan'[d] = chan[d]
  PROVE  /\ Holding(d)' = Holding(d) /\ Gap(d)' = Gap(d) /\ Resetting(d)' = Resetting(d)
         /\ Saving(d)' = Saving(d) /\ AtUnit(d)' = AtUnit(d) /\ Current(d)' = Current(d)
         /\ Taken(d)' = Taken(d)
         /\ \A g \in Group : SetBy(d, g)' = SetBy(d, g) /\ Reset(d, g)' = Reset(d, g)
<1>1. /\ Holding(d)' = Holding(d) /\ Gap(d)' = Gap(d) /\ Resetting(d)' = Resetting(d)
      /\ Saving(d)' = Saving(d) /\ AtUnit(d)' = AtUnit(d)
  BY Zenon DEF Holding, Gap, Resetting, Saving, AtUnit
<1>2. Current(d)' = Current(d)
  BY DEF Current
<1>3. Taken(d)' = Taken(d)
  BY <1>1 DEF Taken
<1>4. ASSUME NEW g \in Group PROVE SetBy(d, g)' = SetBy(d, g) /\ Reset(d, g)' = Reset(d, g)
  BY <1>3 DEF SetBy, Reset
<1>5. QED
  BY <1>1, <1>2, <1>3, <1>4

LEMMA PhaseOther ==
  ASSUME NEW d \in Channel, chan'[d] = chan[d], (lock' = d) <=> (lock = d), PhaseInv(d)
  PROVE  PhaseInv(d)'
<1>1. AtUnit(d)' = AtUnit(d) /\ Current(d)' = Current(d)
  BY SameFor
<1>2. QED
  BY <1>1 DEF PhaseInv, ValuesOf

LEMMA PhasesStep ==
  ASSUME AllPhases, NEW c \in Channel, Others(c), PhaseInv(c)',
         \A d \in Channel \ {c} : (lock' = d) <=> (lock = d)
  PROVE  AllPhases'
<1>1. ASSUME NEW d \in Channel PROVE PhaseInv(d)'
  <2>1. CASE d # c
    BY <2>1, PhaseOther DEF AllPhases, Others
  <2>2. QED
    BY <2>1
<1>2. QED
  BY <1>1 DEF AllPhases

\* A command that goes on to another place, with its data unchanged.
LEMMA PhaseMoved ==
  ASSUME NEW c \in Channel, PhaseInv(c), SameRest(c),
         chan[c].at # "idle", chan'[c].at # "idle", chan[c].at # "answer", chan'[c].at # "answer",
         chan'[c].at \in {"unit", "clear", "load"} => chan[c].cmd = "set",
         chan'[c].at \in {"f4read", "f4copy", "copied", "f4load", "f4save", "f4end"} => chan[c].cmd = "F4",
         AtUnit(c)' => AtUnit(c),
         chan'[c].at \in {"f4copy", "copied", "f4load", "f4save"} =>
           chan[c].at \in {"f4copy", "copied", "f4load", "f4save"},
         (chan'[c].at = "locked") <=> (lock' = c)
  PROVE  PhaseInv(c)'
<1>1. Current(c)' = Current(c)
  BY DEF Current, SameRest, SamePlace
<1>2. chan[c].cmd = "set" =>
         /\ Len(chan[c].done)' <= Len(chan[c].units)' /\ Len(chan[c].units)' > 0
         /\ \A i \in DOMAIN chan'[c].done :
              chan'[c].done[i] = ~(chan'[c].at = "answer" /\ i = Len(chan'[c].done))
         /\ chan'[c].at = "answer" => Len(chan'[c].done) > 0
  BY DEF PhaseInv, SameRest, SamePlace
<1>3. AtUnit(c)' => /\ Len(chan'[c].done) < Len(chan'[c].units)
                    /\ Current(c)' # Refused /\ chan'[c].grp = Current(c).fn'
  BY <1>1 DEF PhaseInv, SameRest, SamePlace
<1>4. chan'[c].at \in {"f4copy", "copied", "f4load", "f4save"} => chan'[c].val \in ValuesOf("F3")
  BY DEF PhaseInv, SameRest
<1>5. chan'[c].cmd = chan[c].cmd /\ chan[c].cmd # "none"
  BY DEF SameRest, SamePlace, PhaseInv
<1>6. QED
  BY <1>2, <1>3, <1>4, <1>5 DEF PhaseInv, ValuesOf

-----------------------------------------------------------------------------
(* Types and places, action by action.                                      *)

LEMMA Truncate_Type ==
  ASSUME TypeInv, AllPhases, NEW c \in Channel, Truncate(c)
  PROVE  TypeInv' /\ AllPhases' /\ Others(c) /\ chan'[c].at = "lock" /\ SameRest(c)
<1>1. chan \in [Channel -> ChanType]
  BY DEF TypeInv
<1>2. "lock" \in Label
  BY DEF Label
<1>3. Move(c, "lock") /\ chan[c].at = "open"
  BY DEF Truncate
<1>4. Others(c) /\ chan'[c].at = "lock" /\ SameRest(c)
  BY <1>1, <1>2, <1>3, Moved
<1>5. TypeInv'
  <2>1. file' \in Seq(Entry)
    BY EmptyText DEF Truncate
  <2>2. mixed' \in BOOLEAN
    BY DEF Truncate, Touch, TypeInv
  <2>3. QED
    BY <1>4, <2>1, <2>2 DEF TypeInv, Others, Truncate, told
<1>6. PhaseInv(c)'
  <2>1. PhaseInv(c) /\ lock # c
    BY <1>3 DEF AllPhases, PhaseInv
  <2>2. lock' # c
    BY <2>1 DEF Truncate
  <2>3. AtUnit(c)' => AtUnit(c)
    BY <1>3, <1>4 DEF AtUnit, Holding, SameRest, SamePlace
  <2>4. chan[c].cmd = "set" \/ chan[c].at = "open"
    BY <1>3, <2>1 DEF PhaseInv
  <2>5. QED
    BY <1>3, <1>4, <2>1, <2>2, <2>3, <2>4, PhaseMoved
<1>7. AllPhases'
  BY <1>4, <1>6, PhasesStep DEF Truncate
<1>8. QED
  BY <1>4, <1>5, <1>7

LEMMA F4Copy_Type ==
  ASSUME TypeInv, AllPhases, NEW c \in Channel, F4Copy(c)
  PROVE  TypeInv' /\ AllPhases' /\ Others(c) /\ chan'[c].at = "copied" /\ SameRest(c)
<1>1. chan \in [Channel -> ChanType]
  BY DEF TypeInv
<1>2. "copied" \in Label
  BY DEF Label
<1>3. Move(c, "copied") /\ chan[c].at = "f4copy"
  BY DEF F4Copy
<1>4. Others(c) /\ chan'[c].at = "copied" /\ SameRest(c)
  BY <1>1, <1>2, <1>3, Moved
<1>5. TypeInv'
  <2>1. file' \in Seq(Entry)
    BY EmptyText DEF F4Copy
  <2>2. mixed' \in BOOLEAN
    BY DEF F4Copy, Touch, TypeInv
  <2>3. QED
    BY <1>4, <2>1, <2>2 DEF TypeInv, Others, F4Copy, told
<1>6. PhaseInv(c)'
  <2>1. PhaseInv(c) /\ lock # c
    BY <1>3 DEF AllPhases, PhaseInv
  <2>2. lock' # c
    BY <2>1 DEF F4Copy
  <2>3. AtUnit(c)' => AtUnit(c)
    BY <1>3, <1>4 DEF AtUnit, Holding, SameRest, SamePlace
  <2>4. chan[c].cmd = "F4"
    BY <1>3, <2>1 DEF PhaseInv
  <2>5. QED
    BY <1>3, <1>4, <2>1, <2>2, <2>3, <2>4, PhaseMoved
<1>7. AllPhases'
  BY <1>4, <1>6, PhasesStep DEF F4Copy
<1>8. QED
  BY <1>4, <1>5, <1>7

LEMMA OverwriteType ==
  ASSUME NEW f \in Seq(Entry), NEW text \in Seq(Entry)
  PROVE  Overwrite(f, text) \in Seq(Entry)
<1> HIDE DEF Entry
<1>1. SubSeq(f, Len(text) + 1, Len(f)) \in Seq(Entry)
  OBVIOUS
<1>2. QED
  BY <1>1 DEF Overwrite

LEMMA F4Copied_Type ==
  ASSUME TypeInv, AllPhases, NEW c \in Channel, F4Copied(c)
  PROVE  TypeInv' /\ AllPhases' /\ Others(c) /\ chan'[c].at = "f4load" /\ SameRest(c)
<1>1. chan \in [Channel -> ChanType]
  BY DEF TypeInv
<1>2. "f4load" \in Label
  BY DEF Label
<1>3. Move(c, "f4load") /\ chan[c].at = "copied"
  BY DEF F4Copied
<1>4. Others(c) /\ chan'[c].at = "f4load" /\ SameRest(c)
  BY <1>1, <1>2, <1>3, Moved
<1>5. TypeInv'
  <2>1. file' \in Seq(Entry)
    BY OverwriteType, DefaultIsComplete DEF F4Copied, TypeInv
  <2>2. mixed' \in BOOLEAN
    BY DEF F4Copied, Touch, TypeInv
  <2>3. QED
    BY <1>4, <2>1, <2>2 DEF TypeInv, Others, F4Copied, told
<1>6. PhaseInv(c)'
  <2>1. PhaseInv(c) /\ lock # c
    BY <1>3 DEF AllPhases, PhaseInv
  <2>2. lock' # c
    BY <2>1 DEF F4Copied
  <2>3. AtUnit(c)' => AtUnit(c)
    BY <1>3, <1>4 DEF AtUnit, Holding, SameRest, SamePlace
  <2>4. chan[c].cmd = "F4"
    BY <1>3, <2>1 DEF PhaseInv
  <2>5. QED
    BY <1>3, <1>4, <2>1, <2>2, <2>3, <2>4, PhaseMoved
<1>7. AllPhases'
  BY <1>4, <1>6, PhasesStep DEF F4Copied
<1>8. QED
  BY <1>4, <1>5, <1>7

LEMMA LoadAllType ==
  ASSUME NEW f \in Seq(Entry), NEW m \in [Group -> Seq(V) \union {None}]
  PROVE  LoadAll(f, m) \in [Group -> Seq(V) \union {None}]
<1>1. \A g \in Group : GetGroup(f, g) \in Seq(V) \union {None}
  BY GetGroupType, NoneIsNoValue
<1>2. QED
  BY <1>1 DEF LoadAll

LEMMA F4Load_Type ==
  ASSUME TypeInv, AllPhases, NEW c \in Channel, F4Load(c)
  PROVE  TypeInv' /\ AllPhases' /\ Others(c) /\ chan'[c].at = "f4save" /\ SameRest(c)
<1>1. chan \in [Channel -> ChanType]
  BY DEF TypeInv
<1>2. "f4save" \in Label
  BY DEF Label
<1>3. Move(c, "f4save") /\ chan[c].at = "f4load"
  BY DEF F4Load
<1>4. Others(c) /\ chan'[c].at = "f4save" /\ SameRest(c)
  BY <1>1, <1>2, <1>3, Moved
<1>5. TypeInv'
  <2>1. mem' \in [Group -> Seq(V) \union {None}]
    BY LoadAllType, DefaultIsComplete DEF F4Load, TypeInv
  <2>2. QED
    BY <1>4, <2>1 DEF TypeInv, Others, F4Load, told
<1>6. PhaseInv(c)'
  <2>1. PhaseInv(c) /\ lock # c
    BY <1>3 DEF AllPhases, PhaseInv
  <2>2. lock' # c
    BY <2>1 DEF F4Load
  <2>3. AtUnit(c)' => AtUnit(c)
    BY <1>3, <1>4 DEF AtUnit, Holding, SameRest, SamePlace
  <2>4. chan[c].cmd = "F4"
    BY <1>3, <2>1 DEF PhaseInv
  <2>5. QED
    BY <1>3, <1>4, <2>1, <2>2, <2>3, <2>4, PhaseMoved
<1>7. AllPhases'
  BY <1>4, <1>6, PhasesStep DEF F4Load
<1>8. QED
  BY <1>4, <1>5, <1>7

LEMMA ClearGroup_Type ==
  ASSUME TypeInv, AllPhases, NEW c \in Channel, ClearGroup(c)
  PROVE  TypeInv' /\ AllPhases' /\ Others(c) /\ chan'[c].at = "load" /\ SameRest(c)
<1>1. chan \in [Channel -> ChanType]
  BY DEF TypeInv
<1>2. "load" \in Label
  BY DEF Label
<1>3. Move(c, "load") /\ chan[c].at = "clear"
  BY DEF ClearGroup
<1>4. Others(c) /\ chan'[c].at = "load" /\ SameRest(c)
  BY <1>1, <1>2, <1>3, Moved
<1>5. TypeInv'
  <2>1. mem' \in [Group -> Seq(V) \union {None}]
    BY DEF ClearGroup, TypeInv
  <2>2. QED
    BY <1>4, <2>1 DEF TypeInv, Others, ClearGroup, told
<1>6. PhaseInv(c)'
  <2>1. PhaseInv(c) /\ lock # c
    BY <1>3 DEF AllPhases, PhaseInv
  <2>2. lock' # c
    BY <2>1 DEF ClearGroup
  <2>3. AtUnit(c)' => AtUnit(c)
    BY <1>3, <1>4 DEF AtUnit, Holding, SameRest, SamePlace
  <2>4. chan[c].cmd = "set" \/ chan[c].at = "open"
    BY <1>3, <2>1 DEF PhaseInv
  <2>5. QED
    BY <1>3, <1>4, <2>1, <2>2, <2>3, <2>4, PhaseMoved
<1>7. AllPhases'
  BY <1>4, <1>6, PhasesStep DEF ClearGroup
<1>8. QED
  BY <1>4, <1>5, <1>7

LEMMA ReadFile_Is ==
  ASSUME TypeInv, NEW c \in Channel, NEW g \in Group, NEW vs \in ValuesOf(g), ReadFile(c, g, vs)
  PROVE  /\ Others(c) /\ SamePlace(c) /\ chan'[c].grp = g /\ mixed' \in BOOLEAN
         /\ mixed' = (mixed \/ OthersSave(c))
         /\ file = <<>> =>
              /\ chan'[c].at = IF chan[c].at = "f4save" THEN "f4end" ELSE "clear"
              /\ chan'[c].ok = FALSE
         /\ file # <<>> =>
              /\ chan'[c].at = "open" /\ chan'[c].val = vs /\ chan'[c].ok = TRUE
              /\ chan'[c].buf = PutGroup(file, g, vs)
<1>1. chan \in [Channel -> ChanType] /\ file \in Seq(Entry)
  BY DEF TypeInv
<1>2. mixed' = (mixed \/ OthersSave(c)) /\ mixed' \in BOOLEAN
  BY DEF ReadFile, Touch, TypeInv
<1>3. CASE file = <<>>
  <2> DEFINE a == IF chan[c].at = "f4save" THEN "f4end" ELSE "clear"
  <2>1. chan' = [chan EXCEPT ![c] = [@ EXCEPT !.at = a, !.grp = g, !.ok = FALSE]]
    BY <1>3 DEF ReadFile
  <2>2. a \in Label
    BY DEF Label
  <2> HIDE DEF a, ChanType
  <2>3. Others(c) /\ chan'[c].at = a /\ chan'[c].grp = g /\ chan'[c].ok = FALSE /\ SamePlace(c)
    BY <1>1, <2>1, <2>2, ReadNothing
  <2>4. QED
    BY <1>2, <1>3, <2>3 DEF a
<1>4. CASE file # <<>>
  <2> DEFINE t == PutGroup(file, g, vs)
  <2>1. chan' = [chan EXCEPT ![c] = [@ EXCEPT !.at = "open", !.grp = g, !.val = vs, !.ok = TRUE, !.buf = t]]
    BY <1>4 DEF ReadFile
  <2>2. "open" \in Label
    BY DEF Label
  <2>3. t \in Seq(Entry) /\ vs \in Seq(V)
    BY <1>1, PutGroupGets, NoneIsNoValue
  <2> HIDE DEF t, ChanType
  <2>4. /\ Others(c) /\ chan'[c].at = "open" /\ chan'[c].grp = g /\ chan'[c].val = vs /\ chan'[c].ok = TRUE
        /\ chan'[c].buf = t /\ SamePlace(c)
    BY <1>1, <2>1, <2>2, <2>3, ReadText, ZenonT(60)
  <2>5. QED
    BY <1>2, <1>4, <2>4 DEF t
<1>5. QED
  BY <1>3, <1>4

\* The unit a command is at.
LEMMA UnitIs ==
  ASSUME TypeInv, NEW c \in Channel, Len(chan[c].done) < Len(chan[c].units)
  PROVE  /\ Current(c) \in Unit
         /\ Current(c) # Refused =>
              /\ Current(c).fn \in Group /\ Current(c).val \in Val
              /\ All(Current(c).fn, Current(c).val) \in ValuesOf(Current(c).fn)
<1>1. chan[c].units \in Seq(Unit) /\ chan[c].done \in Seq(BOOLEAN)
  BY Fields DEF TypeInv
<1> HIDE DEF Unit
<1>2. Len(chan[c].done) + 1 \in 1 .. Len(chan[c].units)
  BY <1>1
<1>3. Current(c) \in Unit
  BY <1>1, <1>2 DEF Current
<1>4. ASSUME Current(c) # Refused PROVE Current(c).fn \in Group /\ Current(c).val \in Val
  <2>1. Current(c) \in [fn : Group, val : Val]
    BY <1>3, <1>4 DEF Unit
  <2> HIDE DEF Group
  <2>2. QED
    BY <2>1
<1>5. \A v \in Val : v \in V
  BY DEF V
<1>6. QED
  BY <1>3, <1>4, <1>5, AllType

LEMMA NextUnit_Is ==
  ASSUME TypeInv, AllPhases, NEW c \in Channel, NextUnit(c)
  PROVE  /\ Others(c) /\ chan[c].at = "unit" /\ chan[c].cmd = "set"
         /\ Len(chan[c].done) < Len(chan[c].units)
         /\ Current(c) = Refused =>
              /\ chan'[c].at = "answer" /\ chan'[c].done = Append(chan[c].done, FALSE)
              /\ chan'[c].cmd = chan[c].cmd /\ chan'[c].units = chan[c].units
              /\ UNCHANGED <<mixed, last>>
         /\ Current(c) # Refused =>
              /\ Current(c).fn \in Group /\ Current(c).val \in Val
              /\ All(Current(c).fn, Current(c).val) \in ValuesOf(Current(c).fn)
              /\ ReadFile(c, Current(c).fn, All(Current(c).fn, Current(c).val))
              /\ last' = [last EXCEPT ![Current(c).fn] = c]
         /\ UNCHANGED <<init, file, mem, lock, believed, torn>>
<1>1. chan \in [Channel -> ChanType]
  BY DEF TypeInv
<1>2. /\ chan[c].at = "unit" /\ Len(chan[c].done) < Len(chan[c].units)
      /\ UNCHANGED <<init, file, mem, lock, believed, torn>>
  BY DEF NextUnit
<1>3. chan[c].cmd = "set"
  BY <1>2 DEF AllPhases, PhaseInv
<1>4. CASE Current(c) = Refused
  <2>1. /\ chan' = [chan EXCEPT ![c].at = "answer", ![c].done = Append(@, FALSE)]
        /\ UNCHANGED <<mixed, last>>
    BY <1>4 DEF NextUnit, Current
  <2>2. "answer" \in Label
    BY DEF Label
  <2> HIDE DEF ChanType
  <2>3. Others(c) /\ chan'[c].at = "answer" /\ chan'[c].done = Append(chan[c].done, FALSE)
        /\ chan'[c].cmd = chan[c].cmd /\ chan'[c].units = chan[c].units
    BY <1>1, <2>1, <2>2, Counted
  <2>4. QED
    BY <1>2, <1>3, <1>4, <2>1, <2>3
<1>5. CASE Current(c) # Refused
  <2>1. /\ ReadFile(c, Current(c).fn, All(Current(c).fn, Current(c).val))
        /\ last' = [last EXCEPT ![Current(c).fn] = c]
    BY <1>5 DEF NextUnit, Current
  <2>2. /\ Current(c).fn \in Group /\ Current(c).val \in Val
        /\ All(Current(c).fn, Current(c).val) \in ValuesOf(Current(c).fn)
    BY <1>2, <1>5, UnitIs
  <2>3. Others(c)
    BY <2>1, <2>2, ReadFile_Is
  <2>4. QED
    BY <1>2, <1>3, <1>5, <2>1, <2>2, <2>3
<1>6. QED
  BY <1>4, <1>5

LEMMA NextUnit_Type ==
  ASSUME TypeInv, AllPhases, NEW c \in Channel, NextUnit(c)
  PROVE  TypeInv' /\ AllPhases'
<1> DEFINE u == Current(c)
           vs == All(u.fn, u.val)
<1>1. /\ Others(c) /\ chan[c].at = "unit" /\ chan[c].cmd = "set"
      /\ Len(chan[c].done) < Len(chan[c].units)
      /\ UNCHANGED <<init, file, mem, lock, believed, torn>>
  BY NextUnit_Is
<1>2. PhaseInv(c) /\ lock # c
  BY <1>1 DEF AllPhases, PhaseInv
<1>3. chan[c].units \in Seq(Unit) /\ chan[c].done \in Seq(BOOLEAN)
  BY Fields DEF TypeInv
<1>4. CASE u = Refused
  <2>1. /\ chan'[c].at = "answer" /\ chan'[c].done = Append(chan[c].done, FALSE)
        /\ chan'[c].cmd = chan[c].cmd /\ chan'[c].units = chan[c].units
        /\ UNCHANGED <<mixed, last>>
    BY <1>4, NextUnit_Is
  <2>2. TypeInv'
    BY <1>1, <2>1 DEF TypeInv, Others
  <2>3. ~AtUnit(c)'
    BY <2>1 DEF AtUnit, Holding
  <2>4. /\ Len(chan'[c].done) <= Len(chan'[c].units) /\ Len(chan'[c].units) > 0
        /\ \A i \in DOMAIN chan'[c].done :
              chan'[c].done[i] = ~(chan'[c].at = "answer" /\ i = Len(chan'[c].done))
        /\ Len(chan'[c].done) > 0
    <3> HIDE DEF Unit
    <3> DEFINE dn == chan[c].done
               ne == Append(dn, FALSE)
    <3>1. Len(ne) = Len(dn) + 1 /\ DOMAIN ne = 1 .. Len(dn) + 1 /\ ne[Len(dn) + 1] = FALSE
      BY <1>3
    <3>2. \A i \in 1 .. Len(dn) : ne[i] = dn[i]
      <4>1. dn \in Seq(BOOLEAN)
        BY <1>3
      <4> HIDE DEF dn
      <4>2. QED
        BY <4>1
    <3>3. \A i \in DOMAIN dn : dn[i] = TRUE
      BY <1>1, <1>2 DEF PhaseInv
    <3>4. DOMAIN dn = 1 .. Len(dn) /\ Len(dn) \in Nat
      BY <1>3
    <3> HIDE DEF dn, ne
    <3>5. \A i \in DOMAIN ne : ne[i] = ~(i = Len(ne))
      <4> TAKE i \in DOMAIN ne
      <4>1. CASE i = Len(dn) + 1
        BY <3>1, <4>1
      <4>2. CASE i # Len(dn) + 1
        <5>1. i \in 1 .. Len(dn)
          BY <3>1, <3>4, <4>2
        <5>2. ne[i] = TRUE
          BY <3>2, <3>3, <3>4, <5>1
        <5>3. i # Len(ne)
          BY <3>1, <4>2
        <5>4. QED
          BY <5>2, <5>3
      <4>3. QED
        BY <4>1, <4>2
    <3>6. Len(ne) <= Len(chan[c].units) /\ Len(chan[c].units) > 0 /\ Len(ne) > 0
      BY <1>1, <1>3, <3>1, <3>4 DEF dn
    <3>7. chan'[c].done = ne
      BY <2>1 DEF ne, dn
    <3>8. QED
      BY <2>1, <3>5, <3>6, <3>7
  <2>5. PhaseInv(c)'
    BY <1>1, <1>2, <2>1, <2>3, <2>4 DEF PhaseInv, Holding
  <2>6. AllPhases'
    BY <1>1, <2>5, PhasesStep
  <2>7. QED
    BY <2>2, <2>6
<1>5. CASE u # Refused
  <2>1. /\ u.fn \in Group /\ vs \in ValuesOf(u.fn)
        /\ ReadFile(c, u.fn, vs) /\ last' = [last EXCEPT ![u.fn] = c]
    BY <1>5, NextUnit_Is
  <2> HIDE DEF vs
  <2>2. SamePlace(c) /\ chan'[c].grp = u.fn /\ mixed' \in BOOLEAN /\ chan'[c].at \in {"open", "clear"}
    BY <1>1, <2>1, ReadFile_Is
  <2>3. TypeInv'
    <3> HIDE DEF u
    <3>1. last' \in [Group -> Channel \union {None}]
      BY <2>1 DEF TypeInv
    <3>2. QED
      BY <1>1, <2>2, <3>1 DEF TypeInv, Others
  <2>4. Current(c)' = u
    BY <2>2 DEF Current, SamePlace
  <2>5. /\ chan'[c].cmd = "set" /\ Len(chan'[c].done) < Len(chan'[c].units)
        /\ Current(c)' # Refused /\ chan'[c].grp = Current(c).fn'
    BY <1>1, <1>5, <2>2, <2>4 DEF SamePlace
  <2>6. \A i \in DOMAIN chan'[c].done : chan'[c].done[i] = TRUE
    BY <1>1, <1>2, <2>2 DEF PhaseInv, SamePlace
  <2>7. Len(chan'[c].done) \in Nat /\ Len(chan'[c].units) \in Nat
    BY <1>3, <2>2 DEF SamePlace
  <2> HIDE DEF u
  <2>8. PhaseInv(c)'
    <3>1. lock' # c /\ chan'[c].at \notin {"idle", "answer", "locked"}
      BY <1>1, <1>2, <2>2
    <3>2. chan'[c].at \notin {"f4read", "f4copy", "copied", "f4load", "f4save", "f4end"}
      BY <2>2
    <3>3. /\ Len(chan'[c].done) <= Len(chan'[c].units) /\ Len(chan'[c].units) > 0
          /\ \A i \in DOMAIN chan'[c].done :
               chan'[c].done[i] = ~(chan'[c].at = "answer" /\ i = Len(chan'[c].done))
      <4>1. Len(chan'[c].done) <= Len(chan'[c].units) /\ Len(chan'[c].units) > 0
        BY <2>5, <2>7
      <4>2. chan'[c].at # "answer"
        BY <3>1
      <4>3. QED
        BY <2>6, <4>1, <4>2, Zenon
    <3>4. QED
      BY <2>5, <3>1, <3>2, <3>3 DEF PhaseInv
  <2>9. AllPhases'
    BY <1>1, <2>8, PhasesStep
  <2>10. QED
    BY <2>3, <2>9
<1>6. QED
  BY <1>4, <1>5

\* A channel that has nothing to do.
LEMMA PhaseIdle ==
  ASSUME NEW c \in Channel, chan'[c] = Idle, lock' # c
  PROVE  PhaseInv(c)'
<1>1. chan'[c].at = "idle" /\ chan'[c].cmd = "none"
  BY IdleType
<1>2. QED
  BY <1>1 DEF PhaseInv, AtUnit, Holding

LEMMA Ended ==
  ASSUME TypeInv, AllPhases, NEW c \in Channel, chan[c].at # "locked", lock' = lock,
         chan' = [chan EXCEPT ![c] = Idle]
  PROVE  Others(c) /\ chan'[c] = Idle /\ AllPhases'
<1>1. chan \in [Channel -> ChanType]
  BY DEF TypeInv
<1>2. Others(c) /\ chan'[c] = Idle
  BY <1>1, IdleType, ChanStep
<1>3. lock' # c
  BY DEF AllPhases, PhaseInv
<1>4. QED
  BY <1>2, <1>3, PhaseIdle, PhasesStep

LEMMA Receive_Type ==
  ASSUME TypeInv, AllPhases, NEW c \in Channel, NEW f \in Frames, Receive(c, f)
  PROVE  /\ TypeInv' /\ AllPhases' /\ Others(c)
         /\ chan'[c].at = "unit" /\ chan'[c].cmd = "set" /\ chan'[c].done = <<>>
<1>1. chan \in [Channel -> ChanType]
  BY DEF TypeInv
<1>2. f \in Seq(Unit) /\ f # <<>>
  BY ParamAssumption
<1>3. "unit" \in Label
  BY DEF Label
<1>4. chan' = [chan EXCEPT ![c] = [Idle EXCEPT !.at = "unit", !.cmd = "set", !.units = f]]
  BY DEF Receive
<1>5. Others(c) /\ chan'[c].at = "unit" /\ chan'[c].cmd = "set" /\ chan'[c].units = f
      /\ chan'[c].done = <<>>
  <2> HIDE DEF ChanType, Unit
  <2>1. QED
    BY <1>1, <1>2, <1>3, <1>4, BegunSet
<1>6. TypeInv'
  BY <1>5 DEF TypeInv, Others, Receive, told
<1>7. Len(f) > 0
  <2> HIDE DEF Unit
  <2>1. QED
    BY <1>2
<1>8. lock' # c
  BY DEF Receive, AllPhases, PhaseInv
<1>9. PhaseInv(c)'
  BY <1>5, <1>7, <1>8 DEF PhaseInv, AtUnit, Holding
<1>10. AllPhases'
  BY <1>5, <1>9, PhasesStep DEF Receive
<1>11. QED
  BY <1>5, <1>6, <1>10

LEMMA ResetCommand_Type ==
  ASSUME TypeInv, AllPhases, NEW c \in Channel, ResetCommand(c)
  PROVE  /\ TypeInv' /\ AllPhases' /\ Others(c)
         /\ chan'[c].at = "f4read" /\ chan'[c].cmd = "F4"
<1>1. chan \in [Channel -> ChanType]
  BY DEF TypeInv
<1>2. "f4read" \in Label
  BY DEF Label
<1>3. chan' = [chan EXCEPT ![c] = [Idle EXCEPT !.at = "f4read", !.cmd = "F4"]]
  BY DEF ResetCommand
<1>4. Others(c) /\ chan'[c].at = "f4read" /\ chan'[c].cmd = "F4"
  <2> HIDE DEF ChanType
  <2>1. QED
    BY <1>1, <1>2, <1>3, BegunReset
<1>5. TypeInv'
  BY <1>4 DEF TypeInv, Others, ResetCommand, told
<1>6. lock' # c
  BY DEF ResetCommand, AllPhases, PhaseInv
<1>7. PhaseInv(c)'
  BY <1>4, <1>6 DEF PhaseInv, AtUnit, Holding
<1>8. AllPhases'
  BY <1>4, <1>7, PhasesStep DEF ResetCommand
<1>9. QED
  BY <1>4, <1>5, <1>8

LEMMA AfterSaveIs ==
  ASSUME NEW c, chan[c].cmd \in {"set", "F4"}
  PROVE  /\ AfterSave(c) \in {"clear", "f4end"} /\ AfterSave(c) \in Label
         /\ ((AfterSave(c) = "clear") <=> (chan[c].cmd = "set"))
BY DEF AfterSave, Label

LEMMA CommandIs ==
  ASSUME TypeInv, AllPhases, NEW c \in Channel, chan[c].at # "idle"
  PROVE  chan[c].cmd \in {"set", "F4"}
<1>1. chan[c].cmd \in {"none", "set", "F4"}
  BY Fields DEF TypeInv
<1>2. chan[c].cmd # "none"
  BY DEF AllPhases, PhaseInv
<1>3. QED
  BY <1>1, <1>2

LEMMA TryLock_Type ==
  ASSUME TypeInv, AllPhases, NEW c \in Channel, TryLock(c)
  PROVE  /\ TypeInv' /\ AllPhases' /\ Others(c) /\ SameRest(c)
         /\ lock = None => chan'[c].at = "locked"
<1>1. chan \in [Channel -> ChanType] /\ chan[c].at = "lock"
  BY DEF TypeInv, TryLock
<1>2. chan[c].cmd \in {"set", "F4"} /\ PhaseInv(c) /\ lock # c
  BY <1>1, CommandIs DEF AllPhases, PhaseInv
<1>3. c # None
  BY NoneIsNoValue
<1>4. CASE lock = None
  <2>1. lock' = c /\ Move(c, "locked")
    BY <1>4 DEF TryLock
  <2>2. "locked" \in Label
    BY DEF Label
  <2>3. Others(c) /\ chan'[c].at = "locked" /\ SameRest(c)
    BY <1>1, <2>1, <2>2, Moved
  <2>4. TypeInv'
    BY <2>1, <2>3 DEF TypeInv, Others, TryLock, told
  <2>5. AtUnit(c)' => AtUnit(c)
    BY <1>1, <2>3 DEF AtUnit, Holding, SameRest, SamePlace
  <2>6. PhaseInv(c)'
    BY <1>1, <1>2, <2>1, <2>3, <2>5, PhaseMoved
  <2>7. \A d \in Channel \ {c} : (lock' = d) <=> (lock = d)
    BY <1>4, <2>1, NoneIsNoValue
  <2>8. AllPhases'
    BY <2>3, <2>6, <2>7, PhasesStep
  <2>9. QED
    BY <2>3, <2>4, <2>8
<1>5. CASE lock # None
  <2> DEFINE a == AfterSave(c)
  <2>1. lock' = lock /\ Move(c, a)
    BY <1>5 DEF TryLock
  <2>2. a \in {"clear", "f4end"} /\ a \in Label /\ ((a = "clear") <=> (chan[c].cmd = "set"))
    BY <1>2, AfterSaveIs
  <2> HIDE DEF a
  <2>3. Others(c) /\ chan'[c].at = a /\ SameRest(c)
    BY <1>1, <2>1, <2>2, Moved
  <2>4. TypeInv'
    BY <2>1, <2>3 DEF TypeInv, Others, TryLock, told
  <2>5. AtUnit(c)' => AtUnit(c)
    BY <1>1, <2>3 DEF AtUnit, Holding, SameRest, SamePlace
  <2>6. PhaseInv(c)'
    BY <1>1, <1>2, <2>1, <2>2, <2>3, <2>5, PhaseMoved
  <2>7. AllPhases'
    BY <2>1, <2>3, <2>6, PhasesStep
  <2>8. QED
    BY <1>5, <2>3, <2>4, <2>7
<1>6. QED
  BY <1>4, <1>5

LEMMA Unlock_Type ==
  ASSUME TypeInv, AllPhases, NEW c \in Channel, Unlock(c)
  PROVE  TypeInv' /\ AllPhases' /\ Others(c) /\ chan'[c].at = "flush" /\ SameRest(c)
<1>1. chan \in [Channel -> ChanType] /\ chan[c].at = "locked" /\ lock' = None /\ Move(c, "flush")
  BY DEF TypeInv, Unlock
<1>2. "flush" \in Label
  BY DEF Label
<1>3. Others(c) /\ chan'[c].at = "flush" /\ SameRest(c)
  BY <1>1, <1>2, Moved
<1>4. TypeInv'
  BY <1>1, <1>3 DEF TypeInv, Others, Unlock, told
<1>5. PhaseInv(c) /\ lock = c /\ lock' # c
  BY <1>1, NoneIsNoValue DEF AllPhases, PhaseInv
<1>6. AtUnit(c)' => AtUnit(c)
  BY <1>1, <1>3 DEF AtUnit, Holding, SameRest, SamePlace
<1>7. PhaseInv(c)'
  BY <1>1, <1>3, <1>5, <1>6, PhaseMoved
<1>8. \A d \in Channel \ {c} : (lock' = d) <=> (lock = d)
  BY <1>1, <1>5, NoneIsNoValue
<1>9. AllPhases'
  BY <1>3, <1>7, <1>8, PhasesStep
<1>10. QED
  BY <1>3, <1>4, <1>9

LEMMA Flush_Type ==
  ASSUME TypeInv, AllPhases, NEW c \in Channel, Flush(c)
  PROVE  /\ TypeInv' /\ AllPhases' /\ Others(c) /\ SamePlace(c)
         /\ chan'[c].grp = chan[c].grp /\ chan'[c].ok = chan[c].ok
         /\ chan[c].cmd \in {"set", "F4"} /\ chan[c].buf \in Seq(Entry)
         /\ chan'[c].at = IF chan[c].cmd = "set" THEN "clear" ELSE "f4end"
<1> DEFINE a == AfterSave(c)
<1>1. /\ chan \in [Channel -> ChanType] /\ chan[c].at = "flush" /\ lock' = lock
      /\ chan' = [chan EXCEPT ![c].at = a, ![c].buf = <<>>]
  BY DEF TypeInv, Flush
<1>2. chan[c].cmd \in {"set", "F4"}
  BY <1>1, CommandIs
<1>3. a \in {"clear", "f4end"} /\ a \in Label /\ ((a = "clear") <=> (chan[c].cmd = "set"))
  BY <1>2, AfterSaveIs
<1> HIDE DEF a
<1>4. Others(c) /\ chan'[c].at = a /\ SamePlace(c)
         /\ chan'[c].grp = chan[c].grp /\ chan'[c].ok = chan[c].ok
  <2> HIDE DEF ChanType
  <2>1. QED
    BY <1>1, <1>3, Emptied
<1>5. chan[c].buf \in Seq(Entry)
  BY <1>1, Fields
<1>6. TypeInv'
  <2>1. file' \in Seq(Entry)
    BY <1>5, OverwriteType DEF Flush, TypeInv
  <2>2. mixed' \in BOOLEAN
    BY DEF Flush, Touch, TypeInv
  <2>3. QED
    BY <1>4, <2>1, <2>2 DEF TypeInv, Others, Flush, told
<1>7. PhaseInv(c) /\ lock' # c
  BY <1>1 DEF AllPhases, PhaseInv
<1>8. PhaseInv(c)'
  <2>1. Current(c)' = Current(c)
    BY <1>4 DEF Current, SamePlace
  <2>2. chan[c].cmd = "set" =>
          /\ AtUnit(c)
          /\ \A i \in DOMAIN chan[c].done : chan[c].done[i] = TRUE
    BY <1>1, <1>7 DEF PhaseInv, AtUnit, Holding
  <2>3. AtUnit(c)' => AtUnit(c)
    BY <1>1, <1>4 DEF AtUnit, Holding, SamePlace
  <2>4. chan'[c].at \in {"clear", "f4end"} /\ chan'[c].cmd = chan[c].cmd
        /\ chan'[c].done = chan[c].done /\ chan'[c].units = chan[c].units
    BY <1>3, <1>4 DEF SamePlace
  <2>5. chan[c].cmd = "set" => Len(chan[c].done) <= Len(chan[c].units) /\ Len(chan[c].units) > 0
    BY <1>7 DEF PhaseInv
  <2>6. AtUnit(c)' => Len(chan[c].done) < Len(chan[c].units) /\ Current(c) # Refused
                      /\ chan[c].grp = Current(c).fn
    BY <1>7, <2>3 DEF PhaseInv
  <2>7. QED
    BY <1>2, <1>3, <1>4, <1>7, <2>1, <2>2, <2>4, <2>5, <2>6 DEF PhaseInv
<1>9. AllPhases'
  BY <1>1, <1>4, <1>8, PhasesStep
<1>10. QED
  BY <1>2, <1>3, <1>4, <1>5, <1>6, <1>9

\* A unit of AFN04 is done: all before it were accepted, and the command goes
\* on only if it was.
LEMMA AppendDone ==
  ASSUME NEW dn \in Seq(BOOLEAN), NEW y \in BOOLEAN, \A i \in DOMAIN dn : dn[i] = TRUE
  PROVE  /\ Append(dn, y) \in Seq(BOOLEAN) /\ Len(Append(dn, y)) = Len(dn) + 1
         /\ DOMAIN Append(dn, y) = 1 .. Len(dn) + 1 /\ DOMAIN dn = 1 .. Len(dn)
         /\ Append(dn, y)[Len(dn) + 1] = y
         /\ \A i \in 1 .. Len(dn) : Append(dn, y)[i] = TRUE
         /\ \A i \in DOMAIN Append(dn, y) :
              Append(dn, y)[i] = ~(y = FALSE /\ i = Len(Append(dn, y)))
<1> DEFINE ne == Append(dn, y)
<1>1. ne \in Seq(BOOLEAN) /\ Len(ne) = Len(dn) + 1 /\ DOMAIN ne = 1 .. Len(dn) + 1 /\ ne[Len(dn) + 1] = y
  OBVIOUS
<1>2. \A i \in 1 .. Len(dn) : ne[i] = dn[i]
  OBVIOUS
<1>3. DOMAIN dn = 1 .. Len(dn) /\ Len(dn) \in Nat
  OBVIOUS
<1> HIDE DEF ne
<1>4. \A i \in 1 .. Len(dn) : ne[i] = TRUE
  BY <1>2, <1>3
<1>5. \A i \in DOMAIN ne : ne[i] = ~(y = FALSE /\ i = Len(ne))
  <2> TAKE i \in DOMAIN ne
  <2>1. CASE i = Len(dn) + 1
    BY <1>1, <2>1
  <2>2. CASE i # Len(dn) + 1
    <3>1. i \in 1 .. Len(dn) /\ i # Len(ne)
      BY <1>1, <1>3, <2>2
    <3>2. ne[i] = TRUE
      BY <1>4, <3>1
    <3>3. QED
      BY <3>1, <3>2
  <2>3. QED
    BY <2>1, <2>2
<1>6. QED
  BY <1>1, <1>3, <1>4, <1>5 DEF ne

LEMMA LoadGroup_Type ==
  ASSUME TypeInv, AllPhases, NEW c \in Channel, LoadGroup(c)
  PROVE  /\ TypeInv' /\ AllPhases' /\ Others(c)
         /\ chan[c].cmd = "set" /\ AtUnit(c) /\ chan'[c].cmd = "set"
         /\ chan'[c].units = chan[c].units
         /\ chan'[c].done = Append(chan[c].done, chan[c].ok)
         /\ chan'[c].at = IF chan[c].ok THEN "unit" ELSE "answer"
<1> DEFINE a == IF chan[c].ok THEN "unit" ELSE "answer"
           y == chan[c].ok
           dn == chan[c].done
<1>1. /\ chan \in [Channel -> ChanType] /\ chan[c].at = "load" /\ lock' = lock
      /\ chan' = [chan EXCEPT ![c].at = a, ![c].done = Append(@, y)]
  BY DEF TypeInv, LoadGroup
<1>2. PhaseInv(c) /\ lock # c /\ chan[c].cmd = "set"
  BY <1>1 DEF AllPhases, PhaseInv
<1>3. AtUnit(c)
  BY <1>1, <1>2 DEF AtUnit
<1>4. y \in BOOLEAN /\ dn \in Seq(BOOLEAN) /\ chan[c].grp \in Group
  BY <1>1, Fields
<1>5. a \in Label /\ a \in {"unit", "answer"} /\ ((a = "answer") <=> (y = FALSE))
  BY <1>4 DEF Label
<1> HIDE DEF a, y
<1>6. Others(c) /\ chan'[c].at = a /\ chan'[c].done = Append(chan[c].done, y)
         /\ chan'[c].cmd = chan[c].cmd /\ chan'[c].units = chan[c].units
  <2> HIDE DEF ChanType
  <2>1. QED
    BY <1>1, <1>4, <1>5, Counted
<1>7. TypeInv'
  <2>1. mixed' \in BOOLEAN
    BY DEF LoadGroup, Touch, TypeInv
  <2>2. file \in Seq(Entry)
    BY DEF TypeInv
  <2>3. GetGroup(file, chan[c].grp) \in Seq(V) \union {None}
    BY <1>4, <2>2, GetGroupType, NoneIsNoValue
  <2>4. mem' \in [Group -> Seq(V) \union {None}]
    BY <2>3 DEF LoadGroup, TypeInv
  <2>5. QED
    BY <1>6, <2>1, <2>4 DEF TypeInv, Others, LoadGroup, told
<1>8. PhaseInv(c)'
  <2>1. \A i \in DOMAIN dn : dn[i] = TRUE
    BY <1>1, <1>2 DEF PhaseInv
  <2>2. Len(dn) < Len(chan[c].units)
    BY <1>2, <1>3 DEF PhaseInv
  <2>3. Len(chan[c].units) \in Nat /\ Len(dn) \in Nat
    BY <1>1, <1>4, Fields
  <2> DEFINE ne == Append(dn, y)
  <2>4. Len(ne) = Len(dn) + 1 /\ \A i \in DOMAIN ne : ne[i] = ~(y = FALSE /\ i = Len(ne))
    <3> HIDE DEF dn
    <3>1. QED
      BY <1>4, <2>1, AppendDone
  <2> HIDE DEF ne
  <2>5. Len(ne) <= Len(chan[c].units) /\ Len(chan[c].units) > 0 /\ Len(ne) > 0
    BY <2>2, <2>3, <2>4
  <2>6. chan'[c].done = ne /\ chan'[c].cmd = "set" /\ chan'[c].units = chan[c].units
    BY <1>2, <1>6 DEF ne
  <2>7. \A i \in DOMAIN chan'[c].done :
          chan'[c].done[i] = ~(chan'[c].at = "answer" /\ i = Len(chan'[c].done))
    BY <1>5, <1>6, <2>4, <2>6
  <2>8. ~AtUnit(c)'
    BY <1>5, <1>6 DEF AtUnit, Holding
  <2>9. chan'[c].at \in {"unit", "answer"} /\ lock' # c
    BY <1>1, <1>2, <1>5, <1>6
  <2>10. QED
    BY <2>5, <2>6, <2>7, <2>8, <2>9 DEF PhaseInv
<1>9. AllPhases'
  BY <1>1, <1>6, <1>8, PhasesStep
<1>10. QED
  BY <1>2, <1>3, <1>6, <1>7, <1>9 DEF a, y

\* The units the station takes for set are those that were accepted.
LEMMA AcknowledgedIs ==
  ASSUME TypeInv, AllPhases, NEW c \in Channel, Answer(c)
  PROVE  /\ chan[c].cmd = "set" /\ ~AtUnit(c)
         /\ Acknowledged(c) = {i \in DOMAIN chan[c].done : chan[c].done[i]}
         /\ DOMAIN chan[c].done = 1 .. Len(chan[c].done)
         /\ Acknowledged(c) \subseteq 1 .. Len(chan[c].units)
<1> DEFINE dn == chan[c].done
           us == chan[c].units
<1>1. chan \in [Channel -> ChanType]
  BY DEF TypeInv
<1>2. dn \in Seq(BOOLEAN) /\ us \in Seq(Unit)
  BY <1>1, Fields
<1>3. \/ chan[c].at = "answer"
      \/ chan[c].at = "unit" /\ Len(dn) = Len(us)
  BY DEF Answer
<1>4. PhaseInv(c) /\ chan[c].cmd = "set"
  BY <1>3 DEF AllPhases, PhaseInv
<1>5. ~AtUnit(c)
  BY <1>3 DEF AtUnit, Holding
<1>6. /\ Len(dn) <= Len(us) /\ Len(us) > 0
      /\ \A i \in DOMAIN dn : dn[i] = ~(chan[c].at = "answer" /\ i = Len(dn))
      /\ chan[c].at = "answer" => Len(dn) > 0
  BY <1>4 DEF PhaseInv
<1>7. DOMAIN dn = 1 .. Len(dn) /\ Len(dn) \in Nat /\ Len(us) \in Nat
  BY <1>2
<1> HIDE DEF dn, us
<1>8. Acknowledged(c) = {i \in DOMAIN dn : dn[i]}
  <2>1. CASE chan[c].at = "answer"
    <3>0. Len(dn) \in DOMAIN dn
      BY <1>6, <1>7, <2>1
    <3>1. Len(dn) \in DOMAIN dn /\ ~dn[Len(dn)]
      BY <1>6, <2>1, <3>0, Zenon
    <3>2. AckType(dn) # "ACK_ALL_OK"
      BY <3>1 DEF AckType
    <3>3. AckType(dn) = "ACK_ALL_ERR" => {i \in DOMAIN dn : dn[i]} = {}
      BY DEF AckType
    <3>4. QED
      BY <3>2, <3>3 DEF Acknowledged, dn
  <2>2. CASE chan[c].at = "unit" /\ Len(dn) = Len(us)
    <3>1. \A i \in DOMAIN dn : dn[i] = TRUE
      BY <1>6, <2>2
    <3>2. 1 \in DOMAIN dn
      BY <1>6, <1>7, <2>2
    <3>3. AckType(dn) = "ACK_ALL_OK"
      BY <3>1, <3>2 DEF AckType
    <3>4. Acknowledged(c) = 1 .. Len(us)
      BY <3>3 DEF Acknowledged, dn, us
    <3>5. QED
      BY <1>7, <2>2, <3>1, <3>4
  <2>3. QED
    BY <1>3, <2>1, <2>2
<1>9. Acknowledged(c) \subseteq 1 .. Len(us)
  BY <1>6, <1>7, <1>8
<1>10. QED
  BY <1>4, <1>5, <1>7, <1>8, <1>9 DEF dn, us

\* The last unit of a set of them.
LEMMA LatestOf ==
  ASSUME NEW n \in Nat, NEW S \in SUBSET (1 .. n), S # {}
  PROVE  Latest(S) \in S
<1> DEFINE T == {m \in Nat : n - m \in S}
<1>1. T # {}
  <2>1. PICK i \in S : TRUE
    OBVIOUS
  <2>2. n - i \in Nat /\ n - (n - i) = i
    OBVIOUS
  <2>3. QED
    BY <2>1, <2>2
<1>2. PICK m \in T : \A y \in T : m <= y
  <2> HIDE DEF T
  <2>1. T \in SUBSET Nat
    BY DEF T
  <2>2. QED
    BY <1>1, <2>1, LeastOf
<1>3. n - m \in S
  OBVIOUS
<1>4. \A j \in S : j <= n - m
  <2> TAKE j \in S
  <2>1. n - j \in Nat /\ n - (n - j) = j
    OBVIOUS
  <2>2. n - j \in T
    BY <2>1
  <2>3. m <= n - j
    BY <1>2, <2>2
  <2>4. QED
    BY <2>1, <2>3
<1> HIDE DEF T
<1>5. QED
  BY <1>3, <1>4 DEF Latest

LEMMA SetValue ==
  ASSUME TypeInv, NEW c \in Channel, NEW g \in Group,
         NEW S \in SUBSET (1 .. Len(chan[c].units)), S # {},
         \A i \in S : chan[c].units[i].fn = g
  PROVE  All(g, chan[c].units[Latest(S)].val) \in ValuesOf(g)
<1> DEFINE us == chan[c].units
           m == Latest(S)
<1>1. us \in Seq(Unit)
  BY Fields DEF TypeInv
<1> HIDE DEF us, Unit
<1>2. Len(us) \in Nat
  BY <1>1
<1>3. m \in S
  BY <1>2, LatestOf DEF us
<1> HIDE DEF m
<1>4. m \in 1 .. Len(us) /\ us[m].fn = g
  BY <1>3 DEF us
<1>5. us[m] \in Unit
  BY <1>1, <1>4
<1>6. us[m] # Refused
  <2>1. Refused.fn = "other"
    BY DEF Refused
  <2>2. "other" \notin Group
    BY Groups
  <2>3. QED
    BY <1>4, <2>1, <2>2
<1>7. us[m] \in [fn : Group, val : Val]
  BY <1>5, <1>6 DEF Unit
<1>8. us[m].val \in V
  <2> HIDE DEF Group
  <2>1. us[m].val \in Val
    BY <1>7
  <2>2. QED
    BY <2>1 DEF V
<1>9. QED
  BY <1>8, AllType DEF us, m

LEMMA Answer_Type ==
  ASSUME TypeInv, AllPhases, NEW c \in Channel, Answer(c)
  PROVE  TypeInv' /\ AllPhases' /\ Others(c) /\ chan'[c] = Idle
<1>1. lock' = lock /\ chan' = [chan EXCEPT ![c] = Idle] /\ chan[c].at # "locked"
  BY DEF Answer
<1>2. Others(c) /\ chan'[c] = Idle /\ AllPhases'
  BY <1>1, Ended
<1>3. believed' \in [Group -> Seq(V) \union {None}]
  <2> DEFINE mine(g) == {i \in Acknowledged(c) : chan[c].units[i].fn = g /\ last[g] = c}
             to(g) == All(g, chan[c].units[Latest(mine(g))].val)
  <2>1. believed' = [g \in Group |-> IF mine(g) = {} THEN believed[g] ELSE to(g)]
    BY DEF Answer, Latest
  <2>2. ASSUME NEW g \in Group, mine(g) # {} PROVE to(g) \in Seq(V)
    <3>1. mine(g) \in SUBSET (1 .. Len(chan[c].units)) /\ \A i \in mine(g) : chan[c].units[i].fn = g
      BY AcknowledgedIs
    <3> HIDE DEF mine
    <3>2. to(g) \in ValuesOf(g)
      BY <2>2, <3>1, SetValue
    <3>3. QED
      BY <3>2, NoneIsNoValue
  <2>3. believed \in [Group -> Seq(V) \union {None}]
    BY DEF TypeInv
  <2> HIDE DEF mine, to
  <2>4. QED
    BY <2>1, <2>2, <2>3
<1>4. TypeInv'
  BY <1>2, <1>3 DEF TypeInv, Others, Answer
<1>5. QED
  BY <1>2, <1>4

LEMMA F4End_Type ==
  ASSUME TypeInv, AllPhases, NEW c \in Channel, F4End(c)
  PROVE  TypeInv' /\ AllPhases' /\ Others(c) /\ chan'[c] = Idle
<1>1. lock' = lock /\ chan' = [chan EXCEPT ![c] = Idle] /\ chan[c].at # "locked"
  BY DEF F4End
<1>2. Others(c) /\ chan'[c] = Idle /\ AllPhases'
  BY <1>1, Ended
<1>3. believed' \in [Group -> Seq(V) \union {None}]
  <2>1. \A g \in Group : GetGroup(init, g) \in Seq(V) \union {None}
    BY GetGroupType, DefaultIsComplete, NoneIsNoValue DEF TypeInv
  <2>2. QED
    BY <2>1 DEF F4End, TypeInv
<1>4. TypeInv'
  BY <1>2, <1>3 DEF TypeInv, Others, F4End
<1>5. QED
  BY <1>2, <1>4

LEMMA F4Read_Type ==
  ASSUME TypeInv, AllPhases, NEW c \in Channel, F4Read(c)
  PROVE  /\ TypeInv' /\ AllPhases' /\ Others(c) /\ chan[c].cmd = "F4"
         /\ GetGroup(file, "F3") = None => chan'[c] = Idle
         /\ GetGroup(file, "F3") # None =>
              /\ chan'[c].at = "f4copy" /\ chan'[c].val = GetGroup(file, "F3") /\ chan'[c].cmd = "F4"
<1> DEFINE v == GetGroup(file, "F3")
<1>1. chan \in [Channel -> ChanType] /\ file \in Seq(Entry) /\ chan[c].at = "f4read" /\ lock' = lock
  BY DEF TypeInv, F4Read
<1>2. PhaseInv(c) /\ lock # c /\ chan[c].cmd = "F4"
  BY <1>1 DEF AllPhases, PhaseInv
<1>3. "F3" \in Group
  BY Groups
<1>4. TypeInv' <=> chan' \in [Channel -> ChanType]
  <2>1. mixed' \in BOOLEAN
    BY DEF F4Read, Touch, TypeInv
  <2>2. last' \in [Group -> Channel \union {None}]
    BY DEF F4Read, TypeInv
  <2>3. QED
    BY <2>1, <2>2 DEF TypeInv, F4Read
<1>5. CASE v = None
  <2>1. chan' = [chan EXCEPT ![c] = Idle]
    BY <1>5 DEF F4Read
  <2>2. Others(c) /\ chan'[c] = Idle /\ AllPhases'
    BY <1>1, <2>1, Ended
  <2>3. QED
    BY <1>2, <1>4, <1>5, <2>2 DEF Others
<1>6. CASE v # None
  <2>1. chan' = [chan EXCEPT ![c].at = "f4copy", ![c].val = v]
    BY <1>6 DEF F4Read
  <2>2. v \in ValuesOf("F3") /\ v \in Seq(V)
    BY <1>1, <1>3, <1>6, GetGroupType, NoneIsNoValue
  <2>3. "f4copy" \in Label
    BY DEF Label
  <2> HIDE DEF v, ChanType
  <2>4. Others(c) /\ chan'[c].at = "f4copy" /\ chan'[c].val = v /\ SamePlace(c)
    BY <1>1, <2>1, <2>2, <2>3, Kept
  <2>5. PhaseInv(c)'
    BY <1>1, <1>2, <2>2, <2>4 DEF PhaseInv, SamePlace, AtUnit, Holding, ValuesOf
  <2>6. AllPhases'
    BY <1>1, <2>4, <2>5, PhasesStep
  <2>7. QED
    BY <1>2, <1>4, <1>6, <2>4, <2>6 DEF Others, SamePlace, v
<1>7. QED
  BY <1>5, <1>6

LEMMA F4Save_Type ==
  ASSUME TypeInv, AllPhases, NEW c \in Channel, F4Save(c)
  PROVE  /\ TypeInv' /\ AllPhases' /\ Others(c) /\ SamePlace(c) /\ chan[c].cmd = "F4"
         /\ chan[c].val \in ValuesOf("F3")
         /\ ReadFile(c, "F3", chan[c].val)
<1>1. /\ chan[c].at = "f4save" /\ lock' = lock /\ ReadFile(c, "F3", chan[c].val)
      /\ UNCHANGED <<init, file, mem, lock, believed, last, torn>>
  BY DEF F4Save, told
<1>2. PhaseInv(c) /\ lock # c /\ chan[c].cmd = "F4" /\ chan[c].val \in ValuesOf("F3")
  BY <1>1 DEF AllPhases, PhaseInv
<1>3. "F3" \in Group
  BY Groups
<1>4. Others(c) /\ SamePlace(c) /\ mixed' \in BOOLEAN /\ chan'[c].at \in {"f4end", "open"}
  BY <1>1, <1>2, <1>3, ReadFile_Is
<1>5. TypeInv'
  BY <1>1, <1>4 DEF TypeInv, Others
<1>6. PhaseInv(c)'
  BY <1>1, <1>2, <1>4 DEF PhaseInv, SamePlace, AtUnit, Holding
<1>7. AllPhases'
  BY <1>1, <1>4, <1>6, PhasesStep
<1>8. QED
  BY <1>1, <1>2, <1>4, <1>5, <1>7

LEMMA PowerCut_Type ==
  ASSUME TypeInv, AllPhases, PowerCut
  PROVE  TypeInv' /\ AllPhases' /\ \A c \in Channel : chan'[c] = Idle
<1>1. chan' = [c \in Channel |-> Idle] /\ lock' = None
  BY DEF PowerCut
<1>2. \A c \in Channel : chan'[c] = Idle /\ lock' # c
  BY <1>1, NoneIsNoValue
<1>3. AllPhases'
  BY <1>2, PhaseIdle DEF AllPhases
<1>4. chan' \in [Channel -> ChanType]
  BY <1>1, IdleType
<1>5. mem' \in [Group -> Seq(V) \union {None}]
  <2>1. Zeroed \in [Group -> Seq(V) \union {None}]
    BY DEF Zeroed
  <2>2. QED
    BY <2>1, LoadAllType DEF PowerCut, TermParaPowerUp, TypeInv
<1>6. believed' \in [Group -> Seq(V) \union {None}]
  <2>1. \A g \in Group : GetGroup(file, g) \in Seq(V) \union {None}
    BY GetGroupType, NoneIsNoValue DEF TypeInv
  <2>2. QED
    BY <2>1 DEF PowerCut, TypeInv
<1>7. torn' \in BOOLEAN
  BY DEF PowerCut, TypeInv
<1>8. TypeInv'
  BY <1>1, <1>4, <1>5, <1>6, <1>7 DEF TypeInv, PowerCut
<1>9. QED
  BY <1>2, <1>3, <1>8

-----------------------------------------------------------------------------
(* The file and the memory, as long as one command at a time has the file.  *)

OnlyMe(c) == \A d \in Channel \ {c} : ~Saving(d)
Loading(c) == chan[c].at \in {"copied", "f4load"}

LEMMA NotMixed ==
  ASSUME TypeInv, NEW c \in Channel, Touch(c), ~mixed'
  PROVE  ~mixed /\ OnlyMe(c)
BY DEF TypeInv, Touch, OthersSave, OnlyMe

LEMMA NotSaving ==
  ASSUME NEW c, ~Saving(c)
  PROVE  /\ ~Holding(c) /\ ~Gap(c) /\ ~Resetting(c) /\ ~Loading(c)
         /\ chan[c].at \notin {"f4copy", "copied", "f4load", "f4save"}
BY DEF Saving, Holding, Gap, Resetting, Loading

LEMMA AloneStep ==
  ASSUME Alone, NEW c \in Channel, Others(c), OnlyMe(c) \/ (Saving(c)' => Saving(c))
  PROVE  Alone'
<1>1. \A d \in Channel \ {c} : Saving(d)' = Saving(d)
  BY SameFor DEF Others
<1>2. ASSUME NEW d \in Channel, NEW e \in Channel, Saving(d)', Saving(e)' PROVE d = e
  <2>1. CASE OnlyMe(c)
    BY <1>1, <1>2, <2>1 DEF OnlyMe
  <2>2. CASE Saving(c)' => Saving(c)
    BY <1>1, <1>2, <2>2 DEF Alone
  <2>3. QED
    BY <2>1, <2>2
<1>3. QED
  BY <1>2 DEF Alone

LEMMA FileOther ==
  ASSUME NEW d \in Channel, chan'[d] = chan[d], init' = init, torn => torn', FileOf(d),
         ~Saving(d) \/ (file' = file /\ last' = last)
  PROVE  FileOf(d)'
<1>1. Holding(d)' = Holding(d) /\ AtUnit(d)' = AtUnit(d)
  BY SameFor
<1>2. CASE ~Saving(d)
  <2>1. ~Holding(d) /\ chan[d].at \notin {"f4copy", "copied", "f4load", "f4save"}
    BY <1>2, NotSaving
  <2>2. QED
    BY <1>1, <2>1 DEF FileOf
<1>3. CASE file' = file /\ last' = last
  <2>1. Holding(d) => Complete(chan'[d].buf)
    BY DEF FileOf
  <2>2. chan[d].at = "f4copy" => GetGroup(file, "F3")' = GetGroup(file, "F3")
    BY <1>3
  <2>3. QED
    BY <1>1, <1>3, <2>1, <2>2 DEF FileOf
<1>4. QED
  BY <1>2, <1>3

\* A channel that is not in the file does not count.
LEMMA GapOthers ==
  ASSUME NEW c \in Channel, Others(c), OnlyMe(c)
  PROVE  /\ Whole <=> ~Gap(c)
         /\ (Whole <=> ~Gap(c))'
         /\ InPlace <=> ~Holding(c) /\ ~(chan[c].at = "copied")
         /\ (InPlace <=> ~Holding(c) /\ ~(chan[c].at = "copied"))'
         /\ \A d \in Channel \ {c} : ~Holding(d) /\ ~Holding(d)' /\ ~Loading(d) /\ ~Loading(d)'
                                     /\ ~Saving(d)'
<1>1. \A d \in Channel \ {c} : /\ ~Holding(d) /\ ~Gap(d) /\ ~Loading(d) /\ chan[d].at # "copied"
                               /\ chan'[d] = chan[d] /\ ~Saving(d)
  BY NotSaving DEF OnlyMe, Others
<1>2. \A d \in Channel \ {c} : /\ ~Holding(d)' /\ ~Gap(d)' /\ ~Loading(d)' /\ chan'[d].at # "copied"
                               /\ ~Saving(d)'
  BY <1>1, SameFor DEF Loading
<1>3. QED
  BY <1>1, <1>2 DEF Whole, InPlace

\* The groups still to be loaded, after a step of one channel.
LEMMA PendingStep ==
  ASSUME NEW c \in Channel, Others(c), NEW g
  PROVE  /\ Pending(g)' => \/ Pending(g)
                           \/ AtUnit(c)' /\ chan'[c].grp = g
                           \/ Loading(c)'
         /\ Pending(g) => \/ Pending(g)'
                          \/ AtUnit(c) /\ chan[c].grp = g
                          \/ Loading(c)
         /\ (AtUnit(c) /\ chan[c].grp = g) \/ Loading(c) => Pending(g)
         /\ (AtUnit(c)' /\ chan'[c].grp = g) \/ Loading(c)' => Pending(g)'
<1>1. \A d \in Channel \ {c} : AtUnit(d)' = AtUnit(d) /\ chan'[d] = chan[d]
  BY SameFor DEF Others
<1>2. QED
  BY <1>1 DEF Pending, Loading

\* A step that leaves file and memory alone, and its command where it was.
LEMMA Neutral ==
  ASSUME FileInv, MemInv, NEW c \in Channel, Others(c), UNCHANGED <<init, file, mem, last, torn>>,
         Saving(c)' <=> Saving(c), Holding(c)' <=> Holding(c), Gap(c)' <=> Gap(c),
         AtUnit(c)' <=> AtUnit(c), Loading(c)' <=> Loading(c),
         (chan'[c].at = "copied") <=> (chan[c].at = "copied"),
         Holding(c) => chan'[c].buf = chan[c].buf,
         AtUnit(c) => chan'[c].grp = chan[c].grp,
         FileOf(c) => FileOf(c)'
  PROVE  FileInv' /\ MemInv'
<1>1. \A d \in Channel \ {c} :
        /\ Saving(d)' = Saving(d) /\ Holding(d)' = Holding(d) /\ Gap(d)' = Gap(d)
        /\ chan'[d] = chan[d]
  BY SameFor DEF Others
<1>2. \A d \in Channel :
        /\ (Saving(d)' <=> Saving(d)) /\ (Holding(d)' <=> Holding(d)) /\ (Gap(d)' <=> Gap(d))
        /\ (chan'[d].at = "copied") <=> (chan[d].at = "copied")
        /\ Holding(d) => chan'[d].buf = chan[d].buf
  BY <1>1
<1>3. Alone'
  BY AloneStep DEF FileInv
<1>4. (Whole' <=> Whole) /\ (InPlace' <=> InPlace)
  BY <1>2, Zenon DEF Whole, InPlace
<1>5. \A d \in Channel : FileOf(d)'
  <2> TAKE d \in Channel
  <2>1. FileOf(d)
    BY DEF FileInv
  <2>2. CASE d # c
    BY <1>1, <2>1, <2>2, FileOther
  <2>3. QED
    BY <2>1, <2>2
<1>6. Whole' => Complete(file') \/ EmptySince'
  BY <1>2, <1>4 DEF FileInv, EmptySince
<1>7. ~Whole' => file' = <<>>
  BY <1>4 DEF FileInv
<1>8. MemInv'
  <2> SUFFICES ASSUME NEW g \in Loaded, ~Pending(g)'
               PROVE  /\ \A d \in Channel : Holding(d)' => mem'[g] = GetGroup(chan'[d].buf, g)
                      /\ InPlace' => mem'[g] = GetGroup(file', g)
    BY DEF MemInv
  <2>1. ~Pending(g)
    BY PendingStep
  <2>2. /\ \A d \in Channel : Holding(d) => mem[g] = GetGroup(chan[d].buf, g)
        /\ InPlace => mem[g] = GetGroup(file, g)
    BY <2>1 DEF MemInv
  <2>3. \A d \in Channel : Holding(d)' => mem'[g] = GetGroup(chan'[d].buf, g)
    BY <1>2, <2>2
  <2>4. QED
    BY <1>4, <2>2, <2>3
<1>9. QED
  BY <1>3, <1>5, <1>6, <1>7, <1>8 DEF FileInv

\* A command between units, or that begins or ends.
LEMMA Outside ==
  ASSUME FileInv, MemInv, NEW c \in Channel, Others(c), UNCHANGED <<init, file, mem, last, torn>>,
         ~Saving(c), ~Saving(c)', ~AtUnit(c), ~AtUnit(c)'
  PROVE  FileInv' /\ MemInv'
<1>1. /\ ~Holding(c) /\ ~Gap(c) /\ ~Loading(c)
      /\ chan[c].at \notin {"f4copy", "copied", "f4load", "f4save"}
  BY NotSaving
<1>2. /\ ~Holding(c)' /\ ~Gap(c)' /\ ~Loading(c)'
      /\ chan'[c].at \notin {"f4copy", "copied", "f4load", "f4save"}
  BY DEF Saving, Holding, Gap, Loading
<1>3. FileOf(c)'
  BY <1>2 DEF FileOf
<1>4. QED
  BY <1>1, <1>2, <1>3, Neutral

\* A command that has emptied the file, on its way to the new text.
LEMMA Within ==
  ASSUME FileInv, MemInv, NEW c \in Channel, Others(c), UNCHANGED <<init, file, mem, last, torn>>,
         SameRest(c), chan[c].at \in {"lock", "locked"}, chan'[c].at \in {"locked", "flush"}
  PROVE  FileInv' /\ MemInv'
<1>1. /\ Saving(c) /\ Holding(c) /\ Gap(c) /\ ~Loading(c)
      /\ chan[c].at \notin {"f4copy", "copied", "f4load", "f4save"}
  BY DEF Saving, Holding, Gap, Loading
<1>2. /\ Saving(c)' /\ Holding(c)' /\ Gap(c)' /\ ~Loading(c)'
      /\ chan'[c].at \notin {"f4copy", "copied", "f4load", "f4save"}
  BY DEF Saving, Holding, Gap, Loading
<1>3. AtUnit(c)' = AtUnit(c)
  BY <1>1, <1>2 DEF AtUnit, SameRest, SamePlace
<1>4. /\ chan'[c].ok = chan[c].ok /\ chan'[c].buf = chan[c].buf /\ chan'[c].grp = chan[c].grp
  BY DEF SameRest
<1>5. FileOf(c) => FileOf(c)'
  BY <1>1, <1>2, <1>3, <1>4 DEF FileOf
<1>6. QED
  BY <1>1, <1>2, <1>3, <1>4, <1>5, Neutral

LEMMA Receive_File ==
  ASSUME TypeInv, AllPhases, FileInv, MemInv, NEW c \in Channel, NEW f \in Frames, Receive(c, f)
  PROVE  FileInv' /\ MemInv'
<1>1. Others(c) /\ chan'[c].at = "unit"
  BY Receive_Type
<1>2. chan[c].at = "idle" /\ UNCHANGED <<init, file, mem, last, torn>>
  BY DEF Receive, told
<1>3. ~Saving(c) /\ ~Saving(c)' /\ ~AtUnit(c) /\ ~AtUnit(c)'
  BY <1>1, <1>2 DEF Saving, AtUnit, Holding
<1>4. QED
  BY <1>1, <1>2, <1>3, Outside

LEMMA ResetCommand_File ==
  ASSUME TypeInv, AllPhases, FileInv, MemInv, NEW c \in Channel, ResetCommand(c)
  PROVE  FileInv' /\ MemInv'
<1>1. Others(c) /\ chan'[c].at = "f4read"
  BY ResetCommand_Type
<1>2. chan[c].at = "idle" /\ UNCHANGED <<init, file, mem, last, torn>>
  BY DEF ResetCommand, told
<1>3. ~Saving(c) /\ ~Saving(c)' /\ ~AtUnit(c) /\ ~AtUnit(c)'
  BY <1>1, <1>2 DEF Saving, AtUnit, Holding
<1>4. QED
  BY <1>1, <1>2, <1>3, Outside

LEMMA Answer_File ==
  ASSUME TypeInv, AllPhases, FileInv, MemInv, NEW c \in Channel, Answer(c)
  PROVE  FileInv' /\ MemInv'
<1>1. Others(c) /\ chan'[c].at = "idle"
  BY Answer_Type, IdleType
<1>2. chan[c].at \in {"answer", "unit"} /\ UNCHANGED <<init, file, mem, last, torn>>
  BY DEF Answer
<1>3. ~Saving(c) /\ ~Saving(c)' /\ ~AtUnit(c) /\ ~AtUnit(c)'
  BY <1>1, <1>2 DEF Saving, AtUnit, Holding
<1>4. QED
  BY <1>1, <1>2, <1>3, Outside

LEMMA F4End_File ==
  ASSUME TypeInv, AllPhases, FileInv, MemInv, NEW c \in Channel, F4End(c)
  PROVE  FileInv' /\ MemInv'
<1>1. Others(c) /\ chan'[c].at = "idle"
  BY F4End_Type, IdleType
<1>2. chan[c].at = "f4end" /\ UNCHANGED <<init, file, mem, last, torn>>
  BY DEF F4End
<1>3. ~Saving(c) /\ ~Saving(c)' /\ ~AtUnit(c) /\ ~AtUnit(c)'
  BY <1>1, <1>2 DEF Saving, AtUnit, Holding
<1>4. QED
  BY <1>1, <1>2, <1>3, Outside

\* Nobody else can have the lock.
LEMMA LockIsFree ==
  ASSUME TypeInv, AllPhases, Alone, NEW c \in Channel, chan[c].at = "lock"
  PROVE  lock = None
<1>1. ASSUME lock # None PROVE FALSE
  <2>1. lock \in Channel
    BY <1>1 DEF TypeInv
  <2>2. chan[lock].at = "locked"
    BY <2>1 DEF AllPhases, PhaseInv
  <2>3. Saving(lock) /\ Saving(c) /\ lock # c
    BY <2>2 DEF Saving
  <2>4. QED
    BY <2>1, <2>3 DEF Alone
<1>2. QED
  BY <1>1

LEMMA TryLock_File ==
  ASSUME TypeInv, AllPhases, FileInv, MemInv, NEW c \in Channel, TryLock(c)
  PROVE  FileInv' /\ MemInv' /\ chan'[c].at = "locked"
<1>1. chan[c].at = "lock" /\ UNCHANGED <<init, file, mem, last, torn>>
  BY DEF TryLock, told
<1>2. lock = None
  BY <1>1, LockIsFree DEF FileInv
<1>3. Others(c) /\ SameRest(c) /\ chan'[c].at = "locked"
  BY <1>2, TryLock_Type
<1>4. QED
  BY <1>1, <1>3, Within

LEMMA Unlock_File ==
  ASSUME TypeInv, AllPhases, FileInv, MemInv, NEW c \in Channel, Unlock(c)
  PROVE  FileInv' /\ MemInv'
<1>1. chan[c].at = "locked" /\ UNCHANGED <<init, file, mem, last, torn>>
  BY DEF Unlock, told
<1>2. Others(c) /\ SameRest(c) /\ chan'[c].at = "flush"
  BY Unlock_Type
<1>3. QED
  BY <1>1, <1>2, Within

\* A step of the only command that is in the file.
LEMMA FileStep ==
  ASSUME FileInv, NEW c \in Channel, Others(c), OnlyMe(c), init' = init, torn => torn', FileOf(c)',
         Gap(c)' => file' = <<>>,
         ~Gap(c)' => \/ Complete(file')
                     \/ file' = <<>> /\ torn' /\ ~Saving(c)' /\ \A g \in Loaded : mem'[g] = None
  PROVE  FileInv'
<1>1. Alone'
  BY AloneStep DEF FileInv
<1>2. Whole' <=> ~Gap(c)'
  BY GapOthers
<1>3. \A d \in Channel : FileOf(d)'
  <2> TAKE d \in Channel
  <2>1. CASE d # c
    BY <2>1, FileOther DEF FileInv, Others, OnlyMe
  <2>2. QED
    BY <2>1
<1>4. ~Saving(c)' => \A d \in Channel : ~Saving(d)'
  BY GapOthers
<1>5. ~Whole' => file' = <<>>
  BY <1>2
<1>6. Whole' => Complete(file') \/ EmptySince'
  BY <1>2, <1>4 DEF EmptySince
<1>7. QED
  BY <1>1, <1>3, <1>5, <1>6 DEF FileInv

LEMMA MemStep ==
  ASSUME NEW c \in Channel, Others(c), OnlyMe(c),
         ASSUME NEW g \in Loaded, ~Pending(g)'
         PROVE  /\ Holding(c)' => mem'[g] = GetGroup(chan'[c].buf, g)
                /\ ~Holding(c)' /\ ~(chan'[c].at = "copied") => mem'[g] = GetGroup(file', g)
  PROVE  MemInv'
<1>1. InPlace' <=> ~Holding(c)' /\ ~(chan'[c].at = "copied")
  BY GapOthers
<1>2. \A d \in Channel \ {c} : ~Holding(d)'
  BY GapOthers
<1>3. QED
  BY <1>1, <1>2 DEF MemInv

LEMMA MemOf ==
  ASSUME MemInv, NEW c \in Channel, Others(c), OnlyMe(c), NEW g \in Loaded, ~Pending(g)
  PROVE  /\ Holding(c) => mem[g] = GetGroup(chan[c].buf, g)
         /\ ~Holding(c) /\ ~(chan[c].at = "copied") => mem[g] = GetGroup(file, g)
<1>1. InPlace <=> ~Holding(c) /\ ~(chan[c].at = "copied")
  BY GapOthers
<1>2. QED
  BY <1>1 DEF MemInv

LEMMA FileIs ==
  ASSUME FileInv, NEW c \in Channel, Others(c), OnlyMe(c)
  PROVE  /\ Gap(c) => file = <<>>
         /\ ~Gap(c) => \/ Complete(file)
                       \/ /\ file = <<>> /\ torn /\ ~Saving(c)
                          /\ \A g \in Loaded : mem[g] = None
         /\ FileOf(c)
<1>1. Whole <=> ~Gap(c)
  BY GapOthers
<1>2. QED
  BY <1>1 DEF FileInv, EmptySince

LEMMA LoadedGroups ==
  ASSUME NEW g \in Loaded
  PROVE  g \in Group /\ g \in InDefault /\ g \in AtBoot /\ g # "F3" /\ g # "F16"
<1>1. "F3" \in Group
  BY Groups
<1>2. QED
  BY DEF Loaded, AtBoot, InDefault

\* A complete file is not empty.
LEMMA CompleteNotEmpty ==
  ASSUME NEW f, Complete(f)
  PROVE  f # <<>> /\ f \in Seq(Entry) /\ GetGroup(f, "F3") # None
<1>1. "F3" \in Group /\ "F3" # "F16"
  BY Groups
<1>2. GetGroup(f, "F3") # None
  BY <1>1 DEF Complete, InDefault
<1>3. QED
  BY <1>1, <1>2, EmptyHasNothing DEF Complete

LEMMA NextUnit_File ==
  ASSUME TypeInv, AllPhases, FileInv, MemInv, NEW c \in Channel, NextUnit(c), ~mixed'
  PROVE  FileInv' /\ MemInv'
<1> DEFINE u == Current(c)
           vs == All(u.fn, u.val)
<1>1. /\ Others(c) /\ chan[c].at = "unit" /\ chan[c].cmd = "set"
      /\ UNCHANGED <<init, file, mem, lock, believed, torn>>
  BY NextUnit_Is
<1>2. ~Saving(c) /\ ~AtUnit(c) /\ ~Holding(c) /\ ~Gap(c) /\ ~(chan[c].at = "copied") /\ ~Loading(c)
  BY <1>1 DEF Saving, AtUnit, Holding, Gap, Loading
<1>3. CASE u = Refused
  <2>1. chan'[c].at = "answer" /\ UNCHANGED last
    BY <1>3, NextUnit_Is
  <2>2. ~Saving(c)' /\ ~AtUnit(c)'
    BY <2>1 DEF Saving, AtUnit, Holding
  <2>3. QED
    BY <1>1, <1>2, <2>1, <2>2, Outside
<1>4. CASE u # Refused
  <2>1. /\ u.fn \in Group /\ vs \in ValuesOf(u.fn)
        /\ ReadFile(c, u.fn, vs) /\ last' = [last EXCEPT ![u.fn] = c]
    BY <1>4, NextUnit_Is
  <2> DEFINE g0 == u.fn
  <2> HIDE DEF vs, u
  <2>2. Touch(c)
    BY <2>1 DEF ReadFile
  <2>3. OnlyMe(c)
    BY <2>2, NotMixed
  <2>4. \/ Complete(file)
        \/ file = <<>> /\ torn /\ \A g \in Loaded : mem[g] = None
    BY <1>1, <1>2, <2>3, FileIs
  <2>5. /\ chan'[c].grp = g0 /\ chan'[c].cmd = "set"
        /\ file = <<>> => chan'[c].at = "clear" /\ chan'[c].ok = FALSE
        /\ file # <<>> => /\ chan'[c].at = "open" /\ chan'[c].ok = TRUE
                          /\ chan'[c].buf = PutGroup(file, g0, vs)
    <3>1. g0 \in Group /\ vs \in ValuesOf(g0) /\ ReadFile(c, g0, vs)
      BY <2>1
    <3> HIDE DEF g0
    <3>2. SamePlace(c) /\ chan'[c].grp = g0
          /\ (file = <<>> => chan'[c].at = (IF chan[c].at = "f4save" THEN "f4end" ELSE "clear")
                             /\ chan'[c].ok = FALSE)
          /\ (file # <<>> => /\ chan'[c].at = "open" /\ chan'[c].ok = TRUE
                             /\ chan'[c].buf = PutGroup(file, g0, vs))
      BY <3>1, ReadFile_Is
    <3>3. chan[c].at # "f4save" /\ chan'[c].cmd = "set"
      BY <1>1, <3>2 DEF SamePlace
    <3>4. QED
      BY <3>2, <3>3
  <2>6. ASSUME NEW g \in Loaded, ~Pending(g)' PROVE g # g0 /\ mem'[g] = GetGroup(file, g)
    <3>1. ~Pending(g) /\ ~(AtUnit(c)' /\ chan'[c].grp = g)
      BY <1>1, <1>2, <2>6, PendingStep
    <3>2. AtUnit(c)'
      BY <2>5 DEF AtUnit, Holding
    <3>3. mem[g] = GetGroup(file, g)
      BY <1>1, <1>2, <2>3, <3>1, MemOf
    <3>4. QED
      BY <1>1, <2>5, <3>1, <3>2, <3>3
  <2>7. CASE file = <<>>
    <3>1. chan'[c].at = "clear" /\ torn /\ \A g \in Loaded : mem[g] = None
      BY <2>4, <2>5, <2>7, CompleteNotEmpty
    <3>2. ~Saving(c)' /\ ~Gap(c)' /\ ~Holding(c)'
      BY <3>1 DEF Saving, Gap, Holding
    <3>3. FileOf(c)'
      BY <1>1, <3>1, <3>2 DEF FileOf
    <3>4. FileInv'
      BY <1>1, <2>3, <2>7, <3>1, <3>2, <3>3, FileStep
    <3>5. MemInv'
      BY <1>1, <2>3, <2>6, <3>2, MemStep
    <3>6. QED
      BY <3>4, <3>5
  <2>8. CASE file # <<>>
    <3>1. Complete(file) /\ file \in Seq(Entry)
      BY <2>4, <2>8 DEF Complete
    <3>2. chan'[c].at = "open" /\ chan'[c].ok = TRUE /\ chan'[c].buf = PutGroup(file, g0, vs)
      BY <2>5, <2>8
    <3>3. Complete(chan'[c].buf)
      BY <2>1, <3>1, <3>2, PutGroupComplete
    <3>4. ~Gap(c)' /\ Holding(c)'
      BY <3>2 DEF Gap, Holding
    <3>5. FileOf(c)'
      BY <3>2, <3>3 DEF FileOf
    <3>6. FileInv'
      BY <1>1, <2>3, <3>1, <3>4, <3>5, FileStep
    <3>7. \A g \in Group \ {g0} : GetGroup(chan'[c].buf, g) = GetGroup(file, g)
      BY <2>1, <3>1, <3>2, PutGroupGets
    <3>8. ASSUME NEW g \in Loaded, ~Pending(g)' PROVE mem'[g] = GetGroup(chan'[c].buf, g)
      BY <2>6, <3>7, <3>8, LoadedGroups
    <3>9. MemInv'
      BY <1>1, <2>3, <3>4, <3>8, MemStep
    <3>10. QED
      BY <3>6, <3>9
  <2>9. QED
    BY <2>7, <2>8
<1>5. QED
  BY <1>3, <1>4

LEMMA Truncate_File ==
  ASSUME TypeInv, AllPhases, FileInv, MemInv, NEW c \in Channel, Truncate(c), ~mixed'
  PROVE  FileInv' /\ MemInv'
<1>1. chan[c].at = "open" /\ file' = <<>> /\ Touch(c) /\ UNCHANGED <<init, mem, last, torn>>
  BY DEF Truncate, told
<1>2. Others(c) /\ chan'[c].at = "lock" /\ SameRest(c)
  BY Truncate_Type
<1>3. OnlyMe(c)
  BY <1>1, NotMixed
<1>4. Holding(c) /\ ~Loading(c) /\ FileOf(c)
  BY <1>1 DEF Holding, Loading, FileInv
<1>5. Holding(c)' /\ Gap(c)' /\ ~Loading(c)' /\ (AtUnit(c)' <=> AtUnit(c))
  BY <1>2, <1>4 DEF Holding, Gap, Loading, AtUnit, SameRest, SamePlace
<1>6. chan'[c].buf = chan[c].buf /\ chan'[c].ok = chan[c].ok /\ chan'[c].grp = chan[c].grp
  BY <1>2 DEF SameRest
<1>7. FileOf(c)'
  BY <1>1, <1>2, <1>4, <1>5, <1>6 DEF FileOf
<1>8. FileInv'
  BY <1>1, <1>2, <1>3, <1>5, <1>7, FileStep
<1>9. ASSUME NEW g \in Loaded, ~Pending(g)' PROVE mem'[g] = GetGroup(chan'[c].buf, g)
  <2>1. ~Pending(g)
    BY <1>2, <1>4, <1>5, <1>6, <1>9, PendingStep
  <2>2. mem[g] = GetGroup(chan[c].buf, g)
    BY <1>2, <1>3, <1>4, <2>1, MemOf
  <2>3. QED
    BY <1>1, <1>6, <2>2
<1>10. MemInv'
  BY <1>2, <1>3, <1>5, <1>9, MemStep
<1>11. QED
  BY <1>8, <1>10

LEMMA Flush_File ==
  ASSUME TypeInv, AllPhases, FileInv, MemInv, NEW c \in Channel, Flush(c), ~mixed'
  PROVE  FileInv' /\ MemInv' /\ file' = chan[c].buf
<1>1. chan[c].at = "flush" /\ file' = Overwrite(file, chan[c].buf) /\ Touch(c)
      /\ UNCHANGED <<init, mem, last, torn>>
  BY DEF Flush, told
<1>2. /\ Others(c) /\ SamePlace(c) /\ chan[c].buf \in Seq(Entry)
      /\ chan'[c].grp = chan[c].grp /\ chan'[c].ok = chan[c].ok
      /\ chan[c].cmd \in {"set", "F4"}
      /\ chan'[c].at = IF chan[c].cmd = "set" THEN "clear" ELSE "f4end"
  BY Flush_Type
<1>3. OnlyMe(c)
  BY <1>1, NotMixed
<1>4. Holding(c) /\ Gap(c) /\ ~Loading(c) /\ FileOf(c)
  BY <1>1 DEF Holding, Gap, Loading, FileInv
<1>5. /\ ~Holding(c)' /\ ~Gap(c)' /\ ~Loading(c)' /\ ~(chan'[c].at = "copied")
      /\ (AtUnit(c)' <=> AtUnit(c))
  BY <1>2, <1>4 DEF Holding, Gap, Loading, AtUnit, SamePlace
<1>6. file = <<>>
  BY <1>2, <1>3, <1>4, FileIs
<1>7. file' = chan[c].buf
  BY <1>1, <1>2, <1>6, OverwriteEmpty
<1>8. Complete(file')
  BY <1>4, <1>7 DEF FileOf
<1>9. FileOf(c)'
  BY <1>1, <1>2, <1>4, <1>5 DEF FileOf
<1>10. FileInv'
  BY <1>1, <1>2, <1>3, <1>5, <1>8, <1>9, FileStep
<1>11. ASSUME NEW g \in Loaded, ~Pending(g)' PROVE mem'[g] = GetGroup(file', g)
  <2>1. ~Pending(g)
    BY <1>2, <1>4, <1>5, <1>11, PendingStep
  <2>2. mem[g] = GetGroup(chan[c].buf, g)
    BY <1>2, <1>3, <1>4, <2>1, MemOf
  <2>3. QED
    BY <1>1, <1>7, <2>2
<1>12. MemInv'
  BY <1>2, <1>3, <1>5, <1>11, MemStep
<1>13. QED
  BY <1>7, <1>10, <1>12

LEMMA ClearGroup_File ==
  ASSUME TypeInv, AllPhases, FileInv, MemInv, NEW c \in Channel, ClearGroup(c)
  PROVE  FileInv' /\ MemInv'
<1> DEFINE k == IF chan[c].grp = "F91" THEN "F3" ELSE chan[c].grp
<1>1. chan[c].at = "clear" /\ mem' = [mem EXCEPT ![k] = None] /\ UNCHANGED <<init, file, last, torn>>
  BY DEF ClearGroup, told
<1>2. Others(c) /\ chan'[c].at = "load" /\ SameRest(c)
  BY ClearGroup_Type
<1>3. chan[c].cmd = "set" /\ mem \in [Group -> Seq(V) \union {None}]
  BY <1>1 DEF AllPhases, PhaseInv, TypeInv
<1>4. AtUnit(c) /\ ~Saving(c) /\ ~Holding(c) /\ ~Gap(c) /\ ~Loading(c) /\ FileOf(c)
  BY <1>1, <1>3 DEF AtUnit, Saving, Holding, Gap, Loading, FileInv
<1>5. chan'[c].ok = chan[c].ok /\ chan'[c].grp = chan[c].grp /\ chan'[c].cmd = "set"
  BY <1>2, <1>3 DEF SameRest, SamePlace
<1>6. AtUnit(c)' /\ ~Saving(c)' /\ ~Holding(c)' /\ ~Gap(c)' /\ ~Loading(c)'
  BY <1>2, <1>5 DEF AtUnit, Saving, Holding, Gap, Loading
<1>7. \A d \in Channel :
        /\ Saving(d)' <=> Saving(d)
        /\ Holding(d)' <=> Holding(d)
        /\ Gap(d)' <=> Gap(d)
        /\ (chan'[d].at = "copied") <=> (chan[d].at = "copied")
        /\ Holding(d) => chan'[d].buf = chan[d].buf
  <2> TAKE d \in Channel
  <2>1. CASE d = c
    BY <1>1, <1>2, <1>4, <1>6, <2>1
  <2>2. CASE d # c
    BY <1>2, <2>2, SameFor DEF Others
  <2>3. QED
    BY <2>1, <2>2
<1>8. (Whole' <=> Whole) /\ (InPlace' <=> InPlace)
  BY <1>7, Zenon DEF Whole, InPlace
<1>9. Alone'
  BY <1>2, <1>6, AloneStep DEF FileInv
<1>10. FileOf(c)'
  BY <1>1, <1>2, <1>4, <1>5, <1>6 DEF FileOf
<1>11. \A d \in Channel : FileOf(d)'
  <2> TAKE d \in Channel
  <2>1. CASE d # c
    BY <1>1, <1>2, <2>1, FileOther DEF FileInv, Others
  <2>2. QED
    BY <1>10, <2>1
<1>12. Whole' => Complete(file') \/ EmptySince'
  <2>1. \A g \in Loaded : mem[g] = None => mem'[g] = None
    BY <1>1, <1>3, LoadedGroups
  <2>2. QED
    BY <1>1, <1>7, <1>8, <2>1 DEF FileInv, EmptySince
<1>13. FileInv'
  BY <1>1, <1>8, <1>9, <1>11, <1>12 DEF FileInv
<1>14. MemInv'
  <2> SUFFICES ASSUME NEW g \in Loaded, ~Pending(g)'
               PROVE  /\ \A d \in Channel : Holding(d)' => mem'[g] = GetGroup(chan'[d].buf, g)
                      /\ InPlace' => mem'[g] = GetGroup(file', g)
    BY DEF MemInv
  <2>1. ~Pending(g) /\ g # chan[c].grp
    BY <1>2, <1>4, <1>5, <1>6, PendingStep
  <2>2. /\ \A d \in Channel : Holding(d) => mem[g] = GetGroup(chan[d].buf, g)
        /\ InPlace => mem[g] = GetGroup(file, g)
    BY <2>1 DEF MemInv
  <2>3. mem'[g] = mem[g]
    BY <1>1, <1>3, <2>1, LoadedGroups
  <2>4. \A d \in Channel : Holding(d)' => mem'[g] = GetGroup(chan'[d].buf, g)
    BY <1>7, <2>2, <2>3
  <2>5. QED
    BY <1>1, <1>8, <2>2, <2>3, <2>4
<1>15. QED
  BY <1>13, <1>14

LEMMA LoadGroup_File ==
  ASSUME TypeInv, AllPhases, FileInv, MemInv, NEW c \in Channel, LoadGroup(c), ~mixed'
  PROVE  FileInv' /\ MemInv'
<1> DEFINE k == chan[c].grp
<1>1. /\ chan[c].at = "load" /\ Touch(c) /\ UNCHANGED <<init, file, last, torn>>
      /\ mem' = IF GetGroup(file, k) = None THEN mem ELSE [mem EXCEPT ![k] = GetGroup(file, k)]
  BY DEF LoadGroup, told
<1>2. /\ Others(c) /\ AtUnit(c)
      /\ chan'[c].at = IF chan[c].ok THEN "unit" ELSE "answer"
  BY LoadGroup_Type
<1>3. mem \in [Group -> Seq(V) \union {None}] /\ k \in Group
  BY Fields DEF TypeInv
<1>4. OnlyMe(c)
  BY <1>1, NotMixed
<1>5. ~Saving(c) /\ ~Holding(c) /\ ~Gap(c) /\ ~Loading(c) /\ ~(chan[c].at = "copied")
  BY <1>1 DEF Saving, Holding, Gap, Loading
<1>6. chan'[c].at \in {"unit", "answer"}
  BY <1>2
<1>7. ~AtUnit(c)' /\ ~Saving(c)' /\ ~Holding(c)' /\ ~Gap(c)' /\ ~Loading(c)' /\ ~(chan'[c].at = "copied")
  BY <1>6 DEF AtUnit, Saving, Holding, Gap, Loading
<1>8. \/ Complete(file)
      \/ file = <<>> /\ torn /\ \A g \in Loaded : mem[g] = None
  BY <1>2, <1>4, <1>5, FileIs
<1>9. file = <<>> => mem' = mem
  BY <1>1, <1>3, EmptyHasNothing
<1>10. FileOf(c)'
  BY <1>6, <1>7 DEF FileOf
<1>11. FileInv'
  BY <1>1, <1>2, <1>4, <1>7, <1>8, <1>9, <1>10, FileStep
<1>12. ASSUME NEW g \in Loaded, ~Pending(g)' PROVE mem'[g] = GetGroup(file', g)
  <2>1. CASE g = k
    <3>1. CASE Complete(file)
      <4>1. GetGroup(file, g) # None
        BY <3>1, LoadedGroups DEF Complete
      <4>2. QED
        BY <1>1, <1>3, <2>1, <4>1
    <3>2. CASE file = <<>> /\ torn /\ \A h \in Loaded : mem[h] = None
      <4>1. GetGroup(file, g) = None
        BY <3>2, LoadedGroups, EmptyHasNothing
      <4>2. QED
        BY <1>1, <1>9, <3>2, <4>1
    <3>3. QED
      BY <1>8, <3>1, <3>2
  <2>2. CASE g # k
    <3>1. ~Pending(g)
      BY <1>2, <1>5, <1>12, <2>2, PendingStep
    <3>2. mem[g] = GetGroup(file, g)
      BY <1>2, <1>4, <1>5, <3>1, MemOf
    <3>3. mem'[g] = mem[g]
      BY <1>1, <1>3, <2>2, LoadedGroups
    <3>4. QED
      BY <1>1, <3>2, <3>3
  <2>3. QED
    BY <2>1, <2>2
<1>13. MemInv'
  BY <1>2, <1>4, <1>7, <1>12, MemStep
<1>14. QED
  BY <1>11, <1>13

LEMMA F4Read_File ==
  ASSUME TypeInv, AllPhases, FileInv, MemInv, NEW c \in Channel, F4Read(c), ~mixed'
  PROVE  FileInv' /\ MemInv'
<1>1. /\ chan[c].at = "f4read" /\ Touch(c) /\ UNCHANGED <<init, file, mem, torn>>
      /\ last' = [g \in Group |-> IF g = "F3" THEN last[g] ELSE c]
  BY DEF F4Read
<1>2. /\ Others(c)
      /\ GetGroup(file, "F3") = None => chan'[c] = Idle
      /\ GetGroup(file, "F3") # None => chan'[c].at = "f4copy" /\ chan'[c].val = GetGroup(file, "F3")
                                        /\ chan'[c].cmd = "F4"
  BY F4Read_Type
<1>3. OnlyMe(c)
  BY <1>1, NotMixed
<1>4. ~AtUnit(c) /\ ~Saving(c) /\ ~Holding(c) /\ ~Gap(c) /\ ~Loading(c) /\ ~(chan[c].at = "copied")
  BY <1>1 DEF AtUnit, Saving, Holding, Gap, Loading
<1>5. chan'[c].at \in {"idle", "f4copy"}
  BY <1>2, IdleType
<1>6. ~AtUnit(c)' /\ ~Holding(c)' /\ ~Gap(c)' /\ ~Loading(c)' /\ ~(chan'[c].at = "copied")
  BY <1>5 DEF AtUnit, Holding, Gap, Loading
<1>7. \/ Complete(file)
      \/ file = <<>> /\ torn /\ \A g \in Loaded : mem[g] = None
  BY <1>2, <1>3, <1>4, FileIs
<1>8. chan'[c].at = "f4copy" => GetGroup(file, "F3") # None
  BY <1>2, IdleType
<1>9. FileOf(c)'
  <2>1. \A g \in Group \ {"F3"} : last'[g] = c
    BY <1>1
  <2>2. chan'[c].at = "f4copy" => chan'[c].val = GetGroup(file', "F3")
    BY <1>1, <1>2, <1>8
  <2>3. QED
    BY <1>5, <1>6, <2>1, <2>2 DEF FileOf
<1>10. FileInv'
  <2>1. CASE Complete(file)
    BY <1>1, <1>2, <1>3, <1>6, <1>9, <2>1, FileStep
  <2>2. CASE file = <<>> /\ torn /\ \A g \in Loaded : mem[g] = None
    <3>1. GetGroup(file, "F3") = None
      BY <2>2, EmptyHasNothing, Groups
    <3>2. ~Saving(c)'
      BY <1>2, <3>1, IdleType DEF Saving
    <3>3. QED
      BY <1>1, <1>2, <1>3, <1>6, <1>9, <2>2, <3>2, FileStep
  <2>3. QED
    BY <1>7, <2>1, <2>2
<1>11. ASSUME NEW g \in Loaded, ~Pending(g)' PROVE mem'[g] = GetGroup(file', g)
  <2>1. ~Pending(g)
    BY <1>2, <1>4, <1>11, PendingStep
  <2>2. mem[g] = GetGroup(file, g)
    BY <1>2, <1>3, <1>4, <2>1, MemOf
  <2>3. QED
    BY <1>1, <2>2
<1>12. MemInv'
  BY <1>2, <1>3, <1>6, <1>11, MemStep
<1>13. QED
  BY <1>10, <1>12

LEMMA F4Copy_File ==
  ASSUME TypeInv, AllPhases, FileInv, MemInv, NEW c \in Channel, F4Copy(c), ~mixed'
  PROVE  FileInv' /\ MemInv'
<1>1. chan[c].at = "f4copy" /\ file' = <<>> /\ Touch(c) /\ UNCHANGED <<init, mem, last, torn>>
  BY DEF F4Copy, told
<1>2. Others(c) /\ chan'[c].at = "copied" /\ SameRest(c)
  BY F4Copy_Type
<1>3. OnlyMe(c) /\ FileOf(c)
  BY <1>1, NotMixed DEF FileInv
<1>4. chan'[c].cmd = "F4"
  BY <1>1, <1>2 DEF AllPhases, PhaseInv, SameRest, SamePlace
<1>5. ~AtUnit(c)' /\ ~Holding(c)' /\ Gap(c)' /\ Loading(c)'
  BY <1>2 DEF AtUnit, Holding, Gap, Loading
<1>6. FileOf(c)'
  BY <1>1, <1>2, <1>3, <1>5 DEF FileOf
<1>7. FileInv'
  BY <1>1, <1>2, <1>3, <1>5, <1>6, FileStep
<1>8. ASSUME NEW g \in Loaded, ~Pending(g)' PROVE FALSE
  BY <1>2, <1>5, <1>8, PendingStep
<1>9. MemInv'
  BY <1>2, <1>3, <1>8, MemStep
<1>10. QED
  BY <1>7, <1>9

LEMMA F4Copied_File ==
  ASSUME TypeInv, AllPhases, FileInv, MemInv, NEW c \in Channel, F4Copied(c), ~mixed'
  PROVE  FileInv' /\ MemInv' /\ file' = init
<1>1. chan[c].at = "copied" /\ file' = Overwrite(file, init) /\ Touch(c) /\ UNCHANGED <<init, mem, last, torn>>
  BY DEF F4Copied, told
<1>2. Others(c) /\ chan'[c].at = "f4load" /\ SameRest(c)
  BY F4Copied_Type
<1>3. OnlyMe(c) /\ FileOf(c) /\ Gap(c)
  BY <1>1, NotMixed DEF FileInv, Gap
<1>4. init \in DefaultFiles
  BY DEF TypeInv
<1>5. init \in Seq(Entry) /\ Complete(init)
  BY <1>4, DefaultIsComplete
<1>6. file' = init
  BY <1>1, <1>2, <1>3, <1>5, FileIs, OverwriteEmpty
<1>7. ~AtUnit(c)' /\ ~Holding(c)' /\ ~Gap(c)' /\ Loading(c)'
  BY <1>2 DEF AtUnit, Holding, Gap, Loading
<1>8. FileOf(c)'
  BY <1>1, <1>2, <1>3, <1>6, <1>7 DEF FileOf
<1>9. FileInv'
  BY <1>1, <1>2, <1>3, <1>5, <1>6, <1>7, <1>8, FileStep
<1>10. ASSUME NEW g \in Loaded, ~Pending(g)' PROVE FALSE
  BY <1>2, <1>7, <1>10, PendingStep
<1>11. MemInv'
  BY <1>2, <1>3, <1>10, MemStep
<1>12. QED
  BY <1>6, <1>9, <1>11

\* What CircuitParaLoad makes of the groups whose memory is compared.
LEMMA LoadAllGets ==
  ASSUME NEW f, NEW m, NEW g \in Loaded, GetGroup(f, g) # None \/ m[g] = None
  PROVE  LoadAll(f, m)[g] = GetGroup(f, g)
<1>1. g \in Group /\ g \in AtBoot
  BY LoadedGroups
<1>2. LoadAll(f, m)[g] = IF g = "F91" /\ GetGroup(f, g) = None THEN m[g] ELSE GetGroup(f, g)
  BY <1>1 DEF LoadAll
<1>3. QED
  BY <1>2

LEMMA F4Load_File ==
  ASSUME TypeInv, AllPhases, FileInv, MemInv, NEW c \in Channel, F4Load(c)
  PROVE  FileInv' /\ MemInv'
<1>1. chan[c].at = "f4load" /\ mem' = LoadAll(init, mem) /\ UNCHANGED <<init, file, last, torn>>
  BY DEF F4Load, told
<1>2. Others(c) /\ chan'[c].at = "f4save" /\ SameRest(c)
  BY F4Load_Type
<1>3. Saving(c) /\ FileOf(c) /\ ~Gap(c) /\ ~Holding(c)
  BY <1>1 DEF FileInv, Saving, Gap, Holding
<1>4. OnlyMe(c)
  BY <1>3 DEF OnlyMe, FileInv, Alone
<1>5. init \in DefaultFiles
  BY DEF TypeInv
<1>6. init \in Seq(Entry) /\ Complete(init)
  BY <1>5, DefaultIsComplete
<1>7. file = init
  BY <1>1, <1>3 DEF FileOf
<1>8. ~AtUnit(c)' /\ ~Holding(c)' /\ ~Gap(c)' /\ ~(chan'[c].at = "copied")
  BY <1>2 DEF AtUnit, Holding, Gap
<1>9. FileOf(c)'
  BY <1>1, <1>2, <1>3, <1>7, <1>8 DEF FileOf
<1>10. FileInv'
  BY <1>1, <1>2, <1>4, <1>6, <1>7, <1>8, <1>9, FileStep
<1>11. ASSUME NEW g \in Loaded, ~Pending(g)' PROVE mem'[g] = GetGroup(file', g)
  <2>1. GetGroup(init, g) # None
    BY <1>6, LoadedGroups DEF Complete
  <2>2. QED
    BY <1>1, <1>7, <2>1, LoadAllGets
<1>12. MemInv'
  BY <1>2, <1>4, <1>8, <1>11, MemStep
<1>13. QED
  BY <1>10, <1>12

LEMMA F4Save_File ==
  ASSUME TypeInv, AllPhases, FileInv, MemInv, NEW c \in Channel, F4Save(c), ~mixed'
  PROVE  /\ FileInv' /\ MemInv' /\ OnlyMe(c) /\ file = init /\ Complete(init)
         /\ chan'[c].at = "open" /\ chan'[c].buf = PutGroup(init, "F3", chan[c].val)
<1>1. chan[c].at = "f4save" /\ UNCHANGED <<init, file, mem, last, torn>>
  BY DEF F4Save, told
<1>2. /\ Others(c) /\ SamePlace(c) /\ chan[c].val \in ValuesOf("F3") /\ ReadFile(c, "F3", chan[c].val)
      /\ chan[c].cmd = "F4"
  BY F4Save_Type
<1>3. Touch(c)
  BY <1>2 DEF ReadFile
<1>4. OnlyMe(c) /\ FileOf(c)
  BY <1>3, NotMixed DEF FileInv
<1>5. init \in DefaultFiles /\ "F3" \in Group
  BY Groups DEF TypeInv
<1>6. init \in Seq(Entry) /\ Complete(init) /\ init # <<>>
  BY <1>5, DefaultIsComplete
<1>7. file = init
  BY <1>1, <1>4 DEF FileOf
<1>8. chan'[c].at = "open" /\ chan'[c].ok = TRUE /\ chan'[c].buf = PutGroup(init, "F3", chan[c].val)
  BY <1>2, <1>5, <1>6, <1>7, ReadFile_Is
<1>9. Complete(chan'[c].buf) /\ \A g \in Group \ {"F3"} : GetGroup(chan'[c].buf, g) = GetGroup(init, g)
  BY <1>2, <1>5, <1>6, <1>8, PutGroupComplete, PutGroupGets
<1>10. ~AtUnit(c) /\ ~Loading(c) /\ ~Holding(c) /\ ~(chan[c].at = "copied")
  BY <1>1 DEF AtUnit, Loading, Holding
<1>11. chan'[c].cmd = "F4" /\ ~AtUnit(c)' /\ Holding(c)' /\ ~Gap(c)'
  BY <1>2, <1>8 DEF AtUnit, Holding, Gap, SamePlace
<1>12. FileOf(c)'
  BY <1>8, <1>9, <1>11 DEF FileOf
<1>13. FileInv'
  BY <1>1, <1>2, <1>4, <1>6, <1>7, <1>11, <1>12, FileStep
<1>14. ASSUME NEW g \in Loaded, ~Pending(g)' PROVE mem'[g] = GetGroup(chan'[c].buf, g)
  <2>1. ~Pending(g)
    BY <1>2, <1>10, <1>14, PendingStep
  <2>2. mem[g] = GetGroup(file, g)
    BY <1>2, <1>4, <1>10, <2>1, MemOf
  <2>3. QED
    BY <1>1, <1>7, <1>9, <2>2, LoadedGroups
<1>15. MemInv'
  BY <1>2, <1>4, <1>11, <1>14, MemStep
<1>16. QED
  BY <1>4, <1>6, <1>7, <1>8, <1>13, <1>15

LEMMA PowerCut_File ==
  ASSUME TypeInv, AllPhases, FileInv, PowerCut
  PROVE  FileInv' /\ MemInv'
<1>1. /\ UNCHANGED <<init, file, last>> /\ mem' = LoadAll(file, Zeroed)
      /\ torn' = (torn \/ file = <<>>)
  BY DEF PowerCut, TermParaPowerUp
<1>2. \A c \in Channel : chan'[c].at = "idle"
  BY PowerCut_Type, IdleType
<1>3. \A c \in Channel : /\ ~Saving(c)' /\ ~Holding(c)' /\ ~Gap(c)' /\ ~AtUnit(c)' /\ FileOf(c)'
  BY <1>2 DEF Saving, Holding, Gap, AtUnit, FileOf
<1>4. \A g \in Loaded : mem'[g] = GetGroup(file, g)
  <2>1. \A g \in Loaded : Zeroed[g] = None
    BY LoadedGroups DEF Zeroed
  <2>2. QED
    BY <1>1, <2>1, LoadAllGets
<1>5. file # <<>> => Complete(file)
  BY DEF FileInv, EmptySince
<1>6. file = <<>> => EmptySince'
  <2>1. file = <<>> => \A g \in Loaded : GetGroup(file, g) = None
    BY EmptyHasNothing, LoadedGroups
  <2>2. torn \in BOOLEAN
    BY DEF TypeInv
  <2>3. QED
    BY <1>1, <1>3, <1>4, <2>1, <2>2 DEF EmptySince
<1>7. Whole' /\ Alone'
  BY <1>3 DEF Whole, Alone
<1>8. FileInv'
  BY <1>1, <1>3, <1>5, <1>6, <1>7 DEF FileInv
<1>9. MemInv'
  BY <1>1, <1>3, <1>4 DEF MemInv
<1>10. QED
  BY <1>8, <1>9

-----------------------------------------------------------------------------
(* What the station is told.                                                *)

\* What is expected depends on the channel that came to the group last.
LEMMA ExpectedAt ==
  ASSUME NEW c, NEW g
  PROVE  /\ last[g] = c => Expected(g) = ExpectedFrom(c, g)
         /\ last'[g] = c => Expected(g)' = ExpectedFrom(c, g)'
<1>1. last[g] = c => Expected(g) = ExpectedFrom(c, g)
  BY DEF Expected
<1>2. last'[g] = c => Expected(g)' = ExpectedFrom(c, g)'
  BY DEF Expected
<1>3. QED
  BY <1>1, <1>2

\* It does not change unless that channel moves on.
LEMMA ExpectedSame ==
  ASSUME NEW c \in Channel, Others(c), NEW g \in Group, init' = init,
         last'[g] = last[g], believed'[g] = believed[g],
         last[g] = c => /\ chan'[c].cmd = chan[c].cmd /\ chan'[c].units = chan[c].units
                        /\ SetBy(c, g)' = SetBy(c, g)
                        /\ (Reset(c, g)' <=> Reset(c, g))
  PROVE  Expected(g)' = Expected(g)
<1>1. CASE last[g] = c
  <2>1. ExpectedFrom(c, g)' = ExpectedFrom(c, g)
    BY <1>1 DEF ExpectedFrom, HasSet, LastSet
  <2>2. QED
    BY <1>1, <2>1, ExpectedAt
<1>2. CASE last[g] # c /\ last[g] \in Channel
  <2>0. PICK d \in Channel : last[g] = d
    BY <1>2
  <2>1. chan'[d] = chan[d]
    BY <1>2, <2>0 DEF Others
  <2>2. SetBy(d, g)' = SetBy(d, g)
    <3>2. Len(chan[d].done) = Len(chan'[d].done)
      BY <2>1
    <3>3. Taken(d)' = Taken(d)
      BY <2>1, <3>2 DEF Taken, AtUnit, Holding
    <3>4. QED
      BY <2>1, <3>3 DEF SetBy
  <2>3. Reset(d, g)' <=> Reset(d, g)
    BY <2>1 DEF Reset
  <2>4. ExpectedFrom(d, g)' = ExpectedFrom(d, g)
    BY <2>1, <2>2, <2>3 DEF ExpectedFrom, HasSet, LastSet
  <2>5. QED
    BY <2>0, <2>4, ExpectedAt
<1>3. CASE last[g] \notin Channel
  <2> DEFINE d == last[g]
  <2>1. last[g] = d /\ last'[g] = d /\ d \notin Channel
    BY <1>3
  <2> HIDE DEF d
  <2>2. Expected(g) = ExpectedFrom(d, g)
    BY <2>1 DEF Expected
  <2>3. Expected(g)' = IF d \in Channel THEN Expected(g)' ELSE believed'[g]
    BY <2>1 DEF Expected, ExpectedFrom
  <2>4. QED
    BY <2>1, <2>2, <2>3 DEF ExpectedFrom
<1>4. QED
  BY <1>1, <1>2, <1>3

\* A channel whose command has told nothing about the group yet, and one that
\* has set it.
LEMMA ExpectedBelieved ==
  ASSUME NEW c \in Channel, NEW g
  PROVE  /\ last[g] = c /\ (chan[c].cmd = "set" => SetBy(c, g) = {}) /\ ~Reset(c, g) =>
              Expected(g) = believed[g]
         /\ last'[g] = c /\ (chan'[c].cmd = "set" => SetBy(c, g)' = {}) /\ ~Reset(c, g)' =>
              Expected(g)' = believed'[g]
<1>1. ~HasSet(c, g) /\ ~Reset(c, g) => ExpectedFrom(c, g) = believed[g]
  BY DEF ExpectedFrom
<1>2. ~HasSet(c, g)' /\ ~Reset(c, g)' => ExpectedFrom(c, g)' = believed'[g]
  BY DEF ExpectedFrom
<1>3. QED
  BY <1>1, <1>2, ExpectedAt DEF HasSet

LEMMA ExpectedSet ==
  ASSUME NEW c \in Channel, NEW g
  PROVE  /\ last[g] = c /\ chan[c].cmd = "set" /\ SetBy(c, g) # {} =>
              Expected(g) = LastSet(c, g)
         /\ last'[g] = c /\ chan'[c].cmd = "set" /\ SetBy(c, g)' # {} =>
              Expected(g)' = LastSet(c, g)'
<1>1. HasSet(c, g) => ExpectedFrom(c, g) = LastSet(c, g)
  BY DEF ExpectedFrom
<1>2. HasSet(c, g)' => ExpectedFrom(c, g)' = LastSet(c, g)'
  BY DEF ExpectedFrom
<1>3. QED
  BY <1>1, <1>2, ExpectedAt DEF HasSet

LEMMA ExpectedReset ==
  ASSUME NEW c \in Channel, NEW g
  PROVE  /\ last[g] = c /\ Reset(c, g) => Expected(g) = GetGroup(init, g)
         /\ last'[g] = c /\ Reset(c, g)' => Expected(g)' = GetGroup(init', g)
<1>1. Reset(c, g) => ExpectedFrom(c, g) = GetGroup(init, g)
  BY DEF ExpectedFrom, HasSet, Reset
<1>2. Reset(c, g)' => ExpectedFrom(c, g)' = GetGroup(init', g)
  BY DEF ExpectedFrom, HasSet, Reset
<1>3. QED
  BY <1>1, <1>2, ExpectedAt

LEMMA SetBySame ==
  ASSUME NEW c \in Channel, NEW g, SamePlace(c), AtUnit(c)' <=> AtUnit(c)
  PROVE  SetBy(c, g)' = SetBy(c, g)
<1>1. Taken(c)' = Taken(c)
  BY DEF Taken, SamePlace
<1>2. QED
  BY <1>1 DEF SetBy, SamePlace

LEMMA ExpectedMoved ==
  ASSUME NEW c \in Channel, Others(c), UNCHANGED <<init, last, believed>>, SamePlace(c),
         AtUnit(c)' <=> AtUnit(c),
         (chan'[c].at \in {"f4read", "f4copy"}) <=> (chan[c].at \in {"f4read", "f4copy"})
  PROVE  \A g \in Group : Expected(g)' = Expected(g)
<1> TAKE g \in Group
<1>1. SetBy(c, g)' = SetBy(c, g)
  BY SetBySame
<1>2. Reset(c, g)' <=> Reset(c, g)
  BY DEF Reset, SamePlace
<1>3. QED
  BY <1>1, <1>2, ExpectedSame DEF SamePlace

\* A step that leaves the file alone, and its command where it was.
LEMMA BeliefNeutral ==
  ASSUME BeliefInv, NEW c \in Channel, Others(c), UNCHANGED <<init, file>>,
         \A g \in Group : Expected(g)' = Expected(g),
         Holding(c)' <=> Holding(c), Resetting(c)' <=> Resetting(c),
         (chan'[c].at = "copied") <=> (chan[c].at = "copied"),
         (chan'[c].at = "f4copy") <=> (chan[c].at = "f4copy"),
         Holding(c) => chan'[c].buf = chan[c].buf,
         Resetting(c) => chan'[c].val = chan[c].val
  PROVE  BeliefInv'
<1>1. \A d \in Channel :
        /\ (Holding(d)' <=> Holding(d)) /\ (Resetting(d)' <=> Resetting(d))
        /\ (chan'[d].at = "copied") <=> (chan[d].at = "copied")
        /\ (chan'[d].at = "f4copy") <=> (chan[d].at = "f4copy")
        /\ Holding(d) => chan'[d].buf = chan[d].buf
        /\ Resetting(d) => chan'[d].val = chan[d].val
  <2> TAKE d \in Channel
  <2>1. CASE d = c
    BY <2>1
  <2>2. CASE d # c
    BY <2>2, SameFor DEF Others
  <2>3. QED
    BY <2>1, <2>2
<1>2. InPlace' <=> InPlace
  BY <1>1, Zenon DEF InPlace
<1>3. SUFFICES ASSUME NEW g \in Group, ~Unsure(g)'
               PROVE  /\ \A d \in Channel :
                           /\ Holding(d)' => GetGroup(chan'[d].buf, g) = Expected(g)'
                           /\ Resetting(d)' /\ g = "F3" => chan'[d].val = Expected(g)'
                      /\ InPlace' /\ (g = "F3" => \A d \in Channel : ~Resetting(d)') =>
                           GetGroup(file', g) = Expected(g)'
  BY DEF BeliefInv
<1>4. ~Unsure(g)
  BY <1>1, <1>3 DEF Unsure
<1> DEFINE x == Expected(g)
<1>5. /\ \A d \in Channel :
           /\ Holding(d) => GetGroup(chan[d].buf, g) = x
           /\ Resetting(d) /\ g = "F3" => chan[d].val = x
      /\ InPlace /\ (g = "F3" => \A d \in Channel : ~Resetting(d)) => GetGroup(file, g) = x
  BY <1>4 DEF BeliefInv
<1>6. Expected(g)' = x
  OBVIOUS
<1> HIDE DEF x
<1>7. QED
  BY <1>1, <1>2, <1>5, <1>6

\* A step of the only command that is in the file.
LEMMA BeliefStep ==
  ASSUME NEW c \in Channel, Others(c), OnlyMe(c),
         ASSUME NEW g \in Group, g = "F3" \/ ~(chan'[c].at = "f4copy")
         PROVE  /\ Holding(c)' => GetGroup(chan'[c].buf, g) = Expected(g)'
                /\ Resetting(c)' /\ g = "F3" => chan'[c].val = Expected(g)'
                /\ ~Holding(c)' /\ ~(chan'[c].at = "copied") /\ (g = "F3" => ~Resetting(c)') =>
                     GetGroup(file', g) = Expected(g)'
  PROVE  BeliefInv'
<1>1. \A d \in Channel \ {c} : ~Holding(d)' /\ ~Resetting(d)'
  BY NotSaving, SameFor DEF OnlyMe, Others
<1>2. InPlace' <=> ~Holding(c)' /\ ~(chan'[c].at = "copied")
  BY GapOthers
<1>3. \A g \in Group : ~Unsure(g)' => g = "F3" \/ ~(chan'[c].at = "f4copy")
  BY DEF Unsure
<1>4. SUFFICES ASSUME NEW g \in Group, ~Unsure(g)'
               PROVE  /\ \A d \in Channel :
                           /\ Holding(d)' => GetGroup(chan'[d].buf, g) = Expected(g)'
                           /\ Resetting(d)' /\ g = "F3" => chan'[d].val = Expected(g)'
                      /\ InPlace' /\ (g = "F3" => \A d \in Channel : ~Resetting(d)') =>
                           GetGroup(file', g) = Expected(g)'
  BY DEF BeliefInv
<1>5. /\ Holding(c)' => GetGroup(chan'[c].buf, g) = Expected(g)'
      /\ Resetting(c)' /\ g = "F3" => chan'[c].val = Expected(g)'
      /\ ~Holding(c)' /\ ~(chan'[c].at = "copied") /\ (g = "F3" => ~Resetting(c)') =>
           GetGroup(file', g) = Expected(g)'
  BY <1>3, <1>4
<1>6. QED
  BY <1>1, <1>2, <1>5

LEMMA BeliefOf ==
  ASSUME BeliefInv, NEW c \in Channel, Others(c), OnlyMe(c), NEW g \in Group,
         g = "F3" \/ ~(chan[c].at = "f4copy")
  PROVE  /\ Holding(c) => GetGroup(chan[c].buf, g) = Expected(g)
         /\ Resetting(c) /\ g = "F3" => chan[c].val = Expected(g)
         /\ ~Holding(c) /\ ~(chan[c].at = "copied") /\ (g = "F3" => ~Resetting(c)) =>
              GetGroup(file, g) = Expected(g)
<1>1. \A d \in Channel \ {c} : ~Holding(d) /\ ~Resetting(d) /\ ~(chan[d].at = "f4copy")
  BY NotSaving DEF OnlyMe
<1>2. InPlace <=> ~Holding(c) /\ ~(chan[c].at = "copied")
  BY GapOthers
<1>3. ~Unsure(g)
  BY <1>1 DEF Unsure
<1>4. QED
  BY <1>1, <1>2, <1>3 DEF BeliefInv

\* Until its first unit a command has told nothing.
LEMMA NothingTaken ==
  ASSUME NEW c \in Channel, chan[c].done = <<>>, ~AtUnit(c), NEW g
  PROVE  SetBy(c, g) = {}
<1>1. Taken(c) = 0
  BY DEF Taken
<1>2. 1 .. 0 = {}
  OBVIOUS
<1>3. QED
  BY <1>1, <1>2 DEF SetBy

LEMMA Receive_Belief ==
  ASSUME TypeInv, AllPhases, BeliefInv, NEW c \in Channel, NEW f \in Frames, Receive(c, f)
  PROVE  BeliefInv'
<1>1. Others(c) /\ chan'[c].at = "unit" /\ chan'[c].cmd = "set" /\ chan'[c].done = <<>>
  BY Receive_Type
<1>2. chan[c].at = "idle" /\ UNCHANGED <<init, file, last, believed>>
  BY DEF Receive, told
<1>3. chan[c].cmd = "none"
  BY <1>2 DEF AllPhases, PhaseInv
<1>4. ~AtUnit(c)' /\ ~Holding(c)' /\ ~Resetting(c)' /\ ~Holding(c) /\ ~Resetting(c)
  BY <1>1, <1>2 DEF AtUnit, Holding, Resetting
<1>5. \A g \in Group : Expected(g)' = Expected(g)
  <2> TAKE g \in Group
  <2>1. CASE last[g] = c
    <3>1. Expected(g) = believed[g]
      BY <1>3, <2>1, ExpectedBelieved DEF Reset
    <3>2. Taken(c)' = 0
      BY <1>1, <1>4 DEF Taken
    <3>3. SetBy(c, g)' = {}
      BY <3>2 DEF SetBy
    <3>4. ~Reset(c, g)'
      BY <1>1 DEF Reset
    <3>5. Expected(g)' = believed'[g]
      BY <1>2, <2>1, <3>3, <3>4, ExpectedBelieved
    <3>6. QED
      BY <1>2, <3>1, <3>5
  <2>2. CASE last[g] # c
    BY <1>1, <1>2, <2>2, ExpectedSame
  <2>3. QED
    BY <2>1, <2>2
<1>6. QED
  BY <1>1, <1>2, <1>4, <1>5, BeliefNeutral

LEMMA ResetCommand_Belief ==
  ASSUME TypeInv, AllPhases, BeliefInv, NEW c \in Channel, ResetCommand(c)
  PROVE  BeliefInv'
<1>1. Others(c) /\ chan'[c].at = "f4read" /\ chan'[c].cmd = "F4"
  BY ResetCommand_Type
<1>2. chan[c].at = "idle" /\ UNCHANGED <<init, file, last, believed>>
  BY DEF ResetCommand, told
<1>3. chan[c].cmd = "none"
  BY <1>2 DEF AllPhases, PhaseInv
<1>4. ~Holding(c)' /\ ~Resetting(c)' /\ ~Holding(c) /\ ~Resetting(c)
  BY <1>1, <1>2 DEF Holding, Resetting
<1>5. \A g \in Group : Expected(g)' = Expected(g)
  <2> TAKE g \in Group
  <2>1. CASE last[g] = c
    <3>1. Expected(g) = believed[g]
      BY <1>3, <2>1, ExpectedBelieved DEF Reset
    <3>2. ~Reset(c, g)'
      BY <1>1 DEF Reset
    <3>3. Expected(g)' = believed'[g]
      BY <1>1, <1>2, <2>1, <3>2, ExpectedBelieved
    <3>4. QED
      BY <1>2, <3>1, <3>3
  <2>2. CASE last[g] # c
    BY <1>1, <1>2, <2>2, ExpectedSame
  <2>3. QED
    BY <2>1, <2>2
<1>6. QED
  BY <1>1, <1>2, <1>4, <1>5, BeliefNeutral

\* The unit that is refused is not among those that were set.
LEMMA RefusedNotSet ==
  ASSUME TypeInv, NEW c \in Channel, ~AtUnit(c), ~AtUnit(c)', chan'[c].units = chan[c].units,
         chan'[c].done = Append(chan[c].done, FALSE), NEW g
  PROVE  SetBy(c, g)' = SetBy(c, g)
<1> DEFINE dn == chan[c].done
           ne == Append(dn, FALSE)
           us == chan[c].units
<1>1. dn \in Seq(BOOLEAN)
  BY Fields DEF TypeInv
<1> HIDE DEF dn
<1>2. Len(ne) = Len(dn) + 1 /\ DOMAIN ne = 1 .. Len(dn) + 1 /\ ne[Len(dn) + 1] = FALSE
  BY <1>1
<1>3. \A i \in 1 .. Len(dn) : ne[i] = dn[i]
  BY <1>1
<1>4. DOMAIN dn = 1 .. Len(dn) /\ Len(dn) \in Nat
  BY <1>1
<1>5. chan'[c].done = ne
  BY DEF dn
<1> HIDE DEF ne, us
<1>6. SetBy(c, g) = {i \in 1 .. Len(dn) : us[i].fn = g /\ dn[i]}
  BY <1>4 DEF SetBy, Taken, dn, us
<1>7. Taken(c)' = Len(ne)
  BY <1>5 DEF Taken
<1>8. SetBy(c, g)' = {i \in 1 .. Len(ne) : us[i].fn = g /\ ne[i]}
  BY <1>2, <1>5, <1>7 DEF SetBy, us
<1>9. \A i \in 1 .. Len(ne) : i \in 1 .. Len(dn) \/ i = Len(dn) + 1
  BY <1>2, <1>4
<1>10. \A i \in 1 .. Len(dn) : i \in 1 .. Len(ne)
  BY <1>2, <1>4
<1>11. QED
  BY <1>2, <1>3, <1>6, <1>8, <1>9, <1>10

\* The unit that is saved is the last of its group that the command has set.
LEMMA SavedIsLatest ==
  ASSUME TypeInv, NEW c \in Channel, Len(chan[c].done) < Len(chan[c].units),
         \A i \in DOMAIN chan[c].done : chan[c].done[i] = TRUE,
         ~AtUnit(c), AtUnit(c)', SamePlace(c), NEW g \in Group
  PROVE  /\ Current(c).fn = g =>
              /\ SetBy(c, g)' # {}
              /\ Latest(SetBy(c, g)') = Len(chan[c].done) + 1
         /\ Current(c).fn # g => SetBy(c, g)' = SetBy(c, g)
<1> DEFINE dn == chan[c].done
           us == chan[c].units
           n == Len(dn)
           S == {i \in 1 .. n : us[i].fn = g}
           T == {i \in 1 .. n + 1 : us[i].fn = g}
<1>1. dn \in Seq(BOOLEAN)
  BY Fields DEF TypeInv
<1>2. DOMAIN dn = 1 .. n /\ n \in Nat
  BY <1>1
<1>3. SetBy(c, g) = S
  BY <1>2 DEF SetBy, Taken
<1>4. chan'[c].done = dn /\ chan'[c].units = us
  BY DEF SamePlace
<1>5. Taken(c)' = n + 1
  BY <1>4 DEF Taken
<1>6. SetBy(c, g)' = T
  <2>1. SetBy(c, g)' = {i \in 1 .. n + 1 : us[i].fn = g /\ (i \in DOMAIN dn => dn[i])}
    BY <1>4, <1>5 DEF SetBy
  <2>2. \A i \in DOMAIN dn : dn[i] = TRUE
    OBVIOUS
  <2> HIDE DEF dn, us, n
  <2>3. QED
    BY <2>1, <2>2
<1>7. Current(c) = us[n + 1]
  BY DEF Current
<1> HIDE DEF dn, us, n
<1>8. CASE Current(c).fn = g
  <2>1. n + 1 \in T /\ \A j \in T : j <= n + 1 /\ T \subseteq Nat
    BY <1>2, <1>7, <1>8
  <2> HIDE DEF T
  <2>2. Latest(T) = n + 1
    <3> DEFINE m == Latest(T)
    <3>1. m \in T /\ \A j \in T : j <= m
      BY <2>1 DEF Latest
    <3> HIDE DEF m
    <3>2. m <= n + 1 /\ n + 1 <= m /\ m \in Nat
      BY <2>1, <3>1
    <3>3. m = n + 1
      BY <1>2, <3>2
    <3>4. QED
      BY <3>3 DEF m
  <2>3. QED
    BY <1>6, <1>8, <2>1, <2>2 DEF n, dn
<1>9. CASE Current(c).fn # g
  <2>1. \A i \in 1 .. n + 1 : us[i].fn = g => i \in 1 .. n
    BY <1>2, <1>7, <1>9
  <2>2. \A i \in 1 .. n : i \in 1 .. n + 1
    BY <1>2
  <2>3. S = T
    BY <2>1, <2>2
  <2>4. QED
    BY <1>3, <1>6, <1>9, <2>3
<1>10. QED
  BY <1>8, <1>9

LEMMA NextUnit_Belief ==
  ASSUME TypeInv, AllPhases, FileInv, BeliefInv, NEW c \in Channel, NextUnit(c), ~mixed', ~torn'
  PROVE  BeliefInv'
<1> DEFINE u == Current(c)
           vs == All(u.fn, u.val)
<1>1. /\ Others(c) /\ chan[c].at = "unit" /\ chan[c].cmd = "set"
      /\ Len(chan[c].done) < Len(chan[c].units)
      /\ UNCHANGED <<init, file, mem, lock, believed, torn>>
  BY NextUnit_Is
<1>2. ~Saving(c) /\ ~AtUnit(c) /\ ~Holding(c) /\ ~Gap(c) /\ ~Resetting(c)
      /\ chan[c].at \notin {"copied", "f4copy"}
  BY <1>1 DEF Saving, AtUnit, Holding, Gap, Resetting
<1>3. CASE u = Refused
  <2>1. /\ chan'[c].at = "answer" /\ UNCHANGED last
        /\ chan'[c].done = Append(chan[c].done, FALSE)
        /\ chan'[c].cmd = chan[c].cmd /\ chan'[c].units = chan[c].units
    BY <1>3, NextUnit_Is
  <2>2. ~AtUnit(c)' /\ ~Holding(c)' /\ ~Resetting(c)'
    BY <2>1 DEF AtUnit, Holding, Resetting
  <2>3. \A g \in Group : SetBy(c, g)' = SetBy(c, g)
    BY <1>2, <2>1, <2>2, RefusedNotSet
  <2>4. \A g \in Group : Reset(c, g)' <=> Reset(c, g)
    BY <1>1, <2>1 DEF Reset
  <2>5. \A g \in Group : Expected(g)' = Expected(g)
    BY <1>1, <2>1, <2>3, <2>4, ExpectedSame
  <2>6. QED
    BY <1>1, <1>2, <2>1, <2>2, <2>5, BeliefNeutral
<1>4. CASE u # Refused
  <2> DEFINE g0 == u.fn
  <2>1. /\ g0 \in Group /\ vs \in ValuesOf(g0)
        /\ ReadFile(c, g0, vs) /\ last' = [last EXCEPT ![g0] = c]
    BY <1>4, NextUnit_Is
  <2>2. last \in [Group -> Channel \union {None}] /\ file \in Seq(Entry)
    BY DEF TypeInv
  <2> HIDE DEF vs, u
  <2>3. Touch(c)
    BY <2>1 DEF ReadFile
  <2>4. OnlyMe(c)
    BY <2>3, NotMixed
  <2>5. Complete(file) /\ file # <<>>
    BY <1>1, <1>2, <2>4, FileIs, CompleteNotEmpty
  <2>6. /\ SamePlace(c) /\ chan'[c].at = "open" /\ chan'[c].buf = PutGroup(file, g0, vs)
    <3> HIDE DEF g0
    <3>1. QED
      BY <2>1, <2>5, ReadFile_Is
  <2>7. chan'[c].cmd = "set" /\ AtUnit(c)' /\ Holding(c)' /\ ~Resetting(c)'
    BY <1>1, <2>6 DEF AtUnit, Holding, Resetting, SamePlace
  <2>8. /\ GetGroup(chan'[c].buf, g0) = vs
        /\ \A g \in Group \ {g0} : GetGroup(chan'[c].buf, g) = GetGroup(file, g)
    <3> HIDE DEF g0
    <3>1. QED
      BY <2>1, <2>2, <2>6, PutGroupGets
  <2>9. \A i \in DOMAIN chan[c].done : chan[c].done[i] = TRUE
    BY <1>1 DEF AllPhases, PhaseInv
  <2>10. ASSUME NEW g \in Group PROVE GetGroup(chan'[c].buf, g) = Expected(g)'
    <3>1. CASE g = g0
      <4> DEFINE S == SetBy(c, g)'
      <4>1. S # {} /\ Latest(S) = Len(chan[c].done) + 1
        BY <1>1, <1>2, <2>7, <2>6, <2>9, <3>1, SavedIsLatest DEF u
      <4>2. last'[g] = c
        BY <2>1, <2>2, <3>1
      <4>3. Expected(g)' = All(g, chan'[c].units[Latest(S)].val)
        <5>1. LastSet(c, g)' = All(g, chan'[c].units[Latest(S)].val)
          BY DEF LastSet
        <5>2. QED
          BY <2>7, <4>1, <4>2, <5>1, ExpectedSet
      <4>4. chan'[c].units[Len(chan[c].done) + 1] = u
        BY <2>6 DEF SamePlace, u, Current
      <4> HIDE DEF S
      <4>5. Expected(g)' = All(g, u.val)
        BY <4>1, <4>3, <4>4
      <4>6. QED
        BY <2>8, <3>1, <4>5 DEF vs
    <3>2. CASE g # g0
      <4>1. SetBy(c, g)' = SetBy(c, g)
        BY <1>1, <1>2, <2>7, <2>6, <2>9, <3>2, SavedIsLatest DEF u
      <4>2. Reset(c, g)' <=> Reset(c, g)
        BY <1>1, <2>7 DEF Reset
      <4>3. last'[g] = last[g]
        BY <2>1, <2>2, <3>2
      <4>4. Expected(g)' = Expected(g)
        BY <1>1, <2>6, <4>1, <4>2, <4>3, ExpectedSame DEF SamePlace
      <4>5. GetGroup(file, g) = Expected(g)
        BY <1>1, <1>2, <2>4, BeliefOf
      <4>6. QED
        BY <2>8, <3>2, <4>4, <4>5
    <3>3. QED
      BY <3>1, <3>2
  <2>11. QED
    BY <1>1, <2>4, <2>7, <2>10, BeliefStep
<1>5. QED
  BY <1>3, <1>4

LEMMA Truncate_Belief ==
  ASSUME TypeInv, AllPhases, BeliefInv, NEW c \in Channel, Truncate(c), ~mixed'
  PROVE  BeliefInv'
<1>1. chan[c].at = "open" /\ Touch(c) /\ UNCHANGED <<init, last, believed>>
  BY DEF Truncate, told
<1>2. Others(c) /\ chan'[c].at = "lock" /\ SameRest(c)
  BY Truncate_Type
<1>3. OnlyMe(c)
  BY <1>1, NotMixed
<1>4. Holding(c) /\ Holding(c)' /\ ~Resetting(c)' /\ (AtUnit(c)' <=> AtUnit(c))
  BY <1>1, <1>2 DEF Holding, Resetting, AtUnit, SameRest, SamePlace
<1>5. \A g \in Group : Expected(g)' = Expected(g)
  BY <1>1, <1>2, <1>4, ExpectedMoved DEF SameRest
<1>6. ASSUME NEW g \in Group PROVE GetGroup(chan'[c].buf, g) = Expected(g)'
  <2>1. GetGroup(chan[c].buf, g) = Expected(g)
    BY <1>1, <1>2, <1>3, <1>4, BeliefOf
  <2>2. QED
    BY <1>2, <1>5, <2>1 DEF SameRest
<1>7. QED
  BY <1>2, <1>3, <1>4, <1>6, BeliefStep

\* The steps that only move a command on.
LEMMA MoveBelief ==
  ASSUME BeliefInv, NEW c \in Channel, Others(c), SameRest(c), UNCHANGED <<init, file, last, believed>>,
         \/ chan[c].at \in {"lock", "locked"} /\ chan'[c].at \in {"locked", "flush"}
         \/ chan[c].at = "clear" /\ chan'[c].at = "load"
         \/ chan[c].at = "f4load" /\ chan'[c].at = "f4save"
  PROVE  BeliefInv'
<1>1. (Holding(c)' <=> Holding(c)) /\ (Resetting(c)' <=> Resetting(c))
  BY DEF Holding, Resetting
<1>2. AtUnit(c)' <=> AtUnit(c)
  BY DEF AtUnit, Holding, SameRest, SamePlace
<1>3. (chan'[c].at \in {"f4read", "f4copy"}) <=> (chan[c].at \in {"f4read", "f4copy"})
  OBVIOUS
<1>4. \A g \in Group : Expected(g)' = Expected(g)
  BY <1>2, <1>3, ExpectedMoved DEF SameRest
<1>5. chan[c].at \notin {"copied", "f4copy"} /\ chan'[c].at \notin {"copied", "f4copy"}
  OBVIOUS
<1>6. QED
  BY <1>1, <1>4, <1>5, BeliefNeutral DEF SameRest

LEMMA Flush_Belief ==
  ASSUME TypeInv, AllPhases, FileInv, MemInv, BeliefInv, NEW c \in Channel, Flush(c), ~mixed'
  PROVE  BeliefInv'
<1>1. chan[c].at = "flush" /\ Touch(c) /\ UNCHANGED <<init, last, believed>>
  BY DEF Flush, told
<1>2. /\ Others(c) /\ SamePlace(c) /\ chan[c].cmd \in {"set", "F4"}
      /\ chan'[c].at = IF chan[c].cmd = "set" THEN "clear" ELSE "f4end"
  BY Flush_Type
<1>3. OnlyMe(c)
  BY <1>1, NotMixed
<1>4. Holding(c) /\ ~Holding(c)' /\ ~Resetting(c)' /\ ~(chan'[c].at = "copied")
      /\ (AtUnit(c)' <=> AtUnit(c))
  BY <1>1, <1>2 DEF Holding, Resetting, AtUnit, SamePlace
<1>5. (chan'[c].at \in {"f4read", "f4copy"}) <=> (chan[c].at \in {"f4read", "f4copy"})
  BY <1>1, <1>2
<1>6. \A g \in Group : Expected(g)' = Expected(g)
  BY <1>1, <1>2, <1>4, <1>5, ExpectedMoved
<1>7. file' = chan[c].buf
  BY Flush_File
<1>8. ASSUME NEW g \in Group PROVE GetGroup(file', g) = Expected(g)'
  <2>1. GetGroup(chan[c].buf, g) = Expected(g)
    BY <1>1, <1>2, <1>3, <1>4, BeliefOf
  <2>2. QED
    BY <1>6, <1>7, <2>1
<1>9. QED
  BY <1>2, <1>3, <1>4, <1>8, BeliefStep

LEMMA LoadGroup_Belief ==
  ASSUME TypeInv, AllPhases, FileInv, BeliefInv, NEW c \in Channel, LoadGroup(c), ~torn'
  PROVE  BeliefInv'
<1>1. chan[c].at = "load" /\ UNCHANGED <<init, file, last, believed, torn>>
  BY DEF LoadGroup, told
<1>2. /\ Others(c) /\ AtUnit(c) /\ chan[c].cmd = "set" /\ chan'[c].cmd = "set"
      /\ chan'[c].units = chan[c].units
      /\ chan'[c].done = Append(chan[c].done, chan[c].ok)
      /\ chan'[c].at = IF chan[c].ok THEN "unit" ELSE "answer"
  BY LoadGroup_Type
<1>3. chan[c].ok = TRUE
  <2>1. chan[c].ok \in BOOLEAN
    BY Fields DEF TypeInv
  <2>2. chan[c].ok \/ torn
    BY <1>2 DEF FileInv, FileOf
  <2>3. QED
    BY <1>1, <2>1, <2>2
<1>4. ~Holding(c) /\ ~Resetting(c) /\ ~Holding(c)' /\ ~Resetting(c)' /\ ~AtUnit(c)'
      /\ chan'[c].at = "unit"
  BY <1>1, <1>2, <1>3 DEF Holding, Resetting, AtUnit
<1>5. \A g \in Group : SetBy(c, g)' = SetBy(c, g)
  <2> TAKE g \in Group
  <2> DEFINE dn == chan[c].done
             ne == Append(dn, TRUE)
             us == chan[c].units
  <2>1. dn \in Seq(BOOLEAN)
    BY Fields DEF TypeInv
  <2>2. \A i \in DOMAIN dn : dn[i] = TRUE
    BY <1>1, <1>2 DEF AllPhases, PhaseInv
  <2>3. chan'[c].done = ne /\ chan'[c].units = us
    BY <1>2, <1>3
  <2> HIDE DEF dn, us
  <2>4. /\ Len(ne) = Len(dn) + 1 /\ DOMAIN ne = 1 .. Len(dn) + 1 /\ DOMAIN dn = 1 .. Len(dn)
        /\ \A i \in DOMAIN ne : ne[i] = TRUE
    <3>1. \A i \in DOMAIN ne : ne[i] = ~(TRUE = FALSE /\ i = Len(ne))
      BY <2>1, <2>2, AppendDone
    <3>2. QED
      BY <2>1, <2>2, <3>1, AppendDone
  <2> HIDE DEF ne
  <2>5. Taken(c) = Len(dn) + 1
    BY <1>2 DEF Taken, dn
  <2>6. Taken(c)' = Len(dn) + 1
    BY <1>4, <2>3, <2>4 DEF Taken
  <2>7. SetBy(c, g) = {i \in 1 .. Len(dn) + 1 : us[i].fn = g}
    <3>1. SetBy(c, g) = {i \in 1 .. Len(dn) + 1 : us[i].fn = g /\ (i \in DOMAIN dn => dn[i])}
      BY <2>5 DEF SetBy, dn, us
    <3>2. \A i \in DOMAIN dn : dn[i] = TRUE
      BY <2>2 DEF dn
    <3>3. QED
      BY <3>1, <3>2
  <2>8. SetBy(c, g)' = {i \in 1 .. Len(dn) + 1 : us[i].fn = g}
    <3>1. SetBy(c, g)' = {i \in 1 .. Len(dn) + 1 : us[i].fn = g /\ (i \in DOMAIN ne => ne[i])}
      BY <2>3, <2>6 DEF SetBy
    <3>2. QED
      BY <2>4, <3>1
  <2>9. QED
    BY <2>7, <2>8
<1>6. \A g \in Group : Reset(c, g)' <=> Reset(c, g)
  BY <1>2 DEF Reset
<1>7. \A g \in Group : Expected(g)' = Expected(g)
  BY <1>1, <1>2, <1>5, <1>6, ExpectedSame
<1>8. QED
  BY <1>1, <1>2, <1>4, <1>7, BeliefNeutral

\* Only the main station's parameters are not reset, and what AFN01 F4 sets is
\* not in data units.
LEMMA StationSame ==
  ASSUME NEW c \in Channel, Others(c), UNCHANGED <<init, believed>>, last'["F3"] = last["F3"],
         chan[c].cmd = "F4", chan'[c].cmd = "F4"
  PROVE  Expected("F3")' = Expected("F3")
<1>1. "F3" \in Group
  BY Groups
<1>2. CASE last["F3"] = c
  <2>1. ~Reset(c, "F3") /\ ~Reset(c, "F3")'
    BY DEF Reset
  <2>2. Expected("F3") = believed["F3"] /\ Expected("F3")' = believed'["F3"]
    BY <1>2, <2>1, ExpectedBelieved
  <2>3. QED
    BY <2>2
<1>3. CASE last["F3"] # c
  BY <1>1, <1>3, ExpectedSame
<1>4. QED
  BY <1>2, <1>3

\* Between commands nothing is expected but what the station was told.
LEMMA ExpectedIdle ==
  ASSUME NEW g
  PROVE  /\ (\A c \in Channel : chan[c].cmd = "none") => Expected(g) = believed[g]
         /\ (\A c \in Channel : chan'[c].cmd = "none") => Expected(g)' = believed'[g]
<1>1. ASSUME \A c \in Channel : chan[c].cmd = "none" PROVE Expected(g) = believed[g]
  <2>1. CASE last[g] \in Channel
    <3>1. PICK d \in Channel : last[g] = d
      BY <2>1
    <3>2. QED
      BY <1>1, <3>1, ExpectedBelieved DEF Reset
  <2>2. CASE last[g] \notin Channel
    BY <2>2 DEF Expected, ExpectedFrom
  <2>3. QED
    BY <2>1, <2>2
<1>2. ASSUME \A c \in Channel : chan'[c].cmd = "none" PROVE Expected(g)' = believed'[g]
  <2>1. CASE last'[g] \in Channel
    <3>1. PICK d \in Channel : last'[g] = d
      BY <2>1
    <3>2. QED
      BY <1>2, <3>1, ExpectedBelieved DEF Reset
  <2>2. CASE last'[g] \notin Channel
    BY <2>2 DEF Expected, ExpectedFrom
  <2>3. QED
    BY <2>1, <2>2
<1>3. QED
  BY <1>1, <1>2

\* The answer tells the station what was expected of each group.
LEMMA Answer_Belief ==
  ASSUME TypeInv, AllPhases, BeliefInv, NEW c \in Channel, Answer(c)
  PROVE  BeliefInv'
<1>1. Others(c) /\ chan'[c] = Idle
  BY Answer_Type
<1>2. /\ chan[c].at \in {"answer", "unit"} /\ UNCHANGED <<init, file, last>>
  BY DEF Answer
<1>3. /\ chan[c].cmd = "set" /\ ~AtUnit(c)
      /\ Acknowledged(c) = {i \in DOMAIN chan[c].done : chan[c].done[i]}
      /\ DOMAIN chan[c].done = 1 .. Len(chan[c].done)
  BY AcknowledgedIs
<1>4. chan'[c].at = "idle" /\ chan'[c].cmd = "none"
  BY <1>1 DEF Idle
<1>5. ~Holding(c)' /\ ~Resetting(c)' /\ ~Holding(c) /\ ~Resetting(c)
      /\ ~(chan'[c].at = "copied") /\ ~(chan[c].at = "copied")
      /\ ~(chan'[c].at = "f4copy") /\ ~(chan[c].at = "f4copy")
  BY <1>2, <1>4 DEF Holding, Resetting
<1>6. ASSUME NEW g \in Group PROVE Expected(g)' = Expected(g)
  <2> DEFINE S == {i \in Acknowledged(c) : chan[c].units[i].fn = g /\ last[g] = c}
  <2>1. believed'[g] = IF S = {} THEN believed[g] ELSE All(g, chan[c].units[Latest(S)].val)
    BY DEF Answer, Latest
  <2>2. CASE last[g] = c
    <3>1. SetBy(c, g) = S
      BY <1>3, <2>2 DEF SetBy, Taken
    <3>2. ~Reset(c, g) /\ ~Reset(c, g)'
      BY <1>3, <1>4 DEF Reset
    <3>3. Expected(g)' = believed'[g]
      BY <1>2, <1>4, <2>2, <3>2, ExpectedBelieved
    <3>4. CASE S = {}
      <4>1. Expected(g) = believed[g]
        BY <2>2, <3>1, <3>2, <3>4, ExpectedBelieved
      <4>2. QED
        BY <2>1, <3>3, <3>4, <4>1
    <3>5. CASE S # {}
      <4>1. Expected(g) = LastSet(c, g)
        BY <1>3, <2>2, <3>1, <3>5, ExpectedSet
      <4>2. LastSet(c, g) = All(g, chan[c].units[Latest(S)].val)
        BY <3>1 DEF LastSet
      <4>3. QED
        BY <2>1, <3>3, <3>5, <4>1, <4>2
    <3>6. QED
      BY <3>4, <3>5
  <2>3. CASE last[g] # c
    <3>1. S = {}
      BY <2>3
    <3>2. believed'[g] = believed[g]
      BY <2>1, <3>1
    <3>3. QED
      BY <1>1, <1>2, <2>3, <3>2, ExpectedSame
  <2>4. QED
    BY <2>2, <2>3
<1>7. QED
  BY <1>1, <1>2, <1>5, <1>6, BeliefNeutral

LEMMA F4End_Belief ==
  ASSUME TypeInv, AllPhases, BeliefInv, NEW c \in Channel, F4End(c)
  PROVE  BeliefInv'
<1>1. Others(c) /\ chan'[c] = Idle
  BY F4End_Type
<1>2. chan[c].at = "f4end" /\ UNCHANGED <<init, file, last>>
  BY DEF F4End
<1>3. chan[c].cmd = "F4"
  BY <1>2 DEF AllPhases, PhaseInv
<1>4. chan'[c].at = "idle" /\ chan'[c].cmd = "none"
  BY <1>1 DEF Idle
<1>5. ~Holding(c)' /\ ~Resetting(c)' /\ ~Holding(c) /\ ~Resetting(c)
      /\ ~(chan'[c].at = "copied") /\ ~(chan[c].at = "copied")
      /\ ~(chan'[c].at = "f4copy") /\ ~(chan[c].at = "f4copy")
  BY <1>2, <1>4 DEF Holding, Resetting
<1>6. ASSUME NEW g \in Group PROVE Expected(g)' = Expected(g)
  <2>1. believed'[g] = IF last[g] = c /\ g # "F3" THEN GetGroup(init, g) ELSE believed[g]
    BY DEF F4End
  <2>2. CASE last[g] = c
    <3>1. ~Reset(c, g)' /\ (Reset(c, g) <=> g # "F3")
      BY <1>2, <1>3, <1>4 DEF Reset
    <3>2. Expected(g)' = believed'[g]
      BY <1>2, <1>4, <2>2, <3>1, ExpectedBelieved
    <3>3. CASE g = "F3"
      <4>1. Expected(g) = believed[g]
        BY <1>3, <2>2, <3>1, <3>3, ExpectedBelieved
      <4>2. QED
        BY <2>1, <3>2, <3>3, <4>1
    <3>4. CASE g # "F3"
      <4>1. Expected(g) = GetGroup(init, g)
        BY <2>2, <3>1, <3>4, ExpectedReset
      <4>2. QED
        BY <2>1, <2>2, <3>2, <3>4, <4>1
    <3>5. QED
      BY <3>3, <3>4
  <2>3. CASE last[g] # c
    BY <1>1, <1>2, <2>1, <2>3, ExpectedSame
  <2>4. QED
    BY <2>2, <2>3
<1>7. QED
  BY <1>1, <1>2, <1>5, <1>6, BeliefNeutral

LEMMA F4Read_Belief ==
  ASSUME TypeInv, AllPhases, FileInv, BeliefInv, NEW c \in Channel, F4Read(c), ~mixed', ~torn'
  PROVE  BeliefInv'
<1>1. /\ chan[c].at = "f4read" /\ Touch(c) /\ UNCHANGED <<init, file, believed, torn>>
      /\ last' = [g \in Group |-> IF g = "F3" THEN last[g] ELSE c]
  BY DEF F4Read
<1>2. /\ Others(c) /\ chan[c].cmd = "F4"
      /\ GetGroup(file, "F3") # None => chan'[c].at = "f4copy" /\ chan'[c].cmd = "F4"
  BY F4Read_Type
<1>3. OnlyMe(c)
  BY <1>1, NotMixed
<1>4. ~Gap(c) /\ ~Holding(c) /\ ~Resetting(c) /\ ~(chan[c].at = "copied")
  BY <1>1 DEF Gap, Holding, Resetting
<1>5. Complete(file)
  BY <1>1, <1>2, <1>3, <1>4, FileIs
<1>6. chan'[c].at = "f4copy" /\ chan'[c].cmd = "F4"
  BY <1>2, <1>5, CompleteNotEmpty
<1>7. ~Holding(c)' /\ ~Resetting(c)'
  BY <1>6 DEF Holding, Resetting
<1>8. "F3" \in Group /\ last'["F3"] = last["F3"]
  BY <1>1, Groups
<1>9. Expected("F3")' = Expected("F3")
  BY <1>1, <1>2, <1>6, <1>8, StationSame
<1>10. GetGroup(file, "F3") = Expected("F3")
  BY <1>2, <1>3, <1>4, <1>8, BeliefOf
<1>11. ASSUME NEW g \in Group, g = "F3" PROVE GetGroup(file', g) = Expected(g)'
  BY <1>1, <1>9, <1>10, <1>11
<1>12. QED
  BY <1>2, <1>3, <1>6, <1>7, <1>11, BeliefStep

LEMMA F4Copy_Belief ==
  ASSUME TypeInv, AllPhases, FileInv, BeliefInv, NEW c \in Channel, F4Copy(c), ~mixed'
  PROVE  BeliefInv'
<1>1. chan[c].at = "f4copy" /\ Touch(c) /\ UNCHANGED <<init, last, believed>>
  BY DEF F4Copy, told
<1>2. Others(c) /\ chan'[c].at = "copied" /\ SameRest(c)
  BY F4Copy_Type
<1>3. OnlyMe(c) /\ FileOf(c)
  BY <1>1, NotMixed DEF FileInv
<1>4. chan[c].cmd = "F4" /\ chan'[c].cmd = "F4"
  BY <1>1, <1>2 DEF AllPhases, PhaseInv, SameRest, SamePlace
<1>5. ~Holding(c) /\ ~Holding(c)' /\ ~Resetting(c)
  BY <1>1, <1>2 DEF Holding, Resetting
<1>6. "F3" \in Group
  BY Groups
<1>7. GetGroup(file, "F3") = Expected("F3")
  BY <1>1, <1>2, <1>3, <1>5, <1>6, BeliefOf
<1>8. chan'[c].val = Expected("F3")'
  BY <1>1, <1>2, <1>3, <1>4, <1>7, StationSame DEF FileOf, SameRest
<1>9. QED
  BY <1>2, <1>3, <1>5, <1>8, BeliefStep

LEMMA F4Copied_Belief ==
  ASSUME TypeInv, AllPhases, FileInv, MemInv, BeliefInv, NEW c \in Channel, F4Copied(c), ~mixed'
  PROVE  BeliefInv'
<1>1. chan[c].at = "copied" /\ Touch(c) /\ UNCHANGED <<init, last, believed>>
  BY DEF F4Copied, told
<1>2. Others(c) /\ chan'[c].at = "f4load" /\ SameRest(c)
  BY F4Copied_Type
<1>3. OnlyMe(c) /\ FileOf(c)
  BY <1>1, NotMixed DEF FileInv
<1>4. chan[c].cmd = "F4" /\ chan'[c].cmd = "F4"
  BY <1>1, <1>2 DEF AllPhases, PhaseInv, SameRest, SamePlace
<1>5. Resetting(c) /\ ~Holding(c)'
  BY <1>1, <1>2 DEF Holding, Resetting
<1>6. "F3" \in Group
  BY Groups
<1>7. chan[c].val = Expected("F3")
  BY <1>1, <1>2, <1>3, <1>5, <1>6, BeliefOf
<1>8. chan'[c].val = Expected("F3")'
  BY <1>1, <1>2, <1>4, <1>7, StationSame DEF SameRest
<1>9. file' = init
  BY F4Copied_File
<1>10. ASSUME NEW g \in Group, g # "F3" PROVE GetGroup(file', g) = Expected(g)'
  <2>1. last'[g] = c
    BY <1>1, <1>3, <1>10 DEF FileOf
  <2>2. Reset(c, g)'
    BY <1>2, <1>4, <1>10 DEF Reset
  <2>3. QED
    BY <1>1, <1>9, <2>1, <2>2, ExpectedReset
<1>11. Resetting(c)'
  BY <1>2 DEF Resetting
<1>12. QED
  BY <1>2, <1>3, <1>5, <1>8, <1>10, <1>11, BeliefStep

LEMMA F4Save_Belief ==
  ASSUME TypeInv, AllPhases, FileInv, MemInv, BeliefInv, NEW c \in Channel, F4Save(c), ~mixed'
  PROVE  BeliefInv'
<1>1. chan[c].at = "f4save" /\ UNCHANGED <<init, last, believed>>
  BY DEF F4Save, told
<1>2. Others(c) /\ SamePlace(c) /\ chan[c].cmd = "F4" /\ chan[c].val \in ValuesOf("F3")
  BY F4Save_Type
<1>3. /\ OnlyMe(c) /\ file = init /\ Complete(init)
      /\ chan'[c].at = "open" /\ chan'[c].buf = PutGroup(init, "F3", chan[c].val)
  BY F4Save_File
<1>4. Resetting(c) /\ ~Holding(c) /\ Holding(c)' /\ ~Resetting(c)' /\ ~AtUnit(c) /\ ~AtUnit(c)'
  BY <1>1, <1>2, <1>3 DEF Holding, Resetting, AtUnit, SamePlace
<1>5. "F3" \in Group /\ init \in Seq(Entry)
  BY <1>3, Groups DEF Complete
<1>6. /\ GetGroup(chan'[c].buf, "F3") = chan[c].val
      /\ \A g \in Group \ {"F3"} : GetGroup(chan'[c].buf, g) = GetGroup(init, g)
  BY <1>2, <1>3, <1>5, PutGroupGets
<1>7. \A g \in Group : Expected(g)' = Expected(g)
  BY <1>1, <1>2, <1>3, <1>4, ExpectedMoved
<1>8. ASSUME NEW g \in Group PROVE GetGroup(chan'[c].buf, g) = Expected(g)'
  <2>1. CASE g = "F3"
    <3>1. chan[c].val = Expected("F3")
      BY <1>2, <1>3, <1>4, <1>5, BeliefOf
    <3>2. QED
      BY <1>6, <1>7, <2>1, <3>1
  <2>2. CASE g # "F3"
    <3>1. GetGroup(file, g) = Expected(g)
      BY <1>1, <1>2, <1>3, <1>4, <2>2, BeliefOf
    <3>2. QED
      BY <1>3, <1>6, <1>7, <2>2, <3>1
  <2>3. QED
    BY <2>1, <2>2
<1>9. QED
  BY <1>2, <1>3, <1>4, <1>8, BeliefStep

LEMMA PowerCut_Belief ==
  ASSUME TypeInv, AllPhases, FileInv, BeliefInv, PowerCut
  PROVE  BeliefInv'
<1>1. UNCHANGED <<init, file, last>>
  BY DEF PowerCut
<1>2. \A c \in Channel : chan'[c].at = "idle" /\ chan'[c].cmd = "none"
  BY PowerCut_Type DEF Idle
<1>3. \A c \in Channel : ~Holding(c)' /\ ~Resetting(c)'
  BY <1>2 DEF Holding, Resetting
<1>4. ASSUME NEW g \in Group PROVE GetGroup(file', g) = Expected(g)'
  <2>1. Expected(g)' = believed'[g]
    BY <1>2, ExpectedIdle
  <2>2. CASE \E c \in Channel : chan[c].at # "idle"
    <3>1. believed'[g] = GetGroup(file, g)
      BY <2>2 DEF PowerCut
    <3>2. QED
      BY <1>1, <2>1, <3>1
  <2>3. CASE \A c \in Channel : chan[c].at = "idle"
    <3>1. believed'[g] = believed[g]
      BY <2>3 DEF PowerCut
    <3>2. \A c \in Channel : chan[c].cmd = "none"
      BY <2>3 DEF AllPhases, PhaseInv
    <3>3. Expected(g) = believed[g]
      BY <3>2, ExpectedIdle
    <3>4. GetGroup(file, g) = Expected(g)
      <4>1. \A c \in Channel : ~Holding(c) /\ ~Resetting(c) /\ chan[c].at # "copied"
                               /\ ~(chan[c].at = "f4copy")
        BY <2>3 DEF Holding, Resetting
      <4>2. ~Unsure(g) /\ InPlace
        BY <4>1 DEF Unsure, InPlace
      <4>3. QED
        BY <4>1, <4>2 DEF BeliefInv
    <3>5. QED
      BY <1>1, <2>1, <3>1, <3>3, <3>4
  <2>4. QED
    BY <2>2, <2>3
<1>5. QED
  BY <1>3, <1>4 DEF BeliefInv

LEMMA TryLock_Belief ==
  ASSUME TypeInv, AllPhases, FileInv, BeliefInv, NEW c \in Channel, TryLock(c)
  PROVE  BeliefInv'
<1>1. chan[c].at = "lock" /\ UNCHANGED <<init, file, last, believed>>
  BY DEF TryLock, told
<1>2. lock = None
  BY <1>1, LockIsFree DEF FileInv
<1>3. Others(c) /\ SameRest(c) /\ chan'[c].at = "locked"
  BY <1>2, TryLock_Type
<1>4. QED
  BY <1>1, <1>3, MoveBelief

LEMMA Unlock_Belief ==
  ASSUME TypeInv, AllPhases, BeliefInv, NEW c \in Channel, Unlock(c)
  PROVE  BeliefInv'
<1>1. chan[c].at = "locked" /\ UNCHANGED <<init, file, last, believed>>
  BY DEF Unlock, told
<1>2. Others(c) /\ SameRest(c) /\ chan'[c].at = "flush"
  BY Unlock_Type
<1>3. QED
  BY <1>1, <1>2, MoveBelief

LEMMA ClearGroup_Belief ==
  ASSUME TypeInv, AllPhases, BeliefInv, NEW c \in Channel, ClearGroup(c)
  PROVE  BeliefInv'
<1>1. chan[c].at = "clear" /\ UNCHANGED <<init, file, last, believed>>
  BY DEF ClearGroup, told
<1>2. Others(c) /\ SameRest(c) /\ chan'[c].at = "load"
  BY ClearGroup_Type
<1>3. QED
  BY <1>1, <1>2, MoveBelief

LEMMA F4Load_Belief ==
  ASSUME TypeInv, AllPhases, BeliefInv, NEW c \in Channel, F4Load(c)
  PROVE  BeliefInv'
<1>1. chan[c].at = "f4load" /\ UNCHANGED <<init, file, last, believed>>
  BY DEF F4Load, told
<1>2. Others(c) /\ SameRest(c) /\ chan'[c].at = "f4save"
  BY F4Load_Type
<1>3. QED
  BY <1>1, <1>2, MoveBelief

-----------------------------------------------------------------------------
(* The invariant.                                                           *)

\* It holds when the terminal has started.
LEMMA ParamInit == Init => ParamInv
<1> SUFFICES ASSUME Init PROVE ParamInv
  OBVIOUS
<1>1. /\ init \in DefaultFiles /\ file = init /\ mem = LoadAll(file, Zeroed) /\ lock = None
      /\ chan = [c \in Channel |-> Idle]
      /\ believed = [g \in Group |-> GetGroup(file, g)]
      /\ last = [g \in Group |-> None]
      /\ mixed = FALSE /\ torn = FALSE
  BY DEF Init
<1>2. file \in Seq(Entry) /\ Complete(file)
  BY <1>1, DefaultIsComplete
<1>3. chan \in [Channel -> ChanType] /\ \A c \in Channel : chan[c].at = "idle" /\ chan[c] = Idle
  BY <1>1, IdleType
<1>4. mem \in [Group -> Seq(V) \union {None}]
  <2>1. Zeroed \in [Group -> Seq(V) \union {None}]
    BY DEF Zeroed
  <2>2. QED
    BY <1>1, <1>2, <2>1, LoadAllType
<1>5. \A g \in Group : GetGroup(file, g) \in Seq(V) \union {None}
  BY <1>2, GetGroupType, NoneIsNoValue
<1>6. TypeInv
  <2> HIDE DEF Group, Entry
  <2>1. QED
    BY <1>1, <1>2, <1>3, <1>4, <1>5 DEF TypeInv
<1>7. \A c \in Channel : PhaseInv(c)
  BY <1>1, <1>3, NoneIsNoValue DEF PhaseInv, Idle, AtUnit, Holding
<1>8. \A c \in Channel : /\ ~Saving(c) /\ ~Holding(c) /\ ~Gap(c) /\ ~AtUnit(c) /\ ~Resetting(c)
                         /\ FileOf(c)
  BY <1>3 DEF Saving, Holding, Gap, AtUnit, Resetting, FileOf
<1>9. FileInv
  BY <1>2, <1>8 DEF FileInv, Whole, Alone
<1>10. MemInv
  <2>1. ASSUME NEW g \in Loaded PROVE mem[g] = GetGroup(file, g)
    <3>1. Zeroed[g] = None
      BY LoadedGroups DEF Zeroed
    <3>2. QED
      BY <1>1, <3>1, LoadAllGets
  <2>2. QED
    BY <1>8, <2>1 DEF MemInv
<1>11. BeliefInv
  <2>1. ASSUME NEW g \in Group PROVE GetGroup(file, g) = Expected(g)
    <3>1. \A c \in Channel : chan[c].cmd = "none"
      BY <1>3 DEF Idle
    <3>2. Expected(g) = believed[g]
      BY <3>1, ExpectedIdle
    <3>3. QED
      BY <1>1, <3>2
  <2>2. QED
    BY <1>8, <2>1 DEF BeliefInv
<1>12. QED
  BY <1>6, <1>7, <1>9, <1>10, <1>11 DEF ParamInv

\* Two commands that have been in the file together, and a power failure while
\* it was empty, are not forgotten.
LEMMA NotForgotten ==
  ASSUME TypeInv, Next
  PROVE  (mixed => mixed') /\ (torn => torn')
<1>1. CASE LocalSetTermIpInfo
  BY <1>1 DEF LocalSetTermIpInfo
<1>2. CASE PowerCut
  BY <1>2 DEF PowerCut
<1>3. ASSUME NEW c \in Channel, NEW f \in Frames, Receive(c, f) PROVE UNCHANGED <<mixed, torn>>
  BY <1>3 DEF Receive
<1>4. ASSUME NEW c \in Channel, ResetCommand(c) PROVE UNCHANGED <<mixed, torn>>
  BY <1>4 DEF ResetCommand
<1>5. ASSUME NEW c \in Channel, Command(c) PROVE (mixed => mixed') /\ torn' = torn
  <2>1. CASE NextUnit(c)
    BY <2>1 DEF NextUnit, ReadFile, Touch
  <2>2. CASE Truncate(c)
    BY <2>2 DEF Truncate, Touch
  <2>3. CASE TryLock(c)
    BY <2>3 DEF TryLock
  <2>4. CASE Unlock(c)
    BY <2>4 DEF Unlock
  <2>5. CASE Flush(c)
    BY <2>5 DEF Flush, Touch
  <2>6. CASE ClearGroup(c)
    BY <2>6 DEF ClearGroup
  <2>7. CASE LoadGroup(c)
    BY <2>7 DEF LoadGroup, Touch
  <2>8. CASE Answer(c)
    BY <2>8 DEF Answer
  <2>9. CASE F4Read(c)
    BY <2>9 DEF F4Read, Touch
  <2>10. CASE F4Copy(c)
    BY <2>10 DEF F4Copy, Touch
  <2>11. CASE F4Copied(c)
    BY <2>11 DEF F4Copied, Touch
  <2>12. CASE F4Load(c)
    BY <2>12 DEF F4Load
  <2>13. CASE F4Save(c)
    BY <2>13 DEF F4Save, ReadFile, Touch
  <2>14. CASE F4End(c)
    BY <2>14 DEF F4End
  <2>15. QED
    BY <1>5, <2>1, <2>2, <2>3, <2>4, <2>5, <2>6, <2>7, <2>8, <2>9, <2>10, <2>11, <2>12,
       <2>13, <2>14 DEF Command
<1>6. QED
  BY <1>1, <1>2, <1>3, <1>4, <1>5 DEF Next

\* What each step of a command keeps, one part of the invariant after the other.
Preserved ==
    /\ TypeInv' /\ AllPhases'
    /\ FileInv /\ MemInv /\ ~mixed' => FileInv' /\ MemInv'
    /\ FileInv /\ MemInv /\ BeliefInv /\ ~mixed' /\ ~torn' => BeliefInv'

LEMMA SetKeeps ==
  ASSUME TypeInv, AllPhases, NEW c \in Channel
  PROVE  /\ NextUnit(c) => Preserved
         /\ Truncate(c) => Preserved
         /\ TryLock(c) => Preserved
         /\ Unlock(c) => Preserved
         /\ Flush(c) => Preserved
         /\ ClearGroup(c) => Preserved
         /\ LoadGroup(c) => Preserved
         /\ Answer(c) => Preserved
<1>1. NextUnit(c) => Preserved
  BY NextUnit_Type, NextUnit_File, NextUnit_Belief DEF Preserved
<1>2. Truncate(c) => Preserved
  BY Truncate_Type, Truncate_File, Truncate_Belief DEF Preserved
<1>3. TryLock(c) => Preserved
  BY TryLock_Type, TryLock_File, TryLock_Belief DEF Preserved
<1>4. Unlock(c) => Preserved
  BY Unlock_Type, Unlock_File, Unlock_Belief DEF Preserved
<1>5. Flush(c) => Preserved
  BY Flush_Type, Flush_File, Flush_Belief DEF Preserved
<1>6. ClearGroup(c) => Preserved
  BY ClearGroup_Type, ClearGroup_File, ClearGroup_Belief DEF Preserved
<1>7. LoadGroup(c) => Preserved
  BY LoadGroup_Type, LoadGroup_File, LoadGroup_Belief DEF Preserved
<1>8. Answer(c) => Preserved
  BY Answer_Type, Answer_File, Answer_Belief DEF Preserved
<1>9. QED
  BY <1>1, <1>2, <1>3, <1>4, <1>5, <1>6, <1>7, <1>8

LEMMA ResetKeeps ==
  ASSUME TypeInv, AllPhases, NEW c \in Channel
  PROVE  /\ F4Read(c) => Preserved
         /\ F4Copy(c) => Preserved
         /\ F4Copied(c) => Preserved
         /\ F4Load(c) => Preserved
         /\ F4Save(c) => Preserved
         /\ F4End(c) => Preserved
<1>1. F4Read(c) => Preserved
  BY F4Read_Type, F4Read_File, F4Read_Belief DEF Preserved
<1>2. F4Copy(c) => Preserved
  BY F4Copy_Type, F4Copy_File, F4Copy_Belief DEF Preserved
<1>3. F4Copied(c) => Preserved
  BY F4Copied_Type, F4Copied_File, F4Copied_Belief DEF Preserved
<1>4. F4Load(c) => Preserved
  BY F4Load_Type, F4Load_File, F4Load_Belief DEF Preserved
<1>5. F4Save(c) => Preserved
  BY F4Save_Type, F4Save_File, F4Save_Belief DEF Preserved
<1>6. F4End(c) => Preserved
  BY F4End_Type, F4End_File, F4End_Belief DEF Preserved
<1>7. QED
  BY <1>1, <1>2, <1>3, <1>4, <1>5, <1>6

LEMMA OthersKeep ==
  ASSUME TypeInv, AllPhases
  PROVE  /\ \A c \in Channel : \A f \in Frames : Receive(c, f) => Preserved
         /\ \A c \in Channel : ResetCommand(c) => Preserved
         /\ PowerCut => Preserved
<1>1. ASSUME NEW c \in Channel, NEW f \in Frames, Receive(c, f) PROVE Preserved
  BY <1>1, Receive_Type, Receive_File, Receive_Belief DEF Preserved
<1>2. ASSUME NEW c \in Channel, ResetCommand(c) PROVE Preserved
  BY <1>2, ResetCommand_Type, ResetCommand_File, ResetCommand_Belief DEF Preserved
<1>3. ASSUME PowerCut PROVE Preserved
  BY <1>3, PowerCut_Type, PowerCut_File, PowerCut_Belief DEF Preserved
<1>4. QED
  BY <1>1, <1>2, <1>3

\* A step that changes nothing the invariant speaks of.
LEMMA StillParam ==
  ASSUME ParamInv, UNCHANGED <<init, file, mem, lock, chan, believed, last, mixed, torn>>
  PROVE  ParamInv'
<1>1. TypeInv => TypeInv'
  BY DEF TypeInv
<1>2. \A c \in Channel : PhaseInv(c) => PhaseInv(c)'
  BY DEF PhaseInv, AtUnit, Holding, Current
<1>3. \A c \in Channel : /\ (Holding(c)' <=> Holding(c)) /\ (Gap(c)' <=> Gap(c))
                         /\ (Saving(c)' <=> Saving(c)) /\ (AtUnit(c)' <=> AtUnit(c))
                         /\ (Resetting(c)' <=> Resetting(c))
  BY DEF Holding, Gap, Saving, AtUnit, Resetting
<1>4. (InPlace' <=> InPlace) /\ \A g : (Pending(g)' <=> Pending(g)) /\ (Unsure(g)' <=> Unsure(g))
  BY <1>3 DEF InPlace, Pending, Unsure
<1>5. FileInv => FileInv'
  BY <1>3 DEF FileInv, Alone, Whole, EmptySince, FileOf
<1>6. MemInv => MemInv'
  BY <1>3, <1>4 DEF MemInv
<1>7. \A g \in Group : Expected(g)' = Expected(g)
  <2> TAKE g \in Group
  <2>1. CASE last[g] \in Channel
    <3>1. PICK c \in Channel : last[g] = c
      BY <2>1
    <3>2. Taken(c)' = Taken(c)
      BY DEF Taken, AtUnit, Holding
    <3>3. SetBy(c, g)' = SetBy(c, g)
      BY <3>2 DEF SetBy
    <3>4. ExpectedFrom(c, g)' = ExpectedFrom(c, g)
      BY <3>3 DEF ExpectedFrom, HasSet, LastSet, Reset
    <3>5. QED
      BY <3>1, <3>4, ExpectedAt
  <2>2. CASE last[g] \notin Channel
    <3>1. Expected(g) = believed[g]
      BY <2>2 DEF Expected, ExpectedFrom
    <3>2. Expected(g)' = believed'[g]
      BY <2>2 DEF Expected, ExpectedFrom
    <3>3. QED
      BY <3>1, <3>2
  <2>3. QED
    BY <2>1, <2>2
<1>8. BeliefInv => BeliefInv'
  BY <1>3, <1>4, <1>7 DEF BeliefInv
<1>9. QED
  BY <1>1, <1>2, <1>5, <1>6, <1>8 DEF ParamInv

LEMMA ParamStep == ParamInv /\ [Next]_vars => ParamInv'
<1> SUFFICES ASSUME ParamInv, [Next]_vars PROVE ParamInv'
  OBVIOUS
<1>1. TypeInv /\ AllPhases /\ (~mixed => FileInv /\ MemInv) /\ (~mixed /\ ~torn => BeliefInv)
  BY DEF ParamInv, AllPhases
<1>2. mixed \in BOOLEAN /\ torn \in BOOLEAN
  BY <1>1 DEF TypeInv
<1>3. ASSUME Next, Preserved PROVE ParamInv'
  <2>1. (mixed => mixed') /\ (torn => torn')
    BY <1>1, <1>3, NotForgotten
  <2>2. TypeInv' /\ AllPhases'
    BY <1>3 DEF Preserved
  <2>3. ~mixed' => FileInv' /\ MemInv'
    BY <1>1, <1>3, <2>1 DEF Preserved
  <2>4. ~mixed' /\ ~torn' => BeliefInv'
    BY <1>1, <1>3, <2>1 DEF Preserved
  <2>5. QED
    BY <2>2, <2>3, <2>4 DEF ParamInv, AllPhases
<1>4. CASE UNCHANGED vars
  <2>1. UNCHANGED <<init, file, mem, lock, chan, believed, last, mixed, torn>>
    BY <1>4 DEF vars
  <2>2. QED
    BY <2>1, StillParam
<1>5. CASE LocalSetTermIpInfo
  <2>1. UNCHANGED <<init, file, mem, lock, chan, believed, last, mixed, torn>>
    BY <1>5 DEF LocalSetTermIpInfo, told
  <2>2. QED
    BY <2>1, StillParam
<1>6. ASSUME Next, ~LocalSetTermIpInfo PROVE Preserved
  <2>1. CASE PowerCut
    BY <1>1, <2>1, OthersKeep
  <2>2. CASE \E c \in Channel : (\E f \in Frames : Receive(c, f)) \/ ResetCommand(c)
    BY <1>1, <2>2, OthersKeep
  <2>3. ASSUME NEW c \in Channel, Command(c) PROVE Preserved
    <3>1. \/ NextUnit(c) \/ Truncate(c) \/ TryLock(c) \/ Unlock(c) \/ Flush(c)
          \/ ClearGroup(c) \/ LoadGroup(c) \/ Answer(c)
          \/ F4Read(c) \/ F4Copy(c) \/ F4Copied(c) \/ F4Load(c) \/ F4Save(c) \/ F4End(c)
      BY <2>3 DEF Command
    <3>2. QED
      BY <1>1, <3>1, SetKeeps, ResetKeeps, Zenon
  <2>4. QED
    BY <1>6, <2>1, <2>2, <2>3 DEF Next
<1>7. QED
  BY <1>3, <1>4, <1>5, <1>6

\* Whatever the channels do: the parameters, their file and what the station
\* was told are well formed, each command is at a place of its frame, and as
\* long as no two commands were in the file together the memory and the file
\* follow the text of the command that has it.
THEOREM ParamsAreConsistent == Spec => []ParamInv
<1>1. QED
  BY ParamInit, ParamStep, PTL DEF Spec

\* When no command is in progress the memory agrees with the file for every
\* group that is loaded at the start, but for the main station's: AFN04 saves a
\* unit and loads it again (para.c, file.c), AFN01 F4 loads the default file.
THEOREM MemoryFollowsFile == Spec => []MemoryIsFile
<1>1. ParamInv => MemoryIsFile
  <2> SUFFICES ASSUME ParamInv, Quiet, ~mixed, NEW g \in Loaded
               PROVE  mem[g] = GetGroup(file, g)
    BY DEF MemoryIsFile, Loaded
  <2>1. \A c \in Channel : ~Holding(c) /\ ~AtUnit(c) /\ chan[c].at \notin {"copied", "f4load"}
    BY DEF Quiet, Holding, AtUnit
  <2>2. ~Pending(g) /\ InPlace
    BY <2>1 DEF Pending, InPlace
  <2>3. QED
    BY <2>2 DEF ParamInv, MemInv
<1>2. QED
  BY <1>1, ParamsAreConsistent, PTL

\* When no command is in progress, none was in the file with another and the
\* power did not fail while the file was empty, the file holds for every group
\* what the station was told last (AFN_04H's answer, AFN01 F4).
THEOREM ConfirmedStays == Spec => []ConfirmedIsKept
<1>1. ParamInv => ConfirmedIsKept
  <2> SUFFICES ASSUME ParamInv, Quiet, ~mixed, ~torn, NEW g \in Group
               PROVE  GetGroup(file, g) = believed[g]
    BY DEF ConfirmedIsKept
  <2>1. \A c \in Channel : /\ ~Holding(c) /\ ~Resetting(c)
                           /\ chan[c].at \notin {"copied", "f4copy"} /\ chan[c].cmd = "none"
    BY DEF Quiet, Holding, Resetting, ParamInv, PhaseInv
  <2>2. InPlace /\ ~Unsure(g)
    BY <2>1 DEF InPlace, Unsure
  <2>3. Expected(g) = believed[g]
    BY <2>1, ExpectedIdle
  <2>4. QED
    BY <2>1, <2>2, <2>3 DEF ParamInv, BeliefInv
<1>2. QED
  BY <1>1, ParamsAreConsistent, PTL


--------------------------------------------------------------------------------
(***************************************************************************)
(* The texts of the parameter file.  A unit of AFN04 is put in the file as *)
(* the texts of its keys; the loader of the group reads them back, and     *)
(* AFN0A answers from what was loaded.  For each group the values that the *)
(* file carries come back the same (the _RoundTrip lemmas), whatever else  *)
(* the file holds.  HandlerInv says so of every state: a group that was    *)
(* set is loaded from the file as it was set, and what is in memory is     *)
(* what the file loads.                                                    *)
(***************************************************************************)
(* The keys of a group are as many as its loader reads, and all different.     *)
Distinct(s) == \A i, j \in DOMAIN s : s[i] = s[j] => i = j

LEMMA GroupNames ==
  H!Group = {"F1", "F3", "F5", "F7", "F8", "F9", "F16", "F36", "F89", "F91", "F153", "F154"}
BY DEF H!Group, H!KeysOf

LEMMA Keys_F1 == DOMAIN H!KeysOf["F1"] = 1 .. 8 /\ Distinct(H!KeysOf["F1"])
BY DEF H!KeysOf, Distinct
LEMMA Keys_F3 == DOMAIN H!KeysOf["F3"] = 1 .. 5 /\ Distinct(H!KeysOf["F3"])
BY DEF H!KeysOf, Distinct
LEMMA Keys_F5 == DOMAIN H!KeysOf["F5"] = 1 .. 2 /\ Distinct(H!KeysOf["F5"])
BY DEF H!KeysOf, Distinct
LEMMA Keys_F7 == DOMAIN H!KeysOf["F7"] = 1 .. 12 /\ Distinct(H!KeysOf["F7"])
BY DEF H!KeysOf, Distinct
LEMMA Keys_F8 == DOMAIN H!KeysOf["F8"] = 1 .. 9 /\ Distinct(H!KeysOf["F8"])
BY DEF H!KeysOf, Distinct
LEMMA Keys_F9 == DOMAIN H!KeysOf["F9"] = 1 .. 4 /\ Distinct(H!KeysOf["F9"])
BY DEF H!KeysOf, Distinct
LEMMA Keys_F16 == DOMAIN H!KeysOf["F16"] = 1 .. 2 /\ Distinct(H!KeysOf["F16"])
BY DEF H!KeysOf, Distinct
LEMMA Keys_F36 == DOMAIN H!KeysOf["F36"] = 1 .. 1 /\ Distinct(H!KeysOf["F36"])
BY DEF H!KeysOf, Distinct
LEMMA Keys_F89 == DOMAIN H!KeysOf["F89"] = 1 .. 2 /\ Distinct(H!KeysOf["F89"])
BY DEF H!KeysOf, Distinct
LEMMA Keys_F153 == DOMAIN H!KeysOf["F153"] = 1 .. 4 /\ Distinct(H!KeysOf["F153"])
BY DEF H!KeysOf, Distinct

(* What is read back of a number and of an address.                            *)
LEMMA NumberRead ==
  ASSUME NEW n, NEW t, t = H!Decimal(n)
  PROVE  H!atoi(t) = n
BY DEF H!Decimal, H!atoi

LEMMA AddressRead ==
  ASSUME NEW b \in [1 .. 4 -> Nat], NEW t, t = H!Dotted(b)
  PROVE  H!inet_addr(t) = b
<1>1. t.parts = b
  BY DEF H!Dotted
<1>2. Len(b) = 4
  OBVIOUS
<1>3. QED
  BY <1>1, <1>2 DEF H!inet_addr

(* A group whose texts were saved is loaded from these, and from what the file *)
(* held for the keys that got none.                                            *)
LEMMA SavedLoads ==
  ASSUME NEW g \in H!Group, NEW t, NEW keys, keys = H!KeysOf[g], Distinct(keys),
         DOMAIN t \subseteq DOMAIN keys, hfile = [h \in H!Group |-> hfile[h]],
         \A i \in DOMAIN keys : i \in DOMAIN t \/ keys[i] \in DOMAIN hfile[g]
  PROVE  \E u : /\ H!Load(H!Save(g, t), g) = << H!Loaded(g, u) >>
                /\ \A i \in DOMAIN t : u[i] = t[i]
<1>1. PICK f, new, grp : /\ f = H!Save(g, t) /\ new = {keys[i] : i \in DOMAIN t}
                         /\ grp = hfile[g]
  OBVIOUS
<1>2. f = [hfile EXCEPT ![g] = [k \in DOMAIN grp \union new |->
             IF k \in new THEN t[CHOOSE i \in DOMAIN t : keys[i] = k] ELSE grp[k]]]
  BY <1>1 DEF H!Save
<1>3. f[g] = [k \in DOMAIN grp \union new |->
             IF k \in new THEN t[CHOOSE i \in DOMAIN t : keys[i] = k] ELSE grp[k]]
  BY <1>2
<1>4. \A i \in DOMAIN keys : keys[i] \in DOMAIN f[g]
  BY <1>1, <1>3
<1>5. PICK u : u = [i \in DOMAIN keys |-> f[g][keys[i]]]
  OBVIOUS
<1>6. H!Load(f, g) = << H!Loaded(g, u) >>
  BY <1>4, <1>5 DEF H!Load
<1>7. ASSUME NEW i \in DOMAIN t PROVE u[i] = t[i]
  <2>1. keys[i] \in new /\ i \in DOMAIN keys
    BY <1>1
  <2>2. (CHOOSE j \in DOMAIN t : keys[j] = keys[i]) = i
    BY <2>1 DEF Distinct
  <2>3. f[g][keys[i]] = t[CHOOSE j \in DOMAIN t : keys[j] = keys[i]]
    BY <1>3, <2>1
  <2>4. QED
    BY <1>5, <2>1, <2>2, <2>3
<1>8. QED
  BY <1>1, <1>6, <1>7

LEMMA SavedElsewhere ==
  ASSUME NEW g \in H!Group, NEW t, hfile = [h \in H!Group |-> hfile[h]]
  PROVE  /\ H!Save(g, t) = [h \in H!Group |-> H!Save(g, t)[h]]
         /\ \A h \in H!Group : h # g => H!Load(H!Save(g, t), h) = H!Load(hfile, h)
         /\ DOMAIN hfile[g] \subseteq DOMAIN H!Save(g, t)[g]
<1>1. PICK f, new, grp : /\ f = H!Save(g, t) /\ new = {H!KeysOf[g][i] : i \in DOMAIN t}
                         /\ grp = hfile[g]
  OBVIOUS
<1>2. f = [hfile EXCEPT ![g] = [k \in DOMAIN grp \union new |->
             IF k \in new THEN t[CHOOSE i \in DOMAIN t : H!KeysOf[g][i] = k] ELSE grp[k]]]
  BY <1>1 DEF H!Save
<1>3. \A h \in H!Group : h # g => f[h] = hfile[h]
  BY <1>2
<1>4. DOMAIN f[g] = DOMAIN grp \union new
  BY <1>2
<1>5. f = [h \in H!Group |-> f[h]]
  BY <1>2
<1>6. \A h \in H!Group : h # g => H!Load(f, h) = H!Load(hfile, h)
  BY <1>3 DEF H!Load
<1>7. QED
  BY <1>1, <1>4, <1>5, <1>6

(* What u holds for the keys of group g is loaded as what p set.               *)
RoundTrip(g, p) ==
  /\ DOMAIN H!Texts(g, p) \subseteq DOMAIN H!KeysOf[g]
  /\ \A u : (\A i \in DOMAIN H!Texts(g, p) : u[i] = H!Texts(g, p)[i])
              => H!Same(g, H!Loaded(g, u), p)

LEMMA F1_RoundTrip ==
  ASSUME H!HandlerAssumption, NEW p \in Message["F1"]
  PROVE  RoundTrip("F1", p) /\ DOMAIN H!Texts("F1", p) = 1 .. 8
<1>1. PICK t : t = H!Texts("F1", p)
  OBVIOUS
<1>2. t = H!AFN04H_01H(p)
  BY <1>1 DEF H!Texts
<1>3. p \in [RTS : Nat, delay_time : Nat, over_time : Nat, over_times : Nat, confirm : Nat,
             heart_beats : Nat]
  BY DEF H!HandlerAssumption
<1>4. /\ DOMAIN t = 1 .. 8
      /\ t[1] = H!Decimal(p.RTS) /\ t[2] = H!Decimal(p.delay_time)
      /\ t[3] = H!Decimal(p.over_time) /\ t[4] = H!Decimal(p.over_times)
      /\ t[5] = H!Decimal(H!Bit(p.confirm, 1)) /\ t[6] = H!Decimal(H!Bit(p.confirm, 2))
      /\ t[7] = H!Decimal(H!Bit(p.confirm, 4)) /\ t[8] = H!Decimal(p.heart_beats)
  BY <1>2 DEF H!AFN04H_01H
<1>5. ASSUME NEW u, \A i \in DOMAIN t : u[i] = t[i]
      PROVE  H!Same("F1", H!Loaded("F1", u), p)
  <2>1. /\ H!atoi(u[1]) = p.RTS /\ H!atoi(u[2]) = p.delay_time /\ H!atoi(u[3]) = p.over_time
        /\ H!atoi(u[4]) = p.over_times /\ H!atoi(u[8]) = p.heart_beats
    BY <1>4, <1>5, NumberRead
  <2>2. /\ H!atoi(u[5]) = H!Bit(p.confirm, 1) /\ H!atoi(u[6]) = H!Bit(p.confirm, 2)
        /\ H!atoi(u[7]) = H!Bit(p.confirm, 4)
    BY <1>4, <1>5, NumberRead
  <2>3. PICK n \in Nat : n = p.confirm
    BY <1>3
  <2>4. H!Bit(H!Bit(n, 1), 1) + 2 * H!Bit(H!Bit(n, 2), 1) + 4 * H!Bit(H!Bit(n, 4), 1) = n % 8
    <3>1. /\ n = 2 * (n \div 2) + (n % 2) /\ n \div 1 = n
          /\ n \div 4 = (n \div 2) \div 2
          /\ n % 2 \in 0 .. 1 /\ (n \div 2) % 2 \in 0 .. 1 /\ (n \div 4) % 2 \in 0 .. 1
      OBVIOUS
    <3>2. (n % 2) + 2 * ((n \div 2) % 2) + 4 * ((n \div 4) % 2) = n % 8
      OBVIOUS
    <3>3. \A b \in 0 .. 1 : H!Bit(b, 1) = b
      BY DEF H!Bit
    <3>4. H!Bit(n, 1) = n % 2 /\ H!Bit(n, 2) = (n \div 2) % 2 /\ H!Bit(n, 4) = (n \div 4) % 2
      BY <3>1 DEF H!Bit
    <3>5. QED
      BY <3>1, <3>2, <3>3, <3>4
  <2>5. H!Loaded("F1", u) = [RTS |-> p.RTS, delay_time |-> p.delay_time,
          over_time |-> p.over_time, over_times |-> p.over_times,
          heart_beats |-> p.heart_beats, confirm |-> n % 8]
    BY <2>1, <2>2, <2>3, <2>4 DEF H!Loaded, H!UpCommParaLoad
  <2>6. [p EXCEPT !.confirm = @ % 8] = [RTS |-> p.RTS, delay_time |-> p.delay_time,
          over_time |-> p.over_time, over_times |-> p.over_times,
          heart_beats |-> p.heart_beats, confirm |-> n % 8]
    BY <1>3, <2>3
  <2>7. QED
    BY <2>5, <2>6 DEF H!Same
<1>6. QED
  BY <1>1, <1>4, <1>5, Keys_F1 DEF RoundTrip

LEMMA F3_RoundTrip ==
  ASSUME H!HandlerAssumption, NEW p \in Message["F3"]
  PROVE  RoundTrip("F3", p) /\ DOMAIN H!Texts("F3", p) = 1 .. 5
<1>1. PICK t : t = H!Texts("F3", p)
  OBVIOUS
<1>2. t = H!AFN04H_03H(p)
  BY <1>1 DEF H!Texts
<1>3. p \in [IP_main : [1 .. 4 -> Nat], Port_main : Nat, IP_bak : [1 .. 4 -> Nat],
             Port_bak : Nat, APN : Seq(Char)]
  BY DEF H!HandlerAssumption
<1>4. /\ DOMAIN t = 1 .. 5
      /\ t[1] = H!Dotted(p.IP_main) /\ t[2] = H!Decimal(p.Port_main)
      /\ t[3] = H!Dotted(p.IP_bak) /\ t[4] = H!Decimal(p.Port_bak)
      /\ t[5] = H!String(p.APN)
  BY <1>2 DEF H!AFN04H_03H
<1>5. ASSUME NEW u, \A i \in DOMAIN t : u[i] = t[i]
      PROVE  H!Same("F3", H!Loaded("F3", u), p)
  <2>1. H!atoi(u[2]) = p.Port_main /\ H!atoi(u[4]) = p.Port_bak
    BY <1>4, <1>5, NumberRead
  <2>2. H!inet_addr(u[1]) = p.IP_main /\ H!inet_addr(u[3]) = p.IP_bak
    BY <1>3, <1>4, <1>5, AddressRead
  <2>3. u[5].chars = p.APN
    BY <1>4, <1>5 DEF H!String
  <2>4. H!Loaded("F3", u) = p
    BY <1>3, <2>1, <2>2, <2>3 DEF H!Loaded, H!MainStationInfoLoad
  <2>5. QED
    BY <2>4 DEF H!Same
<1>6. QED
  BY <1>1, <1>4, <1>5, Keys_F3 DEF RoundTrip

LEMMA F5_RoundTrip ==
  ASSUME H!HandlerAssumption, NEW p \in Message["F5"]
  PROVE  RoundTrip("F5", p) /\ DOMAIN H!Texts("F5", p) = 1 .. 2
<1>1. PICK t : t = H!Texts("F5", p)
  OBVIOUS
<1>2. t = H!AFN04H_05H(p)
  BY <1>1 DEF H!Texts
<1>3. p \in [No : Nat, Parameter : Nat]
  BY DEF H!HandlerAssumption
<1>4. DOMAIN t = 1 .. 2 /\ t[1] = H!Decimal(p.No) /\ t[2] = H!Decimal(p.Parameter)
  BY <1>2 DEF H!AFN04H_05H
<1>5. ASSUME NEW u, \A i \in DOMAIN t : u[i] = t[i]
      PROVE  H!Same("F5", H!Loaded("F5", u), p)
  <2>1. H!atoi(u[1]) = p.No /\ H!atoi(u[2]) = p.Parameter
    BY <1>4, <1>5, NumberRead
  <2>2. H!Loaded("F5", u) = p
    BY <1>3, <2>1 DEF H!Loaded, H!ConsCheInfoLoad
  <2>3. QED
    BY <2>2 DEF H!Same
<1>6. QED
  BY <1>1, <1>4, <1>5, Keys_F5 DEF RoundTrip

LEMMA F8_RoundTrip ==
  ASSUME H!HandlerAssumption, NEW p \in Message["F8"]
  PROVE  RoundTrip("F8", p) /\ DOMAIN H!Texts("F8", p) = 1 .. 9
<1>1. PICK t : t = H!Texts("F8", p)
  OBVIOUS
<1>2. t = H!AFN04H_08H(p)
  BY <1>1 DEF H!Texts
<1>3. p \in [ConnStartMode : Nat, mode : Nat, TcpUdp : Nat, ReconnInterval : Nat,
             MaxRetryCnt : Nat, MaxIdleTime : Nat, TimeSpan : [1 .. 3 -> Nat]]
  BY DEF H!HandlerAssumption
<1>4. /\ DOMAIN t = 1 .. 9
      /\ t[1] = H!Decimal(p.ConnStartMode) /\ t[2] = H!Decimal(p.mode)
      /\ t[3] = H!Decimal(p.TcpUdp) /\ t[4] = H!Decimal(p.ReconnInterval)
      /\ t[5] = H!Decimal(p.MaxRetryCnt) /\ t[6] = H!Decimal(p.MaxIdleTime)
      /\ t[7] = H!Decimal(p.TimeSpan[1]) /\ t[8] = H!Decimal(p.TimeSpan[2])
      /\ t[9] = H!Decimal(p.TimeSpan[3])
  BY <1>2 DEF H!AFN04H_08H
<1>5. ASSUME NEW u, \A i \in DOMAIN t : u[i] = t[i]
      PROVE  H!Same("F8", H!Loaded("F8", u), p)
  <2>1. /\ H!atoi(u[1]) = p.ConnStartMode /\ H!atoi(u[2]) = p.mode /\ H!atoi(u[3]) = p.TcpUdp
        /\ H!atoi(u[4]) = p.ReconnInterval /\ H!atoi(u[5]) = p.MaxRetryCnt
        /\ H!atoi(u[6]) = p.MaxIdleTime
    BY <1>4, <1>5, NumberRead
  <2>2. /\ H!atoi(u[7]) = p.TimeSpan[1] /\ H!atoi(u[8]) = p.TimeSpan[2]
        /\ H!atoi(u[9]) = p.TimeSpan[3]
    BY <1>4, <1>5, NumberRead
  <2>3. << p.TimeSpan[1], p.TimeSpan[2], p.TimeSpan[3] >> = p.TimeSpan
    BY <1>3
  <2>4. H!Loaded("F8", u) = p
    BY <1>3, <2>1, <2>2, <2>3 DEF H!Loaded, H!UpCommWorkWaysLoad
  <2>5. QED
    BY <2>4 DEF H!Same
<1>6. QED
  BY <1>1, <1>4, <1>5, Keys_F8 DEF RoundTrip

LEMMA F9_RoundTrip ==
  ASSUME H!HandlerAssumption, NEW p \in Message["F9"]
  PROVE  RoundTrip("F9", p) /\ DOMAIN H!Texts("F9", p) = 1 .. 4
<1>1. PICK t : t = H!Texts("F9", p)
  OBVIOUS
<1>2. t = H!AFN04H_09H(p)
  BY <1>1 DEF H!Texts
<1>3. p \in [valid : [1 .. 2 -> Nat], rating : [1 .. 2 -> Nat]]
  BY DEF H!HandlerAssumption
<1>4. /\ DOMAIN t = 1 .. 4
      /\ t[1] = H!Decimal(p.valid[1]) /\ t[2] = H!Decimal(p.rating[1])
      /\ t[3] = H!Decimal(p.valid[2]) /\ t[4] = H!Decimal(p.rating[2])
  BY <1>2 DEF H!AFN04H_09H
<1>5. ASSUME NEW u, \A i \in DOMAIN t : u[i] = t[i]
      PROVE  H!Same("F9", H!Loaded("F9", u), p)
  <2>1. /\ H!atoi(u[1]) = p.valid[1] /\ H!atoi(u[2]) = p.rating[1]
        /\ H!atoi(u[3]) = p.valid[2] /\ H!atoi(u[4]) = p.rating[2]
    BY <1>4, <1>5, NumberRead
  <2>2. /\ [i \in 1 .. 2 |-> H!atoi(u[2 * i - 1])] = p.valid
        /\ [i \in 1 .. 2 |-> H!atoi(u[2 * i])] = p.rating
    BY <1>3, <2>1
  <2>3. H!Loaded("F9", u) = p
    BY <1>3, <2>2 DEF H!Loaded, H!EventParaLoad
  <2>4. QED
    BY <2>3 DEF H!Same
<1>6. QED
  BY <1>1, <1>4, <1>5, Keys_F9 DEF RoundTrip

LEMMA F16_RoundTrip ==
  ASSUME H!HandlerAssumption, NEW p \in Message["F16"]
  PROVE  RoundTrip("F16", p) /\ DOMAIN H!Texts("F16", p) = 1 .. 2
<1>1. PICK t : t = H!Texts("F16", p)
  OBVIOUS
<1>2. t = H!AFN04H_16H(p)
  BY <1>1 DEF H!Texts
<1>3. p \in [VirUser : Seq(Char), VirPasswd : Seq(Char)]
  BY DEF H!HandlerAssumption
<1>4. DOMAIN t = 1 .. 2 /\ t[1] = H!String(p.VirUser) /\ t[2] = H!String(p.VirPasswd)
  BY <1>2 DEF H!AFN04H_16H
<1>5. ASSUME NEW u, \A i \in DOMAIN t : u[i] = t[i]
      PROVE  H!Same("F16", H!Loaded("F16", u), p)
  <2>1. u[1].chars = p.VirUser /\ u[2].chars = p.VirPasswd
    BY <1>4, <1>5 DEF H!String
  <2>2. H!Loaded("F16", u) = p
    BY <1>3, <2>1 DEF H!Loaded, H!VirtualNetLoad
  <2>3. QED
    BY <2>2 DEF H!Same
<1>6. QED
  BY <1>1, <1>4, <1>5, Keys_F16 DEF RoundTrip

LEMMA F36_RoundTrip ==
  ASSUME H!HandlerAssumption, NEW p \in Message["F36"]
  PROVE  RoundTrip("F36", p) /\ DOMAIN H!Texts("F36", p) = 1 .. 1
<1>1. PICK t : t = H!Texts("F36", p)
  OBVIOUS
<1>2. t = H!AFN04H_36H(p)
  BY <1>1 DEF H!Texts
<1>3. DOMAIN t = 1 .. 1 /\ t[1] = H!Decimal(p)
  BY <1>2 DEF H!AFN04H_36H
<1>4. ASSUME NEW u, \A i \in DOMAIN t : u[i] = t[i]
      PROVE  H!Same("F36", H!Loaded("F36", u), p)
  <2>1. H!atoi(u[1]) = p
    BY <1>3, <1>4, NumberRead
  <2>2. QED
    BY <2>1 DEF H!Loaded, H!TermUpFluxLimitLoad, H!Same
<1>5. QED
  BY <1>1, <1>3, <1>4, Keys_F36 DEF RoundTrip

LEMMA F89_RoundTrip ==
  ASSUME H!HandlerAssumption, NEW p \in Message["F89"]
  PROVE  RoundTrip("F89", p) /\ DOMAIN H!Texts("F89", p) = 1 .. 2
<1>1. PICK t : t = H!Texts("F89", p)
  OBVIOUS
<1>2. t = H!AFN04H_89H(p)
  BY <1>1 DEF H!Texts
<1>3. p \in [districtCode : Nat, termAddr : Nat]
  BY DEF H!HandlerAssumption
<1>4. DOMAIN t = 1 .. 2 /\ t[1] = H!Decimal(p.districtCode) /\ t[2] = H!Decimal(p.termAddr)
  BY <1>2 DEF H!AFN04H_89H
<1>5. ASSUME NEW u, \A i \in DOMAIN t : u[i] = t[i]
      PROVE  H!Same("F89", H!Loaded("F89", u), p)
  <2>1. H!atoi(u[1]) = p.districtCode /\ H!atoi(u[2]) = p.termAddr
    BY <1>4, <1>5, NumberRead
  <2>2. H!Loaded("F89", u) = p
    BY <1>3, <2>1 DEF H!Loaded, H!CircuitLogicAddrLoad
  <2>3. QED
    BY <2>2 DEF H!Same
<1>6. QED
  BY <1>1, <1>4, <1>5, Keys_F89 DEF RoundTrip

(* b is a, of length n, and v behind it.                                       *)
Longer(S, b, a, v, n) ==
  b \in Seq(S) /\ Len(b) = n + 1 /\ b[n + 1] = v /\ \A i \in 1 .. n : b[i] = a[i]

LEMMA OneMore ==
  ASSUME NEW S, NEW a \in Seq(S), NEW v \in S, NEW n \in Nat, Len(a) = n, NEW b, b = a \o <<v>>
  PROVE  Longer(S, b, a, v, n)
<1>1. b = Append(a, v)
  BY AppendIsConcat
<1>2. QED
  BY <1>1, AppendProperties DEF Longer

(* All three phases are valid, or the texts move up.                           *)
LEMMA F153_RoundTrip ==
  ASSUME H!HandlerAssumption, NEW p \in Message["F153"], H!Carried("F153", p)
  PROVE  RoundTrip("F153", p) /\ DOMAIN H!Texts("F153", p) = 1 .. 4
<1>1. PICK t : t = H!Texts("F153", p)
  OBVIOUS
<1>2. t = H!AFN04H_153H(p)
  BY <1>1 DEF H!Texts
<1>3. p \in [phase : [1 .. 3 -> Nat], mac : [1 .. 4 -> Nat]]
  BY DEF H!HandlerAssumption
<1>4. p.phase[1] < 2 /\ p.phase[2] < 2 /\ p.phase[3] < 2
  BY DEF H!Carried
<1>5. PICK x1, x2, x3, x4 :
        /\ x1 = H!Decimal(p.phase[1]) /\ x2 = H!Decimal(p.phase[2]) /\ x3 = H!Decimal(p.phase[3])
        /\ x4 = H!Dotted(<< p.mac[4], p.mac[3], p.mac[2], p.mac[1] >>)
  OBVIOUS
<1>6. t = ((<<x1>> \o <<x2>>) \o <<x3>>) \o <<x4>>
  BY <1>2, <1>4, <1>5 DEF H!AFN04H_153H, H!Optional
<1>7. PICK S : S = {x1, x2, x3, x4}
  OBVIOUS
<1>8. PICK a, b, c : a = <<x1>> /\ b = a \o <<x2>> /\ c = b \o <<x3>>
  OBVIOUS
<1>9. a \in Seq(S) /\ Len(a) = 1 /\ a[1] = x1
  BY <1>7, <1>8
<1>10. b \in Seq(S) /\ Len(b) = 2 /\ b[2] = x2 /\ b[1] = x1
  <2>1. Longer(S, b, a, x2, 1)
    BY <1>7, <1>8, <1>9, OneMore
  <2>2. QED
    BY <1>9, <2>1 DEF Longer
<1>11. c \in Seq(S) /\ Len(c) = 3 /\ c[3] = x3 /\ c[2] = x2 /\ c[1] = x1
  <2>1. Longer(S, c, b, x3, 2)
    BY <1>7, <1>8, <1>10, OneMore
  <2>2. QED
    BY <1>10, <2>1 DEF Longer
<1>12. t \in Seq(S) /\ Len(t) = 4 /\ t[3] = x3 /\ t[2] = x2 /\ t[1] = x1
  <2>1. t = c \o <<x4>>
    BY <1>6, <1>8
  <2>2. Longer(S, t, c, x4, 3)
    BY <1>7, <1>11, <2>1, OneMore
  <2>3. QED
    BY <1>11, <2>2 DEF Longer
<1>13. DOMAIN t = 1 .. 4
  BY <1>12
<1>14. ASSUME NEW u, \A i \in DOMAIN t : u[i] = t[i]
       PROVE  H!Same("F153", H!Loaded("F153", u), p)
  <2>1. u[1] = x1 /\ u[2] = x2 /\ u[3] = x3
    BY <1>12, <1>13, <1>14
  <2>2. /\ H!atoi(u[1]) = p.phase[1] /\ H!atoi(u[2]) = p.phase[2] /\ H!atoi(u[3]) = p.phase[3]
    BY <1>5, <2>1, NumberRead
  <2>3. << p.phase[1], p.phase[2], p.phase[3] >> = p.phase
    BY <1>3
  <2>4. H!Loaded("F153", u).phase = p.phase
    BY <2>2, <2>3 DEF H!Loaded, H!CurLoopParaLoad
  <2>5. QED
    BY <2>4 DEF H!Same
<1>15. QED
  BY <1>1, <1>13, <1>14, Keys_F153 DEF RoundTrip

(* A name that is shorter than its field comes back whole.                     *)
LEMMA NameRead ==
  ASSUME H!HandlerAssumption, NEW s \in Seq(Char), Len(s) < UserSize,
         NEW t, t = H!Printed(s)
  PROVE  H!Copied(t, Len(s)) = s
<1>1. PICK n \in Nat : n = Len(s)
  OBVIOUS
<1>2. t.chars = SubSeq(s, 1, n)
  BY <1>1 DEF H!Printed, H!String
<1>3. PICK r : r = SubSeq(s, 1, n)
  OBVIOUS
<1>4. Len(r) = n /\ \A i \in 1 .. n : r[i] = s[i]
  <2>1. \A i \in 1 .. n : s[i] \in Char
    BY <1>1
  <2>2. /\ Len(r) = IF 1 <= n THEN n - 1 + 1 ELSE 0
        /\ \A i \in 1 .. n - 1 + 1 : r[i] = s[1 + i - 1]
    BY <1>3, <2>1, SubSeqProperties
  <2>3. n - 1 + 1 = n /\ \A i \in 1 .. n : 1 + i - 1 = i
    OBVIOUS
  <2>4. QED
    BY <2>2, <2>3
<1>5. H!Copied(t, n) = [i \in 1 .. n |-> r[i]]
  BY <1>2, <1>3, <1>4 DEF H!Copied
<1>6. PICK w : w = [i \in 1 .. n |-> r[i]]
  OBVIOUS
<1>7. w \in Seq(Char) /\ Len(w) = n /\ \A i \in 1 .. n : w[i] = s[i]
  BY <1>1, <1>4, <1>6
<1>8. w = s
  BY <1>1, <1>7, SeqEqual
<1>9. QED
  BY <1>1, <1>5, <1>6, <1>8

LEMMA NoNameRead ==
  ASSUME NEW t
  PROVE  H!Copied(t, 0) = <<>>
<1>1. PICK w : w = H!Copied(t, 0)
  OBVIOUS
<1>2. w \in [1 .. 0 -> {}]
  BY <1>1 DEF H!Copied
<1>3. w \in Seq({}) /\ Len(w) = 0
  BY <1>2
<1>4. w = <<>>
  BY <1>3, EmptySeq
<1>5. QED
  BY <1>1, <1>4

(* The texts of F7 of a message with a name: the password's is the last of     *)
(* them, or missing.                                                           *)
LEMMA F7_Texts ==
  ASSUME H!HandlerAssumption, NEW p \in Message["F7"], H!Carried("F7", p),
         NEW t, t = H!AFN04H_07H(p)
  PROVE  /\ DOMAIN t = 1 .. 10 \/ DOMAIN t = 1 .. 11
         /\ t[1] = H!Dotted(p.termip) /\ t[2] = H!Dotted(p.netmask) /\ t[3] = H!Dotted(p.gateway)
         /\ t[4] = H!Decimal(p.proxytype) /\ t[5] = H!Dotted(p.proxyserverip)
         /\ t[6] = H!Decimal(p.proxyserverport) /\ t[7] = H!Decimal(p.connectway)
         /\ t[8] = H!Decimal(Len(p.user)) /\ t[9] = H!Printed(p.user)
         /\ t[10] = H!Decimal(Len(p.pw))
         /\ p.pw # <<>> => 11 \in DOMAIN t /\ t[11] = H!Printed(p.pw)
<1>1. PICK x1, x2, x3, x4, x5, x6, x7, x8 :
        /\ x1 = H!Dotted(p.termip) /\ x2 = H!Dotted(p.netmask) /\ x3 = H!Dotted(p.gateway)
        /\ x4 = H!Decimal(p.proxytype) /\ x5 = H!Dotted(p.proxyserverip)
        /\ x6 = H!Decimal(p.proxyserverport) /\ x7 = H!Decimal(p.connectway)
        /\ x8 = H!Decimal(Len(p.user))
  OBVIOUS
<1>2. PICK name, size, pass : /\ name = H!Printed(p.user) /\ size = H!Decimal(Len(p.pw))
                          /\ pass = H!Printed(p.pw)
  OBVIOUS
<1>3. PICK S : S = {x1, x2, x3, x4, x5, x6, x7, x8, name, size, pass}
  OBVIOUS
<1>4. PICK a, b, c, last1 : /\ a = << x1, x2, x3, x4, x5, x6, x7, x8 >> /\ b = a \o <<name>>
                            /\ c = b \o <<size>>
                            /\ last1 = H!Optional(p.pw # <<>>, pass)
  OBVIOUS
<1>5. t = c \o last1
  <2>1. p.user # <<>>
    BY DEF H!Carried
  <2>2. H!Optional(p.user # <<>>, name) = <<name>>
    BY <2>1 DEF H!Optional
  <2>3. t = ((a \o H!Optional(p.user # <<>>, name)) \o <<size>>) \o last1
    BY <1>1, <1>2, <1>4 DEF H!AFN04H_07H
  <2>4. QED
    BY <1>4, <2>2, <2>3
<1>6. /\ a \in Seq(S) /\ Len(a) = 8
      /\ a[1] = x1 /\ a[2] = x2 /\ a[3] = x3 /\ a[4] = x4
      /\ a[5] = x5 /\ a[6] = x6 /\ a[7] = x7 /\ a[8] = x8
  BY <1>3, <1>4
<1>7. /\ b \in Seq(S) /\ Len(b) = 9 /\ b[9] = name /\ \A i \in 1 .. 8 : b[i] = a[i]
  <2>1. Longer(S, b, a, name, 8)
    BY <1>3, <1>4, <1>6, OneMore
  <2>2. QED
    BY <2>1 DEF Longer
<1>8. /\ c \in Seq(S) /\ Len(c) = 10 /\ c[10] = size /\ \A i \in 1 .. 9 : c[i] = b[i]
  <2>1. Longer(S, c, b, size, 9)
    BY <1>3, <1>4, <1>7, OneMore
  <2>2. QED
    BY <2>1 DEF Longer
<1>9. /\ DOMAIN t = 1 .. 10 \/ DOMAIN t = 1 .. 11
      /\ \A i \in 1 .. 10 : t[i] = c[i]
      /\ p.pw # <<>> => DOMAIN t = 1 .. 11 /\ t[11] = pass
  <2>1. CASE p.pw = <<>>
    <3>1. last1 = <<>>
      BY <1>4, <2>1 DEF H!Optional
    <3>2. t = c
      BY <1>5, <1>8, <3>1, ConcatEmptySeq
    <3>3. QED
      BY <1>8, <2>1, <3>2
  <2>2. CASE p.pw # <<>>
    <3>1. last1 = <<pass>>
      BY <1>4, <2>2 DEF H!Optional
    <3>2. t = c \o <<pass>>
      BY <1>5, <3>1
    <3>3. Longer(S, t, c, pass, 10)
      BY <1>3, <1>8, <3>2, OneMore
    <3>4. QED
      BY <3>3 DEF Longer
  <2>3. QED
    BY <2>1, <2>2
<1>10. /\ t[1] = x1 /\ t[2] = x2 /\ t[3] = x3 /\ t[4] = x4
       /\ t[5] = x5 /\ t[6] = x6 /\ t[7] = x7 /\ t[8] = x8
  BY <1>6, <1>7, <1>8, <1>9
<1>11. t[9] = name /\ t[10] = size
  BY <1>7, <1>8, <1>9
<1>12. p.pw # <<>> => 11 \in DOMAIN t /\ t[11] = pass
  BY <1>9
<1>13. QED
  BY <1>1, <1>2, <1>9, <1>10, <1>11, <1>12

LEMMA F7_RoundTrip ==
  ASSUME H!HandlerAssumption, NEW p \in Message["F7"], H!Carried("F7", p)
  PROVE  RoundTrip("F7", p)
<1>1. PICK t : t = H!Texts("F7", p)
  OBVIOUS
<1>2. t = H!AFN04H_07H(p)
  BY <1>1 DEF H!Texts
<1>3. p \in [termip : [1 .. 4 -> Nat], netmask : [1 .. 4 -> Nat], gateway : [1 .. 4 -> Nat],
             proxytype : Nat, proxyserverip : [1 .. 4 -> Nat], proxyserverport : Nat,
             connectway : Nat, user : Seq(Char), pw : Seq(Char), listen_port : Nat]
  BY DEF H!HandlerAssumption
<1>4. Len(p.user) < UserSize /\ Len(p.pw) < UserSize
  BY DEF H!Carried
<1>5. /\ DOMAIN t = 1 .. 10 \/ DOMAIN t = 1 .. 11
      /\ t[1] = H!Dotted(p.termip) /\ t[2] = H!Dotted(p.netmask) /\ t[3] = H!Dotted(p.gateway)
      /\ t[4] = H!Decimal(p.proxytype) /\ t[5] = H!Dotted(p.proxyserverip)
      /\ t[6] = H!Decimal(p.proxyserverport) /\ t[7] = H!Decimal(p.connectway)
      /\ t[8] = H!Decimal(Len(p.user)) /\ t[9] = H!Printed(p.user)
      /\ t[10] = H!Decimal(Len(p.pw))
      /\ p.pw # <<>> => 11 \in DOMAIN t /\ t[11] = H!Printed(p.pw)
  BY <1>2, F7_Texts
<1>6. ASSUME NEW u, \A i \in DOMAIN t : u[i] = t[i]
      PROVE  H!Same("F7", H!Loaded("F7", u), p)
  <2>1. \A i \in 1 .. 10 : u[i] = t[i]
    BY <1>5, <1>6
  <2>2. /\ H!inet_addr(u[1]) = p.termip /\ H!inet_addr(u[2]) = p.netmask
        /\ H!inet_addr(u[3]) = p.gateway /\ H!inet_addr(u[5]) = p.proxyserverip
    <3>1. /\ p.termip \in [1 .. 4 -> Nat] /\ p.netmask \in [1 .. 4 -> Nat]
          /\ p.gateway \in [1 .. 4 -> Nat] /\ p.proxyserverip \in [1 .. 4 -> Nat]
      BY <1>3
    <3>2. /\ u[1] = H!Dotted(p.termip) /\ u[2] = H!Dotted(p.netmask)
          /\ u[3] = H!Dotted(p.gateway) /\ u[5] = H!Dotted(p.proxyserverip)
      BY <1>5, <2>1
    <3>3. H!inet_addr(u[1]) = p.termip /\ H!inet_addr(u[2]) = p.netmask
      BY <3>1, <3>2, AddressRead
    <3>4. H!inet_addr(u[3]) = p.gateway /\ H!inet_addr(u[5]) = p.proxyserverip
      BY <3>1, <3>2, AddressRead
    <3>5. QED
      BY <3>3, <3>4
  <2>3. /\ H!atoi(u[4]) = p.proxytype /\ H!atoi(u[6]) = p.proxyserverport
        /\ H!atoi(u[7]) = p.connectway /\ H!atoi(u[8]) = Len(p.user)
        /\ H!atoi(u[10]) = Len(p.pw)
    BY <1>5, <2>1, NumberRead
  <2>4. H!Copied(u[9], H!atoi(u[8])) = p.user
    <3>1. p.user \in Seq(Char)
      BY <1>3
    <3>2. u[9] = H!Printed(p.user)
      BY <1>5, <2>1
    <3>3. QED
      BY <1>4, <2>3, <3>1, <3>2, NameRead
  <2>5. H!Copied(u[11], H!atoi(u[10])) = p.pw
    <3>1. CASE p.pw = <<>>
      <4>1. H!atoi(u[10]) = 0
        BY <2>3, <3>1
      <4>2. QED
        BY <3>1, <4>1, NoNameRead
    <3>2. CASE p.pw # <<>>
      <4>1. u[11] = H!Printed(p.pw)
        BY <1>5, <1>6, <3>2
      <4>2. p.pw \in Seq(Char)
        BY <1>3
      <4>3. QED
        BY <1>4, <2>3, <4>1, <4>2, NameRead
    <3>3. QED
      BY <3>1, <3>2
  <2>6. PICK m, port : m = H!Loaded("F7", u) /\ port = H!atoi(u[12])
    OBVIOUS
  <2>7. m = [termip |-> p.termip, netmask |-> p.netmask, gateway |-> p.gateway,
             proxytype |-> p.proxytype, proxyserverip |-> p.proxyserverip,
             proxyserverport |-> p.proxyserverport, connectway |-> p.connectway,
             user |-> p.user, pw |-> p.pw, listen_port |-> port]
    BY <2>2, <2>3, <2>4, <2>5, <2>6 DEF H!Loaded, H!CirIpAndPortLoad
  <2> DEFINE Names == {"termip", "netmask", "gateway", "proxytype", "proxyserverip",
                          "proxyserverport", "connectway", "user", "pw", "listen_port"}
  <2>12. DOMAIN m = Names
    BY <2>7
  <2>13. DOMAIN p = Names
    BY <1>3
  <2>14. /\ m.termip = p.termip /\ m.netmask = p.netmask /\ m.gateway = p.gateway
         /\ m.proxytype = p.proxytype /\ m.proxyserverip = p.proxyserverip
    BY <2>7
  <2>15. /\ m.proxyserverport = p.proxyserverport /\ m.connectway = p.connectway
         /\ m.user = p.user /\ m.pw = p.pw
    BY <2>7
  <2>9. DOMAIN m = DOMAIN p /\ \A f \in DOMAIN p \ {"listen_port"} : m[f] = p[f]
    BY <2>12, <2>13, <2>14, <2>15
  <2>10. H!Without(m, {"listen_port"}) = H!Without(p, {"listen_port"})
    BY <2>9 DEF H!Without
  <2>11. QED
    BY <2>6, <2>10 DEF H!Same
<1>7. QED
  BY <1>1, <1>5, <1>6, Keys_F7 DEF RoundTrip

(* What a carried message becomes in the file is loaded as it was set.         *)
LEMMA CarriedRoundTrip ==
  ASSUME H!HandlerAssumption, NEW g \in H!Group, g # "F154", NEW p \in Message[g],
         H!Carried(g, p)
  PROVE  /\ RoundTrip(g, p) /\ Distinct(H!KeysOf[g])
         /\ g # "F7" => DOMAIN H!Texts(g, p) = DOMAIN H!KeysOf[g]
<1>1. g # "F91"
  BY DEF H!Carried
<1>2. CASE g = "F1"
  BY <1>2, F1_RoundTrip, Keys_F1
<1>3. CASE g = "F3"
  BY <1>3, F3_RoundTrip, Keys_F3
<1>4. CASE g = "F5"
  BY <1>4, F5_RoundTrip, Keys_F5
<1>5. CASE g = "F7"
  BY <1>5, F7_RoundTrip, Keys_F7
<1>6. CASE g = "F8"
  BY <1>6, F8_RoundTrip, Keys_F8
<1>7. CASE g = "F9"
  BY <1>7, F9_RoundTrip, Keys_F9
<1>8. CASE g = "F16"
  BY <1>8, F16_RoundTrip, Keys_F16
<1>9. CASE g = "F36"
  BY <1>9, F36_RoundTrip, Keys_F36
<1>10. CASE g = "F89"
  BY <1>10, F89_RoundTrip, Keys_F89
<1>11. CASE g = "F153"
  BY <1>11, F153_RoundTrip, Keys_F153
<1>12. QED
  BY <1>1, <1>2, <1>3, <1>4, <1>5, <1>6, <1>7, <1>8, <1>9, <1>10, <1>11, GroupNames

(* What the file holds of a group would be loaded as the station has set it.   *)
FileHolds(f, s, g) ==
  s[g] # <<>> /\ H!Carried(g, s[g][1]) =>
    \E m : H!Load(f, g) = << m >> /\ H!Same(g, m, s[g][1])

(* TermSysInfo is what is loaded from the file, but for the virtual network,   *)
(* the main station and the location.                                          *)
Loadable(f, m, g) == m[g] = H!Load(f, g) \/ (g \in {"F3", "F16"} /\ m[g] = <<>>)

HandlerInv ==
  /\ hfile = [g \in H!Group |-> hfile[g]]
  /\ memory = [g \in H!Group |-> memory[g]]
  /\ set = [g \in H!Group |-> set[g]]
  /\ set["F154"] = <<>>
  /\ \A i \in DOMAIN H!KeysOf["F7"] : H!KeysOf["F7"][i] \in DOMAIN hfile["F7"]
  /\ \A g \in H!Group : FileHolds(hfile, set, g)
  /\ \A g \in H!Group \ {"F91"} : Loadable(hfile, memory, g)

LEMMA LoadedAtBoot ==
  ASSUME NEW f
  PROVE  /\ H!CircuitParaLoad(f, H!Nothing)
              = [g \in H!Group |-> H!CircuitParaLoad(f, H!Nothing)[g]]
         /\ \A g \in H!Group \ {"F91"} : Loadable(f, H!CircuitParaLoad(f, H!Nothing), g)
<1>1. PICK m : m = H!CircuitParaLoad(f, H!Nothing)
  OBVIOUS
<1>2. m = [g \in H!Group |->
             CASE g \notin H!AtBoot -> H!Nothing[g]
               [] g = "F91" /\ H!Load(f, g) = <<>> -> H!Nothing[g]
               [] OTHER -> H!Load(f, g)]
  BY <1>1 DEF H!CircuitParaLoad
<1>3. ASSUME NEW g \in H!Group \ {"F91"}
      PROVE  Loadable(f, m, g)
  <2>1. CASE g = "F16"
    <3>1. g \notin H!AtBoot
      BY <2>1 DEF H!AtBoot
    <3>2. m[g] = H!Nothing[g]
      BY <1>2, <3>1
    <3>3. H!Nothing[g] = <<>>
      BY DEF H!Nothing
    <3>4. QED
      BY <2>1, <3>2, <3>3 DEF Loadable
  <2>2. CASE g # "F16"
    <3>1. g \in H!AtBoot
      BY <2>2 DEF H!AtBoot
    <3>2. m[g] = H!Load(f, g)
      BY <1>2, <3>1
    <3>3. QED
      BY <3>2 DEF Loadable
  <2>3. QED
    BY <2>1, <2>2
<1>4. m = [g \in H!Group |-> m[g]]
  BY <1>2
<1>5. QED
  BY <1>1, <1>3, <1>4

LEMMA InitHandlers == H!Init => HandlerInv
<1> SUFFICES ASSUME H!Init PROVE HandlerInv
  OBVIOUS
<1>1. /\ hfile = [g \in H!Group |->
           IF g \in H!InFile THEN [k \in {H!KeysOf[g][i] : i \in DOMAIN H!KeysOf[g]} |-> H!Decimal(1)]
           ELSE [k \in {} |-> H!Decimal(1)]]
      /\ memory = H!CircuitParaLoad(hfile, H!Nothing) /\ set = H!Nothing
  BY DEF H!Init
<1>2. hfile = [g \in H!Group |-> hfile[g]]
  BY <1>1
<1>3. memory = [g \in H!Group |-> memory[g]] /\ \A g \in H!Group \ {"F91"} : Loadable(hfile, memory, g)
  BY <1>1, LoadedAtBoot
<1>4. set = [g \in H!Group |-> set[g]] /\ \A g \in H!Group : set[g] = <<>>
  BY <1>1 DEF H!Nothing
<1>5. "F154" \in H!Group /\ "F7" \in H!Group /\ "F7" \in H!InFile
  BY GroupNames DEF H!InFile
<1>6. hfile["F7"] = [k \in {H!KeysOf["F7"][i] : i \in DOMAIN H!KeysOf["F7"]} |-> H!Decimal(1)]
  BY <1>1, <1>5
<1>7. \A i \in DOMAIN H!KeysOf["F7"] : H!KeysOf["F7"][i] \in DOMAIN hfile["F7"]
  BY <1>6
<1>8. \A g \in H!Group : FileHolds(hfile, set, g)
  BY <1>4 DEF FileHolds
<1>9. QED
  BY <1>2, <1>3, <1>4, <1>5, <1>7, <1>8 DEF HandlerInv

LEMMA HandlersKeep ==
  ASSUME H!HandlerAssumption, HandlerInv, NEW g \in H!Group, NEW p \in Message[g], H!AFN_04H(g, p)
  PROVE  HandlerInv'
<1>1. /\ g # "F154" /\ hfile' = H!Save(g, H!Texts(g, p)) /\ memory' = H!Reload(memory, hfile', g)
      /\ set' = [set EXCEPT ![g] = <<p>>]
  BY DEF H!AFN_04H
<1>2. PICK f : f = hfile'
  OBVIOUS
<1>3. /\ f = [h \in H!Group |-> f[h]]
      /\ \A h \in H!Group : h # g => H!Load(f, h) = H!Load(hfile, h)
      /\ DOMAIN hfile[g] \subseteq DOMAIN f[g]
  BY <1>1, <1>2, SavedElsewhere DEF HandlerInv
<1>4. \A h \in H!Group : set'[h] = IF h = g THEN <<p>> ELSE set[h]
  BY <1>1 DEF HandlerInv
<1>5. set' = [h \in H!Group |-> set'[h]] /\ set'["F154"] = <<>>
  <2>1. set' = [h \in H!Group |-> set'[h]]
    BY <1>1 DEF HandlerInv
  <2>2. "F154" \in H!Group
    BY GroupNames
  <2>3. set'["F154"] = set["F154"]
    BY <1>1, <1>4, <2>2
  <2>4. QED
    BY <2>1, <2>3 DEF HandlerInv
<1>6. \A i \in DOMAIN H!KeysOf["F7"] : H!KeysOf["F7"][i] \in DOMAIN f["F7"]
  <2>1. "F7" \in H!Group
    BY GroupNames
  <2>2. CASE g = "F7"
    BY <1>3, <2>2 DEF HandlerInv
  <2>3. CASE g # "F7"
    <3>1. f["F7"] = hfile["F7"]
      BY <1>1, <1>2, <2>1, <2>3 DEF H!Save, HandlerInv
    <3>2. QED
      BY <3>1 DEF HandlerInv
  <2>4. QED
    BY <2>2, <2>3
<1>7. ASSUME NEW h \in H!Group PROVE FileHolds(f, set', h)
  <2>1. CASE h # g
    BY <1>3, <1>4, <2>1 DEF HandlerInv, FileHolds
  <2>2. CASE h = g
    <3>1. set'[h] = <<p>>
      BY <1>4, <2>2
    <3>2. set'[h][1] = p
      BY <3>1
    <3>3. ASSUME H!Carried(g, p)
          PROVE  \E m : H!Load(f, g) = << m >> /\ H!Same(g, m, p)
      <4>1. PICK t : t = H!Texts(g, p)
        OBVIOUS
      <4>2. RoundTrip(g, p) /\ Distinct(H!KeysOf[g])
            /\ (g # "F7" => DOMAIN t = DOMAIN H!KeysOf[g])
        BY <1>1, <3>3, <4>1, CarriedRoundTrip
      <4>3. DOMAIN t \subseteq DOMAIN H!KeysOf[g]
        BY <4>1, <4>2 DEF RoundTrip
      <4>4. \A i \in DOMAIN H!KeysOf[g] : i \in DOMAIN t \/ H!KeysOf[g][i] \in DOMAIN hfile[g]
        BY <4>2 DEF HandlerInv
      <4>5. PICK u : /\ H!Load(H!Save(g, t), g) = << H!Loaded(g, u) >>
                     /\ \A i \in DOMAIN t : u[i] = t[i]
        BY <4>2, <4>3, <4>4, SavedLoads DEF HandlerInv
      <4>6. H!Same(g, H!Loaded(g, u), p)
        BY <4>1, <4>2, <4>5 DEF RoundTrip
      <4>7. H!Load(f, g) = << H!Loaded(g, u) >>
        BY <1>1, <1>2, <4>1, <4>5
      <4>8. QED
        BY <4>6, <4>7
    <3>4. QED
      BY <2>2, <3>2, <3>3 DEF FileHolds
  <2>3. QED
    BY <2>1, <2>2
<1>8. memory' = [h \in H!Group |-> memory'[h]]
      /\ \A h \in H!Group \ {"F91"} : Loadable(f, memory', h)
  <2>1. CASE g = "F91"
    <3>1. memory' = [memory EXCEPT !["F3"] = <<>>,
                       !["F91"] = IF H!Load(f, g) = <<>> THEN @ ELSE H!Load(f, g)]
      BY <1>1, <1>2, <2>1 DEF H!Reload
    <3>2. memory' = [h \in H!Group |-> memory'[h]]
      BY <3>1 DEF HandlerInv
    <3>3. \A h \in H!Group \ {"F91"} : memory'[h] = IF h = "F3" THEN <<>> ELSE memory[h]
      BY <3>1 DEF HandlerInv
    <3>4. \A h \in H!Group \ {"F91"} : Loadable(hfile, memory, h) /\ H!Load(f, h) = H!Load(hfile, h)
      BY <1>3, <2>1 DEF HandlerInv
    <3>5. QED
      BY <3>2, <3>3, <3>4 DEF Loadable
  <2>2. CASE g # "F91"
    <3>1. memory' = [memory EXCEPT ![g] = H!Load(f, g)]
      BY <1>1, <1>2, <2>2 DEF H!Reload
    <3>2. memory' = [h \in H!Group |-> memory'[h]]
      BY <3>1 DEF HandlerInv
    <3>3. \A h \in H!Group : memory'[h] = IF h = g THEN H!Load(f, g) ELSE memory[h]
      BY <3>1 DEF HandlerInv
    <3>4. \A h \in H!Group \ {"F91"} : Loadable(hfile, memory, h)
      BY DEF HandlerInv
    <3>5. \A h \in H!Group \ {"F91"} : h # g => H!Load(f, h) = H!Load(hfile, h)
      BY <1>3
    <3>6. QED
      BY <3>2, <3>3, <3>4, <3>5 DEF Loadable
  <2>3. QED
    BY <2>1, <2>2
<1>9. QED
  BY <1>2, <1>3, <1>5, <1>6, <1>7, <1>8 DEF HandlerInv

LEMMA NextHandlers ==
  ASSUME H!HandlerAssumption, HandlerInv, [H!Next]_(H!vars)
  PROVE  HandlerInv'
<1>1. ASSUME UNCHANGED <<hfile, memory, set>>
      PROVE  HandlerInv'
  BY <1>1 DEF HandlerInv
<1>2. ASSUME NEW g \in H!Group, H!Refused(g) PROVE HandlerInv'
  BY <1>1, <1>2 DEF H!Refused
<1>3. ASSUME NEW g \in H!Group, NEW p \in Message[g], H!AFN_04H(g, p) PROVE HandlerInv'
  BY <1>3, HandlersKeep
<1>4. CASE H!AFN_01H
  BY <1>1, <1>4 DEF H!AFN_01H
<1>5. CASE H!Unheeded
  BY <1>1, <1>5 DEF H!Unheeded
<1>6. CASE H!TermParaPowerUp
  <2>1. memory' = H!CircuitParaLoad(hfile, H!Nothing) /\ hfile' = hfile /\ set' = set
    BY <1>6 DEF H!TermParaPowerUp
  <2>2. /\ memory' = [g \in H!Group |-> memory'[g]]
        /\ \A g \in H!Group \ {"F91"} : Loadable(hfile, memory', g)
    BY <2>1, LoadedAtBoot
  <2>3. QED
    BY <2>1, <2>2 DEF HandlerInv
<1>7. CASE UNCHANGED H!vars
  BY <1>1, <1>7 DEF H!vars
<1>8. QED
  BY <1>2, <1>3, <1>4, <1>5, <1>6, <1>7 DEF H!Next

LEMMA HoldsAnswers == HandlerInv => QueriedIsSet
<1> SUFFICES ASSUME HandlerInv, NEW g \in H!Group, set[g] # <<>>, H!Carried(g, set[g][1])
             PROVE  \/ H!Queried(g) # <<>> /\ H!Same(g, H!Queried(g)[1], set[g][1])
                    \/ g \in {"F3", "F16"} /\ H!Queried(g) = <<>>
  BY DEF QueriedIsSet, H!QueriedIsSet
<1>1. g # "F91"
  BY DEF H!Carried
<1>2. PICK m : H!Load(hfile, g) = << m >> /\ H!Same(g, m, set[g][1])
  BY DEF HandlerInv, FileHolds
<1>3. H!Queried(g) = H!Load(hfile, g) \/ (g \in {"F3", "F16"} /\ H!Queried(g) = <<>>)
  BY <1>1 DEF HandlerInv, Loadable, H!Queried
<1>4. << m >> # <<>> /\ << m >>[1] = m
  OBVIOUS
<1>5. QED
  BY <1>2, <1>3, <1>4

(* For any messages of any length, names and numbers, in any order and with    *)
(* restarts between them: AFN0A answers with what AFN04 has set, through the   *)
(* texts of the file and the loaders, as far as QueriedIsSet says.             *)
THEOREM QueriesTellTheSet == H!HandlerAssumption /\ H!Spec => []QueriedIsSet
<1> SUFFICES ASSUME H!HandlerAssumption PROVE H!Spec => []QueriedIsSet
  OBVIOUS
<1>1. HandlerInv /\ [H!Next]_(H!vars) => HandlerInv'
  BY NextHandlers
<1>2. QED
  BY <1>1, InitHandlers, HoldsAnswers, PTL DEF H!Spec
================================================================================
