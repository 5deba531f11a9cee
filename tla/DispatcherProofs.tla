---------------------------- MODULE DispatcherProofs ----------------------------
(***************************************************************************)
(* Proofs about the command dispatcher and, at the end, the file transfer. *)
(*                                                                         *)
(* The inductive invariant DispatcherInv is a conjunction per channel of   *)
(* named parts: where the thread is in its request (PhaseInv), the frames  *)
(* of events sent so far (EventInv), the rows copied so far (CopyInv), the *)
(* clock (ControlInv), ACKbuf (DataInv), and what is true of an answer     *)
(* once it is finished (AnswerInv).  A step of one channel changes of      *)
(* another one only the mark that its events were torn, so one lemma       *)
(* (SameKeeps) covers all steps of others and each action is proved for    *)
(* its own channel alone.                                                  *)
(*                                                                         *)
(* The file transfer's invariant FileInv says of a transfer in order that  *)
(* the pages stored and the buffer hold the bytes sent so far (Held), and  *)
(* of one out of order nothing.                                            *)
(*                                                                         *)
(* What the recursive functions KeptTo and FlattenSeq compute is proved by *)
(* induction over the numbers, stated as a fact about the set of the       *)
(* numbers that have the property.                                         *)
(***************************************************************************)
EXTENDS FrameHandlers, SequenceTheorems, WellFoundedInduction, TLAPS

--------------------------------------------------------------------------------
(* Induction over the numbers, by the set of those that have the property.  *)
LEMMA NatByInduction ==
  ASSUME NEW S, 0 \in S, \A n \in Nat : n \in S => n + 1 \in S
  PROVE  Nat \subseteq S
<1> DEFINE R == {p \in Nat \X Nat : p[1] < p[2]}
           T == Nat \ S
<1>1. IsWellFoundedOn(R, Nat)
  BY NatLessThanWellFounded DEF OpToRel
<1>2. SUFFICES ASSUME T # {} PROVE FALSE
  OBVIOUS
<1>3. PICK x \in T : \A y \in T : ~ (<<y, x>> \in R)
  BY <1>1, <1>2, WFMin
<1>4. x \in Nat /\ x # 0 /\ x - 1 \in Nat /\ x - 1 + 1 = x
  BY <1>3
<1>5. x - 1 \notin T
  <2>1. <<x - 1, x>> \in R
    BY <1>4
  <2>2. QED
    BY <1>3, <2>1
<1>6. QED
  BY <1>3, <1>4, <1>5

(* A function on 0 .. n that is defined from its value one before exists.   *)
LEMMA KeptToDef ==
  ASSUME NEW s, NEW I, Len(s) \in Nat
  PROVE  KeptTo(s, I) = [n \in 0 .. Len(s) |->
           IF n = 0 THEN <<>>
           ELSE IF n \in I THEN Append(KeptTo(s, I)[n - 1], s[n]) ELSE KeptTo(s, I)[n - 1]]
<1> DEFINE Is(f, m) == f = [n \in 0 .. m |->
             IF n = 0 THEN <<>> ELSE IF n \in I THEN Append(f[n - 1], s[n]) ELSE f[n - 1]]
           S == {m \in Nat : \E f : Is(f, m)}
<1>1. 0 \in S
  <2>1. Is([n \in 0 .. 0 |-> <<>>], 0)
    OBVIOUS
  <2>2. QED
    BY <2>1
<1>2. ASSUME NEW m \in Nat, m \in S
      PROVE  m + 1 \in S
  <2>1. PICK f : Is(f, m)
    BY <1>2
  <2> DEFINE g == [n \in 0 .. m + 1 |->
               IF n <= m THEN f[n] ELSE IF m + 1 \in I THEN Append(f[m], s[m + 1]) ELSE f[m]]
  <2>2. Is(g, m + 1)
    <3>1. ASSUME NEW n \in 0 .. m + 1
          PROVE  g[n] = IF n = 0 THEN <<>>
                        ELSE IF n \in I THEN Append(g[n - 1], s[n]) ELSE g[n - 1]
      <4>1. CASE n = m + 1
        <5>1. g[n] = IF m + 1 \in I THEN Append(f[m], s[m + 1]) ELSE f[m]
          BY <4>1
        <5>2. g[n - 1] = f[m] /\ n # 0
          BY <4>1
        <5>3. QED
          BY <4>1, <5>1, <5>2
      <4>2. CASE n <= m
        <5>1. g[n] = f[n] /\ n \in 0 .. m
          BY <4>2
        <5>2. n # 0 => g[n - 1] = f[n - 1]
          BY <4>2
        <5>3. f[n] = IF n = 0 THEN <<>> ELSE IF n \in I THEN Append(f[n - 1], s[n]) ELSE f[n - 1]
          BY <2>1, <5>1
        <5>4. QED
          BY <5>1, <5>2, <5>3
      <4>3. QED
        BY <4>1, <4>2
    <3>2. QED
      BY <3>1
  <2> HIDE DEF g, Is
  <2>3. \E h : Is(h, m + 1)
    BY <2>2
  <2>4. QED
    BY <2>3
<1>3. PICK f : Is(f, Len(s))
  BY <1>1, <1>2, NatByInduction
<1>4. KeptTo(s, I) = CHOOSE f1 : Is(f1, Len(s))
  BY DEF KeptTo
<1>5. Is(KeptTo(s, I), Len(s))
  BY <1>3, <1>4
<1>6. QED
  BY <1>5

LEMMA KeptToStep ==
  ASSUME NEW s, NEW I, Len(s) \in Nat, NEW k \in 0 .. Len(s)
  PROVE  KeptTo(s, I)[k] =
           IF k = 0 THEN <<>>
           ELSE IF k \in I THEN Append(KeptTo(s, I)[k - 1], s[k]) ELSE KeptTo(s, I)[k - 1]
<1> DEFINE Body(F, n) == IF n = 0 THEN <<>>
                         ELSE IF n \in I THEN Append(F[n - 1], s[n]) ELSE F[n - 1]
<1>1. PICK F : F = KeptTo(s, I)
  OBVIOUS
<1>2. F = [n \in 0 .. Len(s) |-> Body(F, n)]
  BY <1>1, KeptToDef
<1>3. F[k] = Body(F, k)
  <2> HIDE DEF Body
  <2>1. QED
    BY <1>2
<1>4. QED
  BY <1>1, <1>3

LEMMA KeptToNext ==
  ASSUME NEW s, NEW I, Len(s) \in Nat, NEW n \in Nat, n + 1 <= Len(s)
  PROVE  KeptTo(s, I)[n + 1] =
           IF n + 1 \in I THEN Append(KeptTo(s, I)[n], s[n + 1]) ELSE KeptTo(s, I)[n]
<1>1. PICK k \in 0 .. Len(s) : k = n + 1
  OBVIOUS
<1>2. k - 1 = n /\ k # 0
  BY <1>1
<1>3. KeptTo(s, I)[k] = IF k \in I THEN Append(KeptTo(s, I)[n], s[k]) ELSE KeptTo(s, I)[n]
  BY <1>2, KeptToStep
<1>4. QED
  BY <1>1, <1>3

(* What is kept of the first n elements: a sequence of at most n of them,   *)
(* of exactly n when all are kept, and never more than is kept of all.      *)
LEMMA KeptToSize ==
  ASSUME NEW T, NEW s \in Seq(T), NEW I, NEW n \in 0 .. Len(s)
  PROVE  /\ KeptTo(s, I)[n] \in Seq(T)
         /\ Len(KeptTo(s, I)[n]) <= n
         /\ Len(KeptTo(s, I)[n]) = n <=> \A i \in 1 .. n : i \in I
<1> DEFINE P(m) == /\ KeptTo(s, I)[m] \in Seq(T)
                   /\ Len(KeptTo(s, I)[m]) <= m
                   /\ Len(KeptTo(s, I)[m]) = m <=> \A i \in 1 .. m : i \in I
           S == {m \in Nat : m <= Len(s) => P(m)}
<1>1. P(0)
  <2>1. Len(s) \in Nat /\ 0 \in 0 .. Len(s)
    OBVIOUS
  <2>2. KeptTo(s, I)[0] = <<>>
    BY <2>1, KeptToStep
  <2>3. QED
    BY <2>2
<1>2. ASSUME NEW m \in Nat, m \in S
      PROVE  m + 1 \in S
  <2> SUFFICES ASSUME m + 1 <= Len(s) PROVE P(m + 1)
    OBVIOUS
  <2>1. /\ P(m) /\ m + 1 \in 0 .. Len(s) /\ m + 1 - 1 = m /\ m + 1 # 0 /\ Len(s) \in Nat
        /\ m + 1 \in 1 .. Len(s)
    BY <1>2
  <2>2. s[m + 1] \in T
    BY <2>1, ElementOfSeq
  <2>3. CASE m + 1 \in I
    <3>1. KeptTo(s, I)[m + 1] = Append(KeptTo(s, I)[m], s[m + 1])
      BY <2>1, <2>3, KeptToNext
    <3>2. QED
      BY <2>1, <2>2, <2>3, <3>1
  <2>4. CASE m + 1 \notin I
    <3>1. KeptTo(s, I)[m + 1] = KeptTo(s, I)[m]
      BY <2>1, <2>4, KeptToNext
    <3>2. QED
      BY <2>1, <2>4, <3>1
  <2>5. QED
    BY <2>3, <2>4
<1>3. Nat \subseteq S
  <2>1. 0 \in S
    BY <1>1
  <2> HIDE DEF S
  <2>2. QED
    BY <1>2, <2>1, NatByInduction
<1>4. QED
  BY <1>3

LEMMA KeptToGrows ==
  ASSUME NEW T, NEW s \in Seq(T), NEW I, NEW n \in 0 .. Len(s)
  PROVE  Len(KeptTo(s, I)[n]) <= Len(Kept(s, I))
<1> DEFINE L(m) == Len(KeptTo(s, I)[m])
           S == {m \in Nat : n + m <= Len(s) => L(n) <= L(n + m)}
<1>0. \A m \in 0 .. Len(s) : L(m) \in Nat
  BY KeptToSize, LenProperties
<1>1. 0 \in S
  BY <1>0
<1>2. ASSUME NEW m \in Nat, m \in S
      PROVE  m + 1 \in S
  <2> SUFFICES ASSUME n + (m + 1) <= Len(s) PROVE L(n) <= L(n + (m + 1))
    OBVIOUS
  <2>1. /\ n + m + 1 \in 0 .. Len(s) /\ n + m \in 0 .. Len(s) /\ n + m + 1 - 1 = n + m
        /\ n + m + 1 # 0 /\ Len(s) \in Nat
    OBVIOUS
  <2>2. KeptTo(s, I)[n + m] \in Seq(T) /\ s[n + m + 1] \in T
    <3>1. n + m + 1 \in 1 .. Len(s)
      BY <2>1
    <3>2. QED
      BY <2>1, <3>1, KeptToSize, ElementOfSeq
  <2>3. \/ KeptTo(s, I)[n + m + 1] = Append(KeptTo(s, I)[n + m], s[n + m + 1])
        \/ KeptTo(s, I)[n + m + 1] = KeptTo(s, I)[n + m]
    <3>1. PICK j \in Nat : j = n + m
      BY <2>1
    <3>2. j + 1 <= Len(s) /\ Len(s) \in Nat
      BY <2>1, <3>1
    <3>3. KeptTo(s, I)[j + 1] =
            IF j + 1 \in I THEN Append(KeptTo(s, I)[j], s[j + 1]) ELSE KeptTo(s, I)[j]
      BY <3>2, KeptToNext
    <3>4. QED
      BY <3>1, <3>3
  <2>4. L(n + m) <= L(n + m + 1)
    BY <2>2, <2>3
  <2>5. L(n) <= L(n + m)
    BY <1>2, <2>1
  <2>6. n + (m + 1) = n + m + 1 /\ n + m + 1 \in 0 .. Len(s)
    BY <2>1
  <2>7. L(n) \in Nat /\ L(n + m) \in Nat /\ L(n + m + 1) \in Nat
    BY <1>0, <2>1, <2>6
  <2> HIDE DEF L
  <2>8. QED
    BY <2>4, <2>5, <2>6, <2>7
<1>3. Nat \subseteq S
  <2> HIDE DEF S
  <2>1. QED
    BY <1>1, <1>2, NatByInduction
<1>4. Len(s) - n \in Nat /\ n + (Len(s) - n) = Len(s)
  OBVIOUS
<1>5. QED
  BY <1>3, <1>4 DEF Kept

(* The function in the definition of FlattenSeq, and what it flattens to.   *)
Flat(ss) == CHOOSE f : f = [i \in 1 .. Len(ss) |-> IF i = 1 THEN ss[i] ELSE f[i - 1] \o ss[i]]

LEMMA FlatDef ==
  ASSUME NEW ss, Len(ss) \in Nat
  PROVE  Flat(ss) = [i \in 1 .. Len(ss) |-> IF i = 1 THEN ss[i] ELSE Flat(ss)[i - 1] \o ss[i]]
<1> DEFINE Is(f, m) == f = [i \in 1 .. m |-> IF i = 1 THEN ss[i] ELSE f[i - 1] \o ss[i]]
           S == {m \in Nat : \E f : Is(f, m)}
<1>1. 0 \in S
  <2>1. Is([i \in 1 .. 0 |-> <<>>], 0)
    OBVIOUS
  <2>2. QED
    BY <2>1
<1>2. ASSUME NEW m \in Nat, m \in S
      PROVE  m + 1 \in S
  <2>1. PICK f : Is(f, m)
    BY <1>2
  <2> DEFINE g == [i \in 1 .. m + 1 |-> IF i <= m THEN f[i]
                                        ELSE IF m = 0 THEN ss[m + 1] ELSE f[m] \o ss[m + 1]]
  <2>2. Is(g, m + 1)
    <3>1. ASSUME NEW i \in 1 .. m + 1
          PROVE  g[i] = IF i = 1 THEN ss[i] ELSE g[i - 1] \o ss[i]
      <4>1. CASE i = m + 1
        <5>1. g[i] = IF m = 0 THEN ss[m + 1] ELSE f[m] \o ss[m + 1]
          BY <4>1
        <5>2. m # 0 => g[i - 1] = f[m]
          BY <4>1
        <5>3. QED
          BY <4>1, <5>1, <5>2
      <4>2. CASE i <= m
        <5>1. g[i] = f[i] /\ i \in 1 .. m
          BY <4>2
        <5>2. i # 1 => g[i - 1] = f[i - 1]
          BY <4>2
        <5>3. f[i] = IF i = 1 THEN ss[i] ELSE f[i - 1] \o ss[i]
          BY <2>1, <5>1
        <5>4. QED
          BY <5>1, <5>2, <5>3
      <4>3. QED
        BY <4>1, <4>2
    <3>2. QED
      BY <3>1
  <2> HIDE DEF g, Is
  <2>3. \E h : Is(h, m + 1)
    BY <2>2
  <2>4. QED
    BY <2>3
<1>3. PICK f : Is(f, Len(ss))
  BY <1>1, <1>2, NatByInduction
<1>4. Flat(ss) = CHOOSE f1 : Is(f1, Len(ss))
  BY DEF Flat
<1>5. Is(Flat(ss), Len(ss))
  BY <1>3, <1>4
<1>6. QED
  BY <1>5

LEMMA FlatAt ==
  ASSUME NEW ss, Len(ss) \in Nat, NEW n \in Nat, n + 1 <= Len(ss)
  PROVE  Flat(ss)[n + 1] = IF n = 0 THEN ss[1] ELSE Flat(ss)[n] \o ss[n + 1]
<1> DEFINE Body(F, i) == IF i = 1 THEN ss[i] ELSE F[i - 1] \o ss[i]
<1>1. PICK F : F = Flat(ss)
  OBVIOUS
<1>2. F = [i \in 1 .. Len(ss) |-> Body(F, i)]
  BY <1>1, FlatDef
<1>3. PICK k \in 1 .. Len(ss) : k = n + 1
  OBVIOUS
<1>4. F[k] = Body(F, k)
  <2> HIDE DEF Body
  <2>1. QED
    BY <1>2
<1>5. k - 1 = n /\ (k = 1 <=> n = 0)
  BY <1>3
<1>6. F[k] = IF n = 0 THEN ss[1] ELSE F[n] \o ss[k]
  BY <1>4, <1>5
<1>7. QED
  BY <1>1, <1>3, <1>6

LEMMA FlattenIsFlat ==
  ASSUME NEW ss
  PROVE  FlattenSeq(ss) = IF Len(ss) = 0 THEN ss ELSE Flat(ss)[Len(ss)]
BY DEF FlattenSeq, Flat

(* Flattening gives a sequence, and one more sequence at the end is added.  *)
LEMMA FlatType ==
  ASSUME NEW T, NEW ss \in Seq(Seq(T)), NEW n \in 1 .. Len(ss)
  PROVE  Flat(ss)[n] \in Seq(T)
<1> DEFINE S == {m \in Nat : m + 1 <= Len(ss) => Flat(ss)[m + 1] \in Seq(T)}
<1>1. Len(ss) \in Nat
  OBVIOUS
<1>2. \A i \in 1 .. Len(ss) : ss[i] \in Seq(T)
  OBVIOUS
<1>3. 0 \in S
  <2> SUFFICES ASSUME 0 + 1 <= Len(ss) PROVE Flat(ss)[0 + 1] \in Seq(T)
    OBVIOUS
  <2>1. Flat(ss)[0 + 1] = ss[1]
    BY <1>1, FlatAt
  <2>2. QED
    BY <1>1, <1>2, <2>1
<1>4. ASSUME NEW m \in Nat, m \in S
      PROVE  m + 1 \in S
  <2> SUFFICES ASSUME m + 1 + 1 <= Len(ss) PROVE Flat(ss)[m + 1 + 1] \in Seq(T)
    OBVIOUS
  <2>1. PICK j \in Nat : j = m + 1
    OBVIOUS
  <2>2. j # 0 /\ j + 1 \in 1 .. Len(ss) /\ j + 1 <= Len(ss)
    BY <1>1, <2>1
  <2>3. Flat(ss)[j + 1] = Flat(ss)[j] \o ss[j + 1]
    BY <1>1, <2>2, FlatAt
  <2>4. Flat(ss)[j] \in Seq(T)
    BY <1>1, <1>4, <2>1, <2>2
  <2>5. Flat(ss)[j] \o ss[j + 1] \in Seq(T)
    BY <1>2, <2>2, <2>4, ConcatProperties
  <2>6. QED
    BY <2>1, <2>3, <2>5
<1>5. Nat \subseteq S
  <2> HIDE DEF S
  <2>1. QED
    BY <1>3, <1>4, NatByInduction
<1>6. PICK m \in Nat : m + 1 = n
  <2>1. n - 1 \in Nat /\ n - 1 + 1 = n
    BY <1>1
  <2>2. QED
    BY <2>1
<1>7. m \in S /\ m + 1 <= Len(ss)
  BY <1>1, <1>5, <1>6
<1>8. QED
  BY <1>6, <1>7

LEMMA FlatOfAppend ==
  ASSUME NEW T, NEW ss \in Seq(Seq(T)), NEW t \in Seq(T), NEW n \in 1 .. Len(ss)
  PROVE  Flat(Append(ss, t))[n] = Flat(ss)[n]
<1> DEFINE st == Append(ss, t)
           S == {m \in Nat : m + 1 <= Len(ss) => Flat(st)[m + 1] = Flat(ss)[m + 1]}
<1>1. /\ Len(ss) \in Nat /\ Len(st) \in Nat /\ Len(st) = Len(ss) + 1
      /\ \A i \in 1 .. Len(ss) : st[i] = ss[i]
  BY AppendProperties
<1> HIDE DEF st
<1>3. 0 \in S
  <2> SUFFICES ASSUME 0 + 1 <= Len(ss) PROVE Flat(st)[0 + 1] = Flat(ss)[0 + 1]
    OBVIOUS
  <2>1. Flat(ss)[0 + 1] = ss[1]
    BY <1>1, FlatAt
  <2>2. Flat(st)[0 + 1] = st[1]
    BY <1>1, FlatAt
  <2>3. QED
    BY <1>1, <2>1, <2>2
<1>4. ASSUME NEW m \in Nat, m \in S
      PROVE  m + 1 \in S
  <2> SUFFICES ASSUME m + 1 + 1 <= Len(ss) PROVE Flat(st)[m + 1 + 1] = Flat(ss)[m + 1 + 1]
    OBVIOUS
  <2>1. PICK j \in Nat : j = m + 1
    OBVIOUS
  <2>2. j # 0 /\ j + 1 \in 1 .. Len(ss) /\ j + 1 <= Len(st) /\ j + 1 <= Len(ss)
    BY <1>1, <2>1
  <2>3. Flat(ss)[j + 1] = Flat(ss)[j] \o ss[j + 1]
    BY <1>1, <2>2, FlatAt
  <2>4. Flat(st)[j + 1] = Flat(st)[j] \o st[j + 1]
    BY <1>1, <2>2, FlatAt
  <2>5. Flat(st)[j] = Flat(ss)[j] /\ st[j + 1] = ss[j + 1]
    BY <1>1, <1>4, <2>1, <2>2
  <2>6. QED
    BY <2>1, <2>3, <2>4, <2>5
<1>5. Nat \subseteq S
  <2> HIDE DEF S
  <2>1. QED
    BY <1>3, <1>4, NatByInduction
<1>6. PICK m \in Nat : m + 1 = n
  <2>1. n - 1 \in Nat /\ n - 1 + 1 = n
    BY <1>1
  <2>2. QED
    BY <2>1
<1>7. m \in S /\ m + 1 <= Len(ss)
  BY <1>1, <1>5, <1>6
<1>8. QED
  BY <1>6, <1>7 DEF st

LEMMA FlattenType ==
  ASSUME NEW T, NEW ss \in Seq(Seq(T))
  PROVE  FlattenSeq(ss) \in Seq(T)
<1>1. Len(ss) \in Nat
  OBVIOUS
<1>2. CASE Len(ss) = 0
  <2>1. FlattenSeq(ss) = ss
    BY <1>2, FlattenIsFlat
  <2>2. ss = <<>>
    BY <1>2, EmptySeq
  <2>3. QED
    BY <2>1, <2>2, EmptySeq
<1>3. CASE Len(ss) # 0
  <2>1. Len(ss) \in 1 .. Len(ss)
    BY <1>1, <1>3
  <2>2. QED
    BY <1>3, <2>1, FlatType, FlattenIsFlat
<1>4. QED
  BY <1>2, <1>3

LEMMA FlattenAppend ==
  ASSUME NEW T, NEW ss \in Seq(Seq(T)), NEW t \in Seq(T)
  PROVE  FlattenSeq(Append(ss, t)) = FlattenSeq(ss) \o t
<1> DEFINE st == Append(ss, t)
<1>1. /\ Len(ss) \in Nat /\ Len(st) \in Nat /\ Len(st) = Len(ss) + 1
      /\ st[Len(ss) + 1] = t
  BY AppendProperties
<1>2. FlattenSeq(st) = Flat(st)[Len(ss) + 1]
  <2> HIDE DEF st
  <2>1. Len(st) # 0
    BY <1>1
  <2>2. QED
    BY <1>1, <2>1, FlattenIsFlat
<1>3. Flat(st)[Len(ss) + 1] = IF Len(ss) = 0 THEN st[1] ELSE Flat(st)[Len(ss)] \o st[Len(ss) + 1]
  <2> HIDE DEF st
  <2>1. QED
    BY <1>1, FlatAt
<1>4. CASE Len(ss) = 0
  <2>1. ss = <<>>
    BY <1>4, EmptySeq
  <2>2. FlattenSeq(ss) = <<>>
    BY <2>1, <1>4, FlattenIsFlat
  <2>3. FlattenSeq(st) = t
    <3> HIDE DEF st
    <3>1. QED
      BY <1>1, <1>2, <1>3, <1>4
  <2>4. <<>> \o t = t
    BY ConcatEmptySeq
  <2>5. QED
    BY <2>2, <2>3, <2>4
<1>5. CASE Len(ss) # 0
  <2>1. Len(ss) \in 1 .. Len(ss)
    BY <1>1, <1>5
  <2>2. Flat(st)[Len(ss)] = Flat(ss)[Len(ss)]
    BY <2>1, FlatOfAppend
  <2>3. FlattenSeq(ss) = Flat(ss)[Len(ss)]
    BY <1>5, FlattenIsFlat
  <2>4. FlattenSeq(st) = Flat(st)[Len(ss)] \o t
    <3> HIDE DEF st
    <3>1. QED
      BY <1>1, <1>2, <1>3, <1>5
  <2>5. QED
    BY <2>2, <2>3, <2>4
<1>6. QED
  BY <1>4, <1>5

--------------------------------------------------------------------------------
Cell == [fn : Nat, part : {"di", "data", "unset"}]
Result == [unit : DataUnit, ok : BOOLEAN]
Kind == {"events", "data", "part", "all_err"}
FrameType == [kind : Kind, seq : 0 .. SeqNumbers - 1, fir : BOOLEAN, fin : BOOLEAN,
              body : Seq(Record) \cup Seq(Cell) \cup Seq(Result)]
Did == [clock : BOOLEAN, erc : SUBSET Nat, torn : BOOLEAN, dropped : BOOLEAN, failed : BOOLEAN]
IsAck(b) ==
  /\ DOMAIN b = {"cell", "len", "pos"}
  /\ b.len \in Nat /\ b.pos \in Nat
  /\ \A i \in DOMAIN b.cell : b.cell[i] \in Cell

TypeInv ==
  /\ pc \in [Channel -> {"idle", "unit", "rows", "answer"}]
  /\ req \in [Channel -> Request \cup {None}]
  /\ at \in [Channel -> Nat]
  /\ bad \in [Channel -> BOOLEAN]
  /\ DOMAIN ack = Channel
  /\ out \in [Channel -> [body : Seq(Record), row : Nat, sum : Nat \cup {-1}, frames : Nat]]
  /\ seq \in [Channel -> 0 .. SeqNumbers - 1]
  /\ sent \in [Channel -> Seq(FrameType)]
  /\ EventBuf \in Seq(Record)
  /\ did \in [Channel -> Did]
  /\ \A c \in Channel : req[c] \in Asked[c] \cup {None} /\ IsAck(ack[c])

--------------------------------------------------------------------------------
(* Where the thread of channel c is in its request.                         *)
PhaseInv(c) ==
  /\ req[c] = None => pc[c] = "idle" /\ sent[c] = <<>>
  /\ pc[c] = "idle" => ack[c] = NoAck /\ out[c] = NoOut
  /\ pc[c] # "idle" => Mine(req[c]) /\ Served(req[c]) /\ at[c] <= UnitCount(req[c])
  /\ pc[c] \in {"unit", "rows"} => ~bad[c]
  /\ pc[c] = "answer" /\ ~bad[c] => at[c] = UnitCount(req[c])
  /\ bad[c] => at[c] >= 1
  /\ at[c] = 0 /\ pc[c] = "unit" => ack[c] = NoAck /\ out[c] = NoOut /\ sent[c] = <<>>
  /\ pc[c] = "rows" => /\ req[c].afn = "0E" /\ at[c] = 0 /\ req[c].units # <<>>
                       /\ req[c].units[1].fn \in {1, 2, 3}
  /\ pc[c] # "idle" /\ req[c].afn # "0E" =>
       sent[c] = <<>> /\ ~did[c].dropped /\ seq[c] = req[c].seq
  /\ req[c] # None => (Broadcast(req[c]) \/ ~Mine(req[c]) \/ ~Served(req[c]) => sent[c] = <<>>)

(* The frames s are numbered from the number of r on, and the first one     *)
(* says so.                                                                 *)
Numbered(s, r) ==
  \A i \in 1 .. Len(s) : /\ s[i].kind = "events"
                         /\ s[i].seq = (r.seq + i - 1) % SeqNumbers
                         /\ s[i].fir = (i = 1)

(* The frames of events: none before the rows are copied, then one for each *)
(* that was filled, and after the last one a whole run.                     *)
EventInv(c) ==
  pc[c] # "idle" /\ req[c].afn = "0E" =>
    /\ pc[c] = "unit" /\ at[c] = 0 => seq[c] = req[c].seq /\ ~did[c].dropped
    /\ pc[c] = "answer" /\ at[c] = 0 => sent[c] = <<>>
    /\ ~did[c].dropped /\ ~Broadcast(req[c]) =>
         /\ pc[c] = "rows" =>
              /\ Numbered(sent[c], req[c])
              /\ \A i \in 1 .. Len(sent[c]) : ~sent[c][i].fin
              /\ Len(sent[c]) = out[c].frames
              /\ seq[c] = IF out[c].frames = 0 THEN req[c].seq
                          ELSE (req[c].seq + out[c].frames - 1) % SeqNumbers
         /\ pc[c] # "rows" =>
              /\ Numbered(sent[c], req[c])
              /\ \A i \in 1 .. Len(sent[c]) : sent[c][i].fin = (i = Len(sent[c]))
              /\ at[c] >= 1 /\ ~bad[c] => sent[c] # <<>>
              /\ bad[c] /\ at[c] = 1 => sent[c] = <<>>

(* The rows a channel has copied are the first ones of those it asked for.  *)
CopyInv(c) ==
  /\ pc[c] # "idle" /\ req[c].afn = "0E" /\ req[c].units # <<>> /\ ~Broadcast(req[c])
  /\ ~did[c].torn /\ ~did[c].dropped /\ ~did[c].failed
  => LET u == req[c].units[1] IN
     /\ \A i \in 1 .. Len(sent[c]) : sent[c][i].body \in Seq(Record)
     /\ pc[c] = "rows" =>
          /\ out[c].sum = Granted(u)
          /\ out[c].row <= out[c].sum
          /\ out[c].row < out[c].sum => EventBuf = Selected(u)
          /\ FlattenSeq(Bodies(sent[c])) \o out[c].body = SubSeq(Selected(u), 1, out[c].row)
     /\ pc[c] # "rows" /\ at[c] >= 1 /\ u.fn \in {1, 2, 3} =>
          FlattenSeq(Bodies(sent[c])) = SubSeq(Selected(u), 1, Granted(u))

(* AFN 05: the clock was set when an F31 of those taken did not fail.       *)
ControlInv(c) ==
  pc[c] # "idle" /\ req[c].afn = "05" /\ ~did[c].failed =>
    did[c].clock = \E i \in 1 .. at[c] : req[c].units[i].fn = 31 /\ ~(bad[c] /\ i = at[c])

(* AFN 09, 0A and 0C: ACKbuf holds the data of the units that worked.       *)
Taken(c) == IF at[c] <= Len(req[c].units) THEN at[c] ELSE Len(req[c].units)
WorkedOf(c) == KeptTo(req[c].units, WorkingAt(req[c]))[Taken(c)]

DataInv(c) ==
  /\ pc[c] # "idle" /\ req[c].afn \in {"09", "0A", "0C"} /\ Plain(req[c]) /\ ~did[c].failed =>
       /\ Content(ack[c]) = Pairs(WorkedOf(c))
       /\ ack[c].len = 2 * Len(WorkedOf(c))
       /\ req[c].afn = "0C" /\ Len(WorkedOf(c)) < 2 => ack[c].pos = ack[c].len
  /\ pc[c] # "idle" /\ req[c].afn = "0C" => ~bad[c]
  /\ pc[c] # "idle" /\ req[c].afn \in {"09", "0A"} /\ Plain(req[c]) =>
       /\ bad[c] => at[c] \notin WorkingAt(req[c])
       /\ ~bad[c] => 1 .. at[c] \subseteq WorkingAt(req[c])

(* The answer that was sent last.                                           *)
AnswerInv(c) ==
  pc[c] = "idle" =>
    InOrder(c) /\ Whole(c) /\ AnsweredAsPromised(c) /\ AnsweredOnce(c) /\ ToldTruly(c)

ChannelInv(c) ==
  /\ PhaseInv(c) /\ EventInv(c) /\ CopyInv(c) /\ ControlInv(c) /\ DataInv(c) /\ AnswerInv(c)

DispatcherInv == TypeInv /\ \A c \in Channel : ChannelInv(c)
--------------------------------------------------------------------------------
(* What the step of another thread leaves of channel c.                     *)
Same(c) ==
  /\ pc'[c] = pc[c] /\ req'[c] = req[c] /\ at'[c] = at[c] /\ bad'[c] = bad[c]
  /\ ack'[c] = ack[c] /\ out'[c] = out[c] /\ seq'[c] = seq[c] /\ sent'[c] = sent[c]
  /\ did'[c] = did[c] \/ did'[c] = [did[c] EXCEPT !.torn = TRUE]
  /\ EventBuf' = EventBuf \/ ~Copying(c) \/ did'[c].torn

LEMMA SameKeeps ==
  ASSUME TypeInv, NEW c \in Channel, ChannelInv(c), Same(c)
  PROVE  ChannelInv(c)'
<1>1. /\ did'[c].clock = did[c].clock /\ did'[c].dropped = did[c].dropped
      /\ did'[c].failed = did[c].failed /\ (did[c].torn => did'[c].torn)
  BY DEF TypeInv, Did, Same
<1>2. PhaseInv(c)'
  BY <1>1 DEF ChannelInv, PhaseInv, Same
<1>3. EventInv(c)'
  BY <1>1 DEF ChannelInv, EventInv, Same
<1>4. CopyInv(c)'
  BY <1>1 DEF ChannelInv, CopyInv, Same, Copying
<1>5. ControlInv(c)'
  BY <1>1, ZenonT(60) DEF ChannelInv, ControlInv, Same
<1>6. DataInv(c)'
  BY <1>1 DEF ChannelInv, DataInv, Same, WorkedOf, Taken
<1>7. AnswerInv(c)'
  <2>1. Finished(c)' = Finished(c) /\ Addressed(c)' = Addressed(c) /\ EventFrames(c)' = EventFrames(c)
    BY DEF Finished, Addressed, EventFrames, Same
  <2>2. InOrder(c) => InOrder(c)'
    BY <1>1, <2>1 DEF InOrder, Same
  <2>3. Whole(c) => Whole(c)'
    BY <1>1, <2>1 DEF Whole, Same
  <2>4. AnsweredAsPromised(c) => AnsweredAsPromised(c)'
    BY <1>1, <2>1 DEF AnsweredAsPromised, Same
  <2>5. AnsweredOnce(c) => AnsweredOnce(c)'
    BY <1>1, <2>1 DEF AnsweredOnce, Same, Muted
  <2>6. ToldTruly(c) => ToldTruly(c)'
    BY <1>1, <2>1, ZenonT(60) DEF ToldTruly, Same
  <2>7. QED
    BY <2>2, <2>3, <2>4, <2>5, <2>6 DEF ChannelInv, AnswerInv, Same
<1>8. QED
  BY <1>2, <1>3, <1>4, <1>5, <1>6, <1>7 DEF ChannelInv

LEMMA OthersUntouched ==
  ASSUME TypeInv, NEW d \in Channel, ParseData(d) \/ Handle(d), NEW c \in Channel, c # d
  PROVE  Same(c)
<1> USE DEF Same, TypeInv, Did
<1>1. CASE ParseData(d)
  BY <1>1 DEF ParseData
<1>2. CASE AFN_05H(d)
  BY <1>2 DEF AFN_05H, SetClock, CreateEvent41, Advance, Fail
<1>3. CASE AFN_09H(d)
  BY <1>3 DEF AFN_09H, Advance, Fail
<1>4. CASE AFN_0AH(d)
  BY <1>4 DEF AFN_0AH, Advance, Fail
<1>5. CASE AFN_0CH(d)
  BY <1>5 DEF AFN_0CH, Advance
<1>6. CASE NoMoreUnits(d)
  BY <1>6 DEF NoMoreUnits, locals
<1>7. CASE Fetch(d)
  <2>1. UNCHANGED <<req, at, bad, ack, seq, sent>> /\ pc'[c] = pc[c] /\ out'[c] = out[c]
    BY <1>7 DEF Fetch
  <2>2. Tears(d)[c] = IF Copying(c) THEN [did[c] EXCEPT !.torn = TRUE] ELSE did[c]
    BY DEF Tears
  <2>3. \/ did'[c] = Tears(d)[c]
        \/ did'[c] = did[c] /\ EventBuf' = EventBuf
    <3>1. DOMAIN Tears(d) = Channel
      BY DEF Tears
    <3> HIDE DEF TypeInv
    <3>2. \/ did' = Tears(d)
          \/ did' = [did EXCEPT ![d].failed = TRUE] /\ EventBuf' = EventBuf
          \/ did' = [Tears(d) EXCEPT ![d].failed = TRUE]
      BY <1>7 DEF Fetch
    <3>3. DOMAIN did = Channel
      BY DEF TypeInv
    <3>4. QED
      BY <3>1, <3>2, <3>3
  <2>4. [did[c] EXCEPT !.torn = TRUE].torn
    OBVIOUS
  <2>5. QED
    BY <2>1, <2>2, <2>3, <2>4
<1>8. CASE AFN_0EH_fails(d)
  BY <1>8 DEF AFN_0EH_fails, Fail
<1>9. CASE NextRow(d)
  BY <1>9 DEF NextRow, Emit, Send
<1>10. CASE LastFrame(d)
  BY <1>10 DEF LastFrame, Emit, Send
<1>11. CASE Answer(d)
  BY <1>11 DEF Answer, AnswerControl, AnswerData, Send
<1>12. QED
  BY <1>1, <1>2, <1>3, <1>4, <1>5, <1>6, <1>7, <1>8, <1>9, <1>10, <1>11 DEF Handle

--------------------------------------------------------------------------------
(* The request a channel works on, and the unit it takes.                   *)
LEMMA RequestType ==
  ASSUME TypeInv, NEW c \in Channel, PhaseInv(c), pc[c] # "idle"
  PROVE  /\ req[c] \in Request /\ req[c] \in Asked[c] /\ req[c] # None
         /\ req[c].units \in Seq(DataUnit) /\ Len(req[c].units) \in Nat
         /\ req[c].seq \in 0 .. SeqNumbers - 1
         /\ Mine(req[c]) /\ Served(req[c]) /\ at[c] <= UnitCount(req[c])
<1>1. req[c] \in Asked[c] /\ req[c] # None
  BY DEF TypeInv, PhaseInv
<1>2. req[c] \in Request
  BY <1>1, DispatcherAssumption
<1>3. QED
  BY <1>1, <1>2 DEF Request, PhaseInv

LEMMA UnitType ==
  ASSUME TypeInv, NEW c \in Channel, PhaseInv(c), pc[c] # "idle", at[c] < UnitCount(req[c])
  PROVE  /\ Unit(c) \in DataUnit
         /\ Unit(c).fn \in Nat /\ Unit(c).pn \in Nat /\ Unit(c).arg \in Seq(Nat)
<1>1. Unreadable \in DataUnit
  BY DEF Unreadable, DataUnit
<1>2. req[c] \in Request /\ req[c].units \in Seq(DataUnit) /\ req[c].next \in DataUnit
  BY RequestType DEF Request
<1>3. at[c] \in Nat
  BY DEF TypeInv
<1>4. UnitAt(req[c], at[c] + 1) \in DataUnit
  BY <1>2, <1>3, ElementOfSeq DEF UnitAt
<1>5. Unit(c) \in DataUnit
  BY <1>1, <1>4 DEF Unit
<1>6. QED
  BY <1>5 DEF DataUnit

LEMMA FrameIsTyped ==
  ASSUME NEW k \in Kind, NEW s \in 0 .. SeqNumbers - 1, NEW fir \in BOOLEAN, NEW fin \in BOOLEAN,
         NEW b \in Seq(Record) \cup Seq(Cell) \cup Seq(Result)
  PROVE  /\ Frame(k, s, fir, fin, b) \in FrameType
         /\ Frame(k, s, fir, fin, b).kind = k /\ Frame(k, s, fir, fin, b).seq = s
         /\ Frame(k, s, fir, fin, b).fir = fir /\ Frame(k, s, fir, fin, b).fin = fin
         /\ Frame(k, s, fir, fin, b).body = b
BY DEF Frame, FrameType

LEMMA SendTypes ==
  ASSUME TypeInv, NEW c \in Channel, NEW f \in FrameType, Send(c, f)
  PROVE  /\ sent' \in [Channel -> Seq(FrameType)]
         /\ did' \in [Channel -> Did]
<1>1. sent[c] \in Seq(FrameType)
  BY DEF TypeInv
<1>2. Append(sent[c], f) \in Seq(FrameType)
  BY <1>1, AppendProperties
<1>3. /\ sent' = sent \/ sent' = [sent EXCEPT ![c] = Append(sent[c], f)]
      /\ did' = did \/ did' = [did EXCEPT ![c] = [did[c] EXCEPT !.dropped = TRUE]]
  BY DEF Send
<1>4. sent' \in [Channel -> Seq(FrameType)]
  <2>1. sent \in [Channel -> Seq(FrameType)]
    BY DEF TypeInv
  <2>2. QED
    BY <1>2, <1>3, <2>1
<1>5. did' \in [Channel -> Did]
  <2>1. did \in [Channel -> Did] /\ did[c] \in Did
    BY DEF TypeInv
  <2>2. [did[c] EXCEPT !.dropped = TRUE] \in Did
    BY <2>1 DEF Did
  <2>3. QED
    BY <1>3, <2>1, <2>2
<1>6. QED
  BY <1>4, <1>5

LEMMA WriteTypes ==
  ASSUME NEW b, IsAck(b), NEW p \in Nat, NEW s \in Seq(Cell)
  PROVE  LET w == Write(b, p, s) IN
         /\ IsAck(w) /\ w.len = b.len /\ w.pos = b.pos
         /\ \A i \in Int : IF p <= i /\ i < p + Len(s)
                           THEN i \in DOMAIN w.cell /\ w.cell[i] = s[i - p + 1]
                           ELSE /\ i \in DOMAIN w.cell <=> i \in DOMAIN b.cell
                                /\ i \in DOMAIN b.cell => w.cell[i] = b.cell[i]
<1> DEFINE new == p .. p + Len(s) - 1
           w == Write(b, p, s)
           G(i) == IF i \in new THEN s[i - p + 1] ELSE b.cell[i]
<1> USE DEF IsAck
<1>1. w = [b EXCEPT !.cell = [i \in (DOMAIN b.cell) \cup new |-> G(i)]]
  BY DEF Write
<1> HIDE DEF G, w
<1>2. DOMAIN w = {"cell", "len", "pos"} /\ w.len = b.len /\ w.pos = b.pos
  BY <1>1
<1>3. w.cell = [i \in (DOMAIN b.cell) \cup new |-> G(i)]
  BY <1>1
<1>4. Len(s) \in Nat /\ \A j \in 1 .. Len(s) : s[j] \in Cell
  BY ElementOfSeq
<1>5. \A i \in new : G(i) = s[i - p + 1] /\ G(i) \in Cell
  BY <1>4 DEF G
<1>6. \A i \in DOMAIN b.cell : i \notin new => G(i) = b.cell[i] /\ G(i) \in Cell
  BY DEF G
<1>7. \A i \in Int : i \in new <=> p <= i /\ i < p + Len(s)
  BY <1>4
<1> HIDE DEF new
<1>8. \A i \in DOMAIN w.cell : w.cell[i] \in Cell
  BY <1>3, <1>5, <1>6
<1>9. DOMAIN w.cell = (DOMAIN b.cell) \cup new /\ \A i \in DOMAIN w.cell : w.cell[i] = G(i)
  BY <1>3
<1>10. \A i \in Int : IF p <= i /\ i < p + Len(s)
                      THEN i \in DOMAIN w.cell /\ w.cell[i] = s[i - p + 1]
                      ELSE /\ i \in DOMAIN w.cell <=> i \in DOMAIN b.cell
                           /\ i \in DOMAIN b.cell => w.cell[i] = b.cell[i]
  BY <1>5, <1>6, <1>7, <1>9
<1>11. QED
  BY <1>2, <1>8, <1>10 DEF w

--------------------------------------------------------------------------------
(* Every action keeps the types.                                            *)
LEMMA ParseDataTypes ==
  ASSUME TypeInv, NEW c \in Channel, ParseData(c)
  PROVE  TypeInv'
<1>1. PICK r \in Asked[c] : /\ req' = [req EXCEPT ![c] = r]
                            /\ seq' = [seq EXCEPT ![c] = r.seq]
                            /\ pc' = [pc EXCEPT ![c] = IF Mine(r) /\ Served(r) THEN "unit" ELSE "idle"]
  BY DEF ParseData
<1>2. r \in Request /\ r.seq \in 0 .. SeqNumbers - 1
  BY <1>1, DispatcherAssumption DEF Request
<1>3. Nothing \in Did /\ <<>> \in Seq(FrameType)
  BY DEF Nothing, Did
<1>4. /\ at' = [at EXCEPT ![c] = 0] /\ bad' = [bad EXCEPT ![c] = FALSE]
      /\ sent' = [sent EXCEPT ![c] = <<>>] /\ did' = [did EXCEPT ![c] = Nothing]
      /\ UNCHANGED <<ack, out, EventBuf, clock>>
  BY DEF ParseData
<1>5. req' \in [Channel -> Request \cup {None}] /\ \A d \in Channel : req'[d] \in Asked[d] \cup {None}
  BY <1>1, <1>2 DEF TypeInv
<1>6. pc' \in [Channel -> {"idle", "unit", "rows", "answer"}]
  BY <1>1 DEF TypeInv
<1>7. seq' \in [Channel -> 0 .. SeqNumbers - 1]
  BY <1>1, <1>2 DEF TypeInv
<1>8. at' \in [Channel -> Nat] /\ bad' \in [Channel -> BOOLEAN]
  BY <1>4 DEF TypeInv
<1>9. sent' \in [Channel -> Seq(FrameType)] /\ did' \in [Channel -> Did]
  <2>1. sent \in [Channel -> Seq(FrameType)] /\ did \in [Channel -> Did]
    BY DEF TypeInv
  <2>2. QED
    BY <1>3, <1>4, <2>1
<1>10. QED
  BY <1>4, <1>5, <1>6, <1>7, <1>8, <1>9 DEF TypeInv

(* What the steps of a loop over the units do to the types they touch.      *)
LEMMA UnitStepTypes ==
  ASSUME TypeInv, NEW c \in Channel,
         Advance(c) \/ Fail(c),
         did' \in [Channel -> Did],
         DOMAIN ack' = Channel, \A d \in Channel : IsAck(ack'[d]),
         UNCHANGED <<req, out, seq, sent, EventBuf>>
  PROVE  TypeInv'
<1>1. at' \in [Channel -> Nat]
  <2>1. at \in [Channel -> Nat] /\ at' = [at EXCEPT ![c] = at[c] + 1]
    BY DEF TypeInv, Advance, Fail
  <2>2. QED
    BY <2>1
<1>2. bad' \in [Channel -> BOOLEAN]
  BY DEF TypeInv, Advance, Fail
<1>3. pc' \in [Channel -> {"idle", "unit", "rows", "answer"}]
  BY DEF TypeInv, Advance, Fail
<1>4. QED
  BY <1>1, <1>2, <1>3 DEF TypeInv

LEMMA AFN_05HTypes ==
  ASSUME TypeInv, NEW c \in Channel, AFN_05H(c)
  PROVE  TypeInv'
<1>1. Advance(c) \/ Fail(c)
  BY DEF AFN_05H
<1>2. did' \in [Channel -> Did]
  <2>1. did \in [Channel -> Did] /\ did[c] \in Did
    BY DEF TypeInv
  <2>2. [did[c] EXCEPT !.failed = TRUE] \in Did
    BY <2>1 DEF Did
  <2> DEFINE e == did[c].erc \cup {41}
  <2>3. e \in SUBSET Nat
    BY <2>1 DEF Did
  <2> HIDE DEF e
  <2>4. [did[c] EXCEPT !.clock = TRUE, !.erc = e] \in Did
    BY <2>1, <2>3 DEF Did
  <2>5. \/ did' = did
        \/ did' = [did EXCEPT ![c] = [did[c] EXCEPT !.clock = TRUE, !.erc = e]]
        \/ did' = [did EXCEPT ![c] = [did[c] EXCEPT !.failed = TRUE]]
    BY DEF AFN_05H, SetClock, CreateEvent41, e
  <2>6. QED
    BY <2>1, <2>2, <2>4, <2>5
<1>3. UNCHANGED <<req, ack, out, seq, sent, EventBuf>>
  BY DEF AFN_05H
<1>4. DOMAIN ack' = Channel /\ \A d \in Channel : IsAck(ack'[d])
  BY <1>3 DEF TypeInv
<1>5. QED
  BY <1>1, <1>2, <1>3, <1>4, UnitStepTypes

LEMMA CellsTyped ==
  ASSUME NEW n \in Nat
  PROVE  Di(n) \in Cell /\ Data(n) \in Cell
BY DEF Di, Data, Cell

(* An acknowledgement that is written to for one channel.                   *)
LEMMA AckStepTypes ==
  ASSUME TypeInv, NEW c \in Channel, NEW b, IsAck(b), ack' = [ack EXCEPT ![c] = b]
  PROVE  DOMAIN ack' = Channel /\ \A d \in Channel : IsAck(ack'[d])
<1>1. DOMAIN ack = Channel /\ \A d \in Channel : IsAck(ack[d])
  BY DEF TypeInv
<1>2. QED
  BY <1>1

LEMMA AFN_09HTypes ==
  ASSUME TypeInv, NEW c \in Channel, PhaseInv(c), AFN_09H(c)
  PROVE  TypeInv'
<1> DEFINE u == Unit(c)
           b == Write(ack[c], ack[c].len, <<Di(u.fn)>>)
           b2 == Write(b, 1, <<Data(u.fn)>>)
<1>1. Advance(c) \/ Fail(c)
  BY DEF AFN_09H
<1>2. UNCHANGED <<req, out, seq, sent, EventBuf, did>>
  BY DEF AFN_09H
<1>3. u.fn \in Nat
  BY UnitType DEF AFN_09H, Taking
<1>4. <<Di(u.fn)>> \in Seq(Cell) /\ <<Data(u.fn)>> \in Seq(Cell)
  BY <1>3, CellsTyped
<1>5. IsAck(ack[c]) /\ ack[c].len \in Nat
  BY DEF TypeInv, IsAck
<1>6. IsAck(b)
  BY <1>4, <1>5, WriteTypes
<1>7. IsAck(b2)
  BY <1>4, <1>6, WriteTypes
<1>8. ack' = ack \/ ack' = [ack EXCEPT ![c] = [b2 EXCEPT !.len = @ + 2]]
  BY DEF AFN_09H
<1> HIDE DEF b, b2, u
<1>9. IsAck([b2 EXCEPT !.len = @ + 2])
  BY <1>7 DEF IsAck
<1>10. DOMAIN ack' = Channel /\ \A d \in Channel : IsAck(ack'[d])
  <2>1. CASE ack' = ack
    BY <2>1 DEF TypeInv
  <2>2. CASE ack' = [ack EXCEPT ![c] = [b2 EXCEPT !.len = @ + 2]]
    BY <1>9, <2>2, AckStepTypes
  <2>3. QED
    BY <1>8, <2>1, <2>2
<1>11. did' \in [Channel -> Did]
  BY <1>2 DEF TypeInv
<1>12. QED
  BY <1>1, <1>2, <1>10, <1>11, UnitStepTypes

LEMMA AnsweredType ==
  ASSUME NEW u \in DataUnit
  PROVE  /\ Answered(u) \in Seq(Cell) /\ Len(Answered(u)) \in Nat
         /\ <<Di(u.fn), Data(u.fn)>> \in Seq(Cell)
<1>1. u.fn \in Nat
  BY DEF DataUnit
<1>2. /\ Di(u.fn) \in Cell /\ Data(u.fn) \in Cell
      /\ Di(89) \in Cell /\ Data(89) \in Cell /\ Data(91) \in Cell
  BY <1>1, CellsTyped
<1>3. <<Di(89), Data(89), Data(91)>> \in Seq(Cell) /\ <<Di(u.fn), Data(u.fn)>> \in Seq(Cell)
  BY <1>2
<1>4. QED
  BY <1>3 DEF Answered

LEMMA AFN_0AHTypes ==
  ASSUME TypeInv, NEW c \in Channel, PhaseInv(c), AFN_0AH(c)
  PROVE  TypeInv'
<1> DEFINE u == Unit(c)
           b == Write(ack[c], Place(ack[c]), Answered(u))
           n == Len(Answered(u))
<1>1. Advance(c) \/ Fail(c)
  BY DEF AFN_0AH
<1>2. UNCHANGED <<req, out, seq, sent, EventBuf>>
  BY DEF AFN_0AH
<1>3. u \in DataUnit
  BY UnitType DEF AFN_0AH, Taking
<1>4. Answered(u) \in Seq(Cell) /\ n \in Nat
  BY <1>3, AnsweredType
<1>5. IsAck(ack[c]) /\ Place(ack[c]) \in Nat
  BY DEF TypeInv, IsAck, Place
<1>6. IsAck(b)
  BY <1>4, <1>5, WriteTypes
<1>7. ack' = ack \/ ack' = [ack EXCEPT ![c] = [b EXCEPT !.len = @ + n]]
  BY DEF AFN_0AH, Answer_0A
<1>8. did' = did \/ did' = [did EXCEPT ![c] = [did[c] EXCEPT !.erc = @ \cup {2}]]
  BY DEF AFN_0AH
<1> HIDE DEF b, u, n
<1>9. IsAck([b EXCEPT !.len = @ + n])
  BY <1>4, <1>6 DEF IsAck
<1>10. DOMAIN ack' = Channel /\ \A d \in Channel : IsAck(ack'[d])
  <2>1. CASE ack' = ack
    BY <2>1 DEF TypeInv
  <2>2. CASE ack' = [ack EXCEPT ![c] = [b EXCEPT !.len = @ + n]]
    BY <1>9, <2>2, AckStepTypes
  <2>3. QED
    BY <1>7, <2>1, <2>2
<1>11. did' \in [Channel -> Did]
  <2>1. did \in [Channel -> Did] /\ did[c] \in Did
    BY DEF TypeInv
  <2> DEFINE e == did[c].erc \cup {2}
  <2>2. e \in SUBSET Nat
    BY <2>1 DEF Did
  <2>3. did' = did \/ did' = [did EXCEPT ![c] = [did[c] EXCEPT !.erc = e]]
    BY <1>8
  <2> HIDE DEF e
  <2>4. [did[c] EXCEPT !.erc = e] \in Did
    BY <2>1, <2>2 DEF Did
  <2>5. QED
    BY <2>1, <2>3, <2>4
<1>12. QED
  BY <1>1, <1>2, <1>10, <1>11, UnitStepTypes

LEMMA AFN_0CHTypes ==
  ASSUME TypeInv, NEW c \in Channel, PhaseInv(c), AFN_0CH(c)
  PROVE  TypeInv'
<1> DEFINE u == Unit(c)
           b == Write(ack[c], ack[c].pos, <<Di(u.fn), Data(u.fn)>>)
           a == Answer_0C(ack[c], u)
<1>1. Advance(c)
  BY DEF AFN_0CH
<1>2. UNCHANGED <<req, out, seq, sent, EventBuf>>
  BY DEF AFN_0CH
<1>3. u \in DataUnit
  BY UnitType DEF AFN_0CH, Taking
<1>4. <<Di(u.fn), Data(u.fn)>> \in Seq(Cell)
  BY <1>3, AnsweredType
<1>5. IsAck(ack[c]) /\ ack[c].pos \in Nat /\ ack[c].len \in Nat
  BY DEF TypeInv, IsAck
<1>6. IsAck(b)
  BY <1>4, <1>5, WriteTypes
<1>7. a = [b EXCEPT !.len = @ + 2, !.pos = @ + ack[c].len + 2]
  BY DEF Answer_0C
<1>8. ack' = ack \/ ack' = [ack EXCEPT ![c] = a]
  BY DEF AFN_0CH
<1>9. did' = did \/ did' = [did EXCEPT ![c] = [did[c] EXCEPT !.failed = TRUE]]
  BY DEF AFN_0CH
<1> HIDE DEF b, u, a
<1>10. IsAck(a)
  BY <1>5, <1>6, <1>7 DEF IsAck
<1>11. DOMAIN ack' = Channel /\ \A d \in Channel : IsAck(ack'[d])
  <2>1. CASE ack' = ack
    BY <2>1 DEF TypeInv
  <2>2. CASE ack' = [ack EXCEPT ![c] = a]
    BY <1>10, <2>2, AckStepTypes
  <2>3. QED
    BY <1>8, <2>1, <2>2
<1>12. did' \in [Channel -> Did]
  <2>1. did \in [Channel -> Did] /\ did[c] \in Did
    BY DEF TypeInv
  <2>2. [did[c] EXCEPT !.failed = TRUE] \in Did
    BY <2>1 DEF Did
  <2>3. QED
    BY <1>9, <2>1, <2>2
<1>13. QED
  BY <1>1, <1>2, <1>11, <1>12, UnitStepTypes

LEMMA AFN_0EH_failsTypes ==
  ASSUME TypeInv, NEW c \in Channel, AFN_0EH_fails(c)
  PROVE  TypeInv'
<1>1. Fail(c) /\ UNCHANGED <<req, ack, out, seq, sent, EventBuf, did>>
  BY DEF AFN_0EH_fails
<1>2. did' \in [Channel -> Did] /\ DOMAIN ack' = Channel /\ \A d \in Channel : IsAck(ack'[d])
  BY <1>1 DEF TypeInv
<1>3. QED
  BY <1>1, <1>2, UnitStepTypes

LEMMA NoMoreUnitsTypes ==
  ASSUME TypeInv, NEW c \in Channel, NoMoreUnits(c)
  PROVE  TypeInv'
BY DEF TypeInv, NoMoreUnits, locals

(* The rows a request for events selects, and how many of them it gets.     *)
LEMMA BetweenType ==
  ASSUME NEW s \in Seq(Record), NEW pm \in Nat, NEW pn \in Nat
  PROVE  Between(s, pm, pn) \in Seq(Record)
<1>1. Len(s) \in Nat /\ Upto(pn, s) \in Nat /\ Upto(pn, s) <= Len(s)
  BY DEF Upto
<1>2. \A i \in 1 .. Len(s) : s[i] \in Record
  BY ElementOfSeq
<1>3. SubSeq(s, pm + 1, Upto(pn, s)) \in Seq(Record)
  BY <1>1, <1>2, SubSeqProperties
<1>4. SubSeq(s, 1, Upto(pn, s)) \in Seq(Record)
  BY <1>1, <1>2, SubSeqProperties
<1>5. SubSeq(s, pm + 1, Len(s)) \in Seq(Record)
  BY <1>1, <1>2, SubSeqProperties
<1>6. SubSeq(s, 1, Upto(pn, s)) \o SubSeq(s, pm + 1, Len(s)) \in Seq(Record)
  BY <1>4, <1>5, ConcatProperties
<1>7. QED
  BY <1>3, <1>6 DEF Between

LEMMA KeptType ==
  ASSUME NEW T, NEW s \in Seq(T), NEW I
  PROVE  Kept(s, I) \in Seq(T)
<1>1. Len(s) \in 0 .. Len(s)
  OBVIOUS
<1>2. QED
  BY <1>1, KeptToSize DEF Kept

LEMMA SelectedType ==
  ASSUME NEW u \in DataUnit, u.fn \in {1, 2, 3}, Len(u.arg) = 2
  PROVE  /\ Selected(u) \in Seq(Record)
         /\ Granted(u) \in Nat /\ Granted(u) <= Len(Selected(u))
<1>1. u.arg[1] \in Nat /\ u.arg[2] \in Nat
  BY DEF DataUnit
<1>2. Rows \in Seq(Record) /\ Ordinary \in Seq(Record)
  BY DispatcherAssumption
<1>3. /\ Between(Rows, u.arg[1], u.arg[2]) \in Seq(Record)
      /\ Between(Ordinary, u.arg[1], u.arg[2]) \in Seq(Record)
  BY <1>1, <1>2, BetweenType
<1>4. OfKind(Rows, u.arg[1]) \in Seq(Record) /\ OfKind(Ordinary, u.arg[1]) \in Seq(Record)
  BY <1>2, KeptType DEF OfKind
<1>5. OfKind(Rows, u.arg[1]) \o OfKind(Ordinary, u.arg[1]) \in Seq(Record)
  BY <1>4, ConcatProperties
<1>6. Selected(u) \in Seq(Record)
  BY <1>3, <1>5 DEF Selected
<1>7. Len(Selected(u)) \in Nat
  BY <1>6, LenProperties
<1>8. QED
  BY <1>1, <1>6, <1>7 DEF Granted, Upto

(* A unit that asks for events has its two numbers.                         *)
LEMMA EventUnit ==
  ASSUME TypeInv, NEW c \in Channel, PhaseInv(c), pc[c] # "idle", req[c].afn = "0E",
         req[c].units # <<>>, req[c].units[1].fn \in {1, 2, 3}
  PROVE  req[c].units[1] \in DataUnit /\ Len(req[c].units[1].arg) = 2
<1>1. req[c] \in Asked[c] /\ req[c].units \in Seq(DataUnit)
  BY RequestType
<1>2. 1 \in 1 .. Len(req[c].units) /\ DOMAIN req[c].units = 1 .. Len(req[c].units)
  BY <1>1, EmptySeq
<1>3. Len(req[c].units[1].arg) = 2
  BY <1>1, <1>2, DispatcherAssumption
<1>4. QED
  BY <1>1, <1>2, <1>3, ElementOfSeq

LEMMA FetchedUnit ==
  ASSUME TypeInv, NEW c \in Channel, PhaseInv(c), EventInv(c), Fetch(c)
  PROVE  /\ at[c] = 0 /\ req[c].afn = "0E" /\ pc[c] = "unit" /\ req[c].units # <<>>
         /\ Unit(c) = req[c].units[1] /\ Unit(c).fn \in {1, 2, 3} /\ Unit(c) \in DataUnit
         /\ Selected(Unit(c)) \in Seq(Record)
         /\ Granted(Unit(c)) \in Nat /\ Granted(Unit(c)) <= Len(Selected(Unit(c)))
<1>1. /\ pc[c] = "unit" /\ req[c].afn = "0E" /\ at[c] < UnitCount(req[c])
      /\ Unit(c).fn \in {1, 2, 3}
  BY DEF Fetch, Taking
<1>2. at[c] \in Nat /\ req[c].units \in Seq(DataUnit) /\ Len(req[c].units) \in Nat
  BY <1>1, RequestType DEF TypeInv
<1>3. UnitCount(req[c]) = Len(req[c].units)
  BY <1>1 DEF UnitCount
<1>4. at[c] = 0
  <2>1. ASSUME at[c] # 0 PROVE FALSE
    <3>1. at[c] + 1 > 1
      BY <1>2, <2>1
    <3>2. Misread(req[c], at[c] + 1)
      BY <1>1, <3>1 DEF Misread
    <3>3. Unit(c) = Unreadable
      BY <3>2 DEF Unit
    <3>4. QED
      BY <1>1, <3>3 DEF Unreadable
  <2>2. QED
    BY <2>1
<1>5. ~Misread(req[c], at[c] + 1)
  BY <1>4 DEF Misread
<1>6. Unit(c) = req[c].units[1] /\ req[c].units # <<>>
  BY <1>1, <1>2, <1>3, <1>4, <1>5, EmptySeq DEF Unit, UnitAt
<1>7. Unit(c) \in DataUnit /\ Len(Unit(c).arg) = 2
  BY <1>1, <1>6, EventUnit
<1>8. QED
  BY <1>1, <1>4, <1>6, <1>7, SelectedType

LEMMA TearsTypes ==
  ASSUME TypeInv, NEW c
  PROVE  Tears(c) \in [Channel -> Did]
<1>1. did \in [Channel -> Did]
  BY DEF TypeInv
<1>2. \A d \in Channel : [did[d] EXCEPT !.torn = TRUE] \in Did
  BY <1>1 DEF Did
<1>3. QED
  BY <1>1, <1>2 DEF Tears

LEMMA FetchTypes ==
  ASSUME TypeInv, NEW c \in Channel, PhaseInv(c), EventInv(c), Fetch(c)
  PROVE  TypeInv'
<1> DEFINE O == [body : Seq(Record), row : Nat, sum : Nat \cup {-1}, frames : Nat]
           u == Unit(c)
<1>1. Selected(u) \in Seq(Record) /\ Granted(u) \in Nat
  BY FetchedUnit
<1>2. \/ EventBuf' = Selected(u) \/ EventBuf' = EventBuf \/ EventBuf' = <<>>
  BY DEF Fetch
<1>3. \/ out' = [out EXCEPT ![c] = [NoOut EXCEPT !.sum = Granted(u)]]
      \/ out' = [out EXCEPT ![c] = [NoOut EXCEPT !.sum = -1]]
  BY DEF Fetch
<1>4. \/ did' = Tears(c)
      \/ did' = [did EXCEPT ![c] = [did[c] EXCEPT !.failed = TRUE]]
      \/ did' = [Tears(c) EXCEPT ![c] = [Tears(c)[c] EXCEPT !.failed = TRUE]]
  BY DEF Fetch
<1>5. pc' = [pc EXCEPT ![c] = "rows"] /\ UNCHANGED <<req, at, bad, ack, seq, sent>>
  BY DEF Fetch
<1> HIDE DEF u
<1>6. EventBuf' \in Seq(Record)
  <2>1. EventBuf \in Seq(Record) /\ <<>> \in Seq(Record)
    BY DEF TypeInv
  <2>2. QED
    BY <1>1, <1>2, <2>1
<1>7. out' \in [Channel -> O]
  <2>1. out \in [Channel -> O]
    BY DEF TypeInv
  <2>2. [NoOut EXCEPT !.sum = Granted(u)] \in O /\ [NoOut EXCEPT !.sum = -1] \in O
    BY <1>1, EmptySeq DEF NoOut
  <2> HIDE DEF O
  <2>3. QED
    BY <1>3, <2>1, <2>2
<1>8. did' \in [Channel -> Did]
  <2>1. did \in [Channel -> Did] /\ Tears(c) \in [Channel -> Did]
    BY TearsTypes DEF TypeInv
  <2>2. /\ [did[c] EXCEPT !.failed = TRUE] \in Did
        /\ [Tears(c)[c] EXCEPT !.failed = TRUE] \in Did
    BY <2>1 DEF Did
  <2>3. QED
    BY <1>4, <2>1, <2>2
<1>9. pc' \in [Channel -> {"idle", "unit", "rows", "answer"}]
  BY <1>5 DEF TypeInv
<1>10. QED
  BY <1>5, <1>6, <1>7, <1>8, <1>9 DEF TypeInv

LEMMA NextSeqType ==
  ASSUME TypeInv, NEW c \in Channel
  PROVE  NextSeq(c) \in 0 .. SeqNumbers - 1
<1>1. seq[c] \in 0 .. SeqNumbers - 1 /\ SeqNumbers \in Nat \ {0}
  BY DispatcherAssumption DEF TypeInv
<1>2. seq[c] + 1 \in Nat
  BY <1>1
<1>3. (seq[c] + 1) % SeqNumbers \in 0 .. SeqNumbers - 1
  BY <1>1, <1>2
<1>4. QED
  BY <1>1, <1>3 DEF NextSeq

LEMMA EmitTypes ==
  ASSUME TypeInv, NEW c \in Channel, NEW fin \in BOOLEAN, Emit(c, fin)
  PROVE  /\ sent' \in [Channel -> Seq(FrameType)]
         /\ did' \in [Channel -> Did]
         /\ seq' \in [Channel -> 0 .. SeqNumbers - 1]
<1> DEFINE f == Frame("events", NextSeq(c), out[c].frames = 0, fin, out[c].body)
<1>1. out[c].body \in Seq(Record)
  BY DEF TypeInv
<1>2. NextSeq(c) \in 0 .. SeqNumbers - 1
  BY NextSeqType
<1>3. f \in FrameType
  <2>1. out[c].body \in Seq(Record) \cup Seq(Cell) \cup Seq(Result)
    BY <1>1
  <2>2. (out[c].frames = 0) \in BOOLEAN /\ "events" \in Kind
    BY DEF Kind
  <2>3. QED
    BY <1>2, <2>1, <2>2, FrameIsTyped
<1>4. Send(c, f) /\ seq' = [seq EXCEPT ![c] = NextSeq(c)]
  BY DEF Emit
<1> HIDE DEF f
<1>5. sent' \in [Channel -> Seq(FrameType)] /\ did' \in [Channel -> Did]
  BY <1>3, <1>4, SendTypes
<1>6. QED
  BY <1>2, <1>4, <1>5 DEF TypeInv

(* The row that comes next: one, or none when EventBuf has no more.         *)
LEMMA NextRowType ==
  ASSUME TypeInv, NEW c \in Channel
  PROVE  SubSeq(EventBuf, out[c].row + 1, Upto(out[c].row + 1, EventBuf)) \in Seq(Record)
<1>1. EventBuf \in Seq(Record) /\ Len(EventBuf) \in Nat /\ out[c].row \in Nat
  BY DEF TypeInv
<1>2. Upto(out[c].row + 1, EventBuf) \in Nat /\ Upto(out[c].row + 1, EventBuf) <= Len(EventBuf)
  BY <1>1 DEF Upto
<1>3. \A i \in 1 .. Len(EventBuf) : EventBuf[i] \in Record
  BY <1>1, ElementOfSeq
<1>4. QED
  BY <1>1, <1>2, <1>3, SubSeqProperties

LEMMA NextRowTypes ==
  ASSUME TypeInv, NEW c \in Channel, NextRow(c)
  PROVE  TypeInv'
<1> DEFINE O == [body : Seq(Record), row : Nat, sum : Nat \cup {-1}, frames : Nat]
           e == SubSeq(EventBuf, out[c].row + 1, Upto(out[c].row + 1, EventBuf))
           o1 == [body |-> Restarted(e), row |-> out[c].row + 1, sum |-> out[c].sum,
                  frames |-> out[c].frames + 1]
           o2 == [out[c] EXCEPT !.body = @ \o e, !.row = @ + 1]
<1>1. e \in Seq(Record)
  BY NextRowType
<1>2. \/ Emit(c, FALSE) /\ out' = [out EXCEPT ![c] = o1]
      \/ out' = [out EXCEPT ![c] = o2] /\ UNCHANGED <<sent, did, seq>>
  BY DEF NextRow
<1>3. UNCHANGED <<pc, req, at, bad, ack, EventBuf, clock>>
  BY DEF NextRow
<1>4. out \in [Channel -> O] /\ out[c] \in O
  BY DEF TypeInv
<1> HIDE DEF e
<1>5. o1 \in O
  BY <1>1, <1>4 DEF Restarted
<1>6. o2 \in O
  <2>1. out[c].body \o e \in Seq(Record)
    BY <1>1, <1>4, ConcatProperties
  <2>2. out[c].row + 1 \in Nat
    BY <1>4
  <2>3. QED
    BY <1>4, <2>1, <2>2
<1> HIDE DEF o1, o2, O
<1>7. out' \in [Channel -> O]
  BY <1>2, <1>4, <1>5, <1>6
<1>8. /\ sent' \in [Channel -> Seq(FrameType)] /\ did' \in [Channel -> Did]
      /\ seq' \in [Channel -> 0 .. SeqNumbers - 1]
  <2>1. CASE Emit(c, FALSE)
    BY <2>1, EmitTypes
  <2>2. CASE UNCHANGED <<sent, did, seq>>
    BY <2>2 DEF TypeInv
  <2>3. QED
    BY <1>2, <2>1, <2>2
<1>9. QED
  BY <1>3, <1>7, <1>8 DEF TypeInv, O

LEMMA LastFrameTypes ==
  ASSUME TypeInv, NEW c \in Channel, LastFrame(c)
  PROVE  TypeInv'
<1>1. /\ Emit(c, TRUE) /\ at' = [at EXCEPT ![c] = at[c] + 1]
      /\ pc' = [pc EXCEPT ![c] = "unit"]
      /\ UNCHANGED <<req, bad, ack, out, EventBuf, clock>>
  BY DEF LastFrame
<1>2. /\ sent' \in [Channel -> Seq(FrameType)] /\ did' \in [Channel -> Did]
      /\ seq' \in [Channel -> 0 .. SeqNumbers - 1]
  BY <1>1, EmitTypes
<1>3. at' \in [Channel -> Nat]
  <2>1. at \in [Channel -> Nat]
    BY DEF TypeInv
  <2>2. QED
    BY <1>1, <2>1
<1>4. pc' \in [Channel -> {"idle", "unit", "rows", "answer"}]
  BY <1>1 DEF TypeInv
<1>5. QED
  BY <1>1, <1>2, <1>3, <1>4 DEF TypeInv

LEMMA ContentType ==
  ASSUME NEW b, IsAck(b)
  PROVE  Content(b) \in Seq(Cell) /\ Len(Content(b)) = b.len
<1>1. b.len \in Nat /\ Blank \in Cell
  BY DEF IsAck, Blank, Cell
<1> DEFINE e(i) == IF i - 1 \in DOMAIN b.cell THEN b.cell[i - 1] ELSE Blank
<1>2. \A i \in 1 .. b.len : e(i) \in Cell
  BY <1>1 DEF IsAck
<1>3. Content(b) = [i \in 1 .. b.len |-> e(i)]
  BY DEF Content
<1> HIDE DEF e
<1>4. QED
  BY <1>1, <1>2, <1>3

LEMMA ResultsType ==
  ASSUME TypeInv, NEW c \in Channel, PhaseInv(c), pc[c] = "answer", req[c].afn = "05"
  PROVE  Results(c) \in Seq(Result) /\ Len(Results(c)) = at[c]
<1>1. /\ req[c].units \in Seq(DataUnit) /\ at[c] <= UnitCount(req[c]) /\ Len(req[c].units) \in Nat
  BY RequestType
<1>2. at[c] \in Nat /\ at[c] <= Len(req[c].units) /\ bad[c] \in BOOLEAN
  BY <1>1 DEF UnitCount, TypeInv
<1>3. \A i \in 1 .. at[c] : req[c].units[i] \in DataUnit
  BY <1>1, <1>2, ElementOfSeq
<1>4. \A i \in 1 .. at[c] : [unit |-> req[c].units[i], ok |-> ~(bad[c] /\ i = at[c])] \in Result
  BY <1>3 DEF Result
<1>5. QED
  BY <1>2, <1>4 DEF Results

(* The one frame that Answer sends, if any.                                 *)
ControlFrame(c) ==
  LET type == IF AllFailed(at[c], bad[c]) THEN "all_err" ELSE "part" IN
    Frame(type, seq[c], TRUE, TRUE, IF type = "part" THEN Results(c) ELSE <<>>)
Refusal(c) == Frame("all_err", seq[c], TRUE, TRUE, <<>>)
DataFrame(c) == Frame("data", seq[c], TRUE, TRUE, Content(ack[c]))

LEMMA AnswerFrames ==
  ASSUME TypeInv, NEW c \in Channel, PhaseInv(c), Answer(c)
  PROVE  /\ req[c].afn = "05" =>
              IF Muted(c) THEN UNCHANGED <<sent, did>>
              ELSE Send(c, ControlFrame(c)) /\ ControlFrame(c) \in FrameType
         /\ req[c].afn \in {"09", "0A", "0C", "0E"} =>
              IF Refused(c) THEN Send(c, Refusal(c)) ELSE
              IF req[c].afn = "0E" THEN UNCHANGED <<sent, did>> ELSE Send(c, DataFrame(c))
         /\ Refusal(c) \in FrameType /\ DataFrame(c) \in FrameType
         /\ req[c].afn \in {"05", "09", "0A", "0C", "0E"}
<1>1. seq[c] \in 0 .. SeqNumbers - 1 /\ IsAck(ack[c]) /\ pc[c] = "answer"
  BY DEF TypeInv, Answer
<1>2. /\ <<>> \in Seq(Record) \cup Seq(Cell) \cup Seq(Result)
      /\ Content(ack[c]) \in Seq(Record) \cup Seq(Cell) \cup Seq(Result)
  BY <1>1, ContentType
<1>3. "all_err" \in Kind /\ "data" \in Kind /\ "part" \in Kind
  BY DEF Kind
<1>4. Refusal(c) \in FrameType /\ DataFrame(c) \in FrameType
  BY <1>1, <1>2, <1>3, FrameIsTyped DEF Refusal, DataFrame
<1>5. req[c].afn \in {"05", "09", "0A", "0C", "0E"}
  BY <1>1, RequestType DEF Served
<1>6. req[c].afn = "05" => ControlFrame(c) \in FrameType
  <2> SUFFICES ASSUME req[c].afn = "05" PROVE ControlFrame(c) \in FrameType
    OBVIOUS
  <2>1. Results(c) \in Seq(Record) \cup Seq(Cell) \cup Seq(Result)
    BY <1>1, ResultsType
  <2>2. QED
    BY <1>1, <1>2, <1>3, <2>1, FrameIsTyped DEF ControlFrame
<1>7. IF req[c].afn = "05" THEN AnswerControl(c) ELSE AnswerData(c)
  BY DEF Answer
<1>8. QED
  BY <1>4, <1>5, <1>6, <1>7 DEF AnswerControl, AnswerData, ControlFrame, Refusal, DataFrame

LEMMA AnswerTypes ==
  ASSUME TypeInv, NEW c \in Channel, PhaseInv(c), Answer(c)
  PROVE  TypeInv'
<1>1. /\ pc' = [pc EXCEPT ![c] = "idle"] /\ ack' = [ack EXCEPT ![c] = NoAck]
      /\ out' = [out EXCEPT ![c] = NoOut]
      /\ UNCHANGED <<req, at, bad, seq, EventBuf, clock>>
  BY DEF Answer
<1>2. sent' \in [Channel -> Seq(FrameType)] /\ did' \in [Channel -> Did]
  <2>1. CASE UNCHANGED <<sent, did>>
    BY <2>1 DEF TypeInv
  <2>2. CASE Send(c, ControlFrame(c)) /\ ControlFrame(c) \in FrameType
    BY <2>2, SendTypes
  <2>3. CASE Send(c, Refusal(c)) /\ Refusal(c) \in FrameType
    BY <2>3, SendTypes
  <2>4. CASE Send(c, DataFrame(c)) /\ DataFrame(c) \in FrameType
    BY <2>4, SendTypes
  <2>5. QED
    BY <2>1, <2>2, <2>3, <2>4, AnswerFrames
<1>3. IsAck(NoAck)
  BY DEF NoAck, IsAck
<1>4. DOMAIN ack' = Channel /\ \A d \in Channel : IsAck(ack'[d])
  BY <1>1, <1>3, AckStepTypes
<1>5. out' \in [Channel -> [body : Seq(Record), row : Nat, sum : Nat \cup {-1}, frames : Nat]]
  <2>1. NoOut \in [body : Seq(Record), row : Nat, sum : Nat \cup {-1}, frames : Nat]
    BY EmptySeq DEF NoOut
  <2>2. out \in [Channel -> [body : Seq(Record), row : Nat, sum : Nat \cup {-1}, frames : Nat]]
    BY DEF TypeInv
  <2>3. QED
    BY <1>1, <2>1, <2>2
<1>6. pc' \in [Channel -> {"idle", "unit", "rows", "answer"}]
  BY <1>1 DEF TypeInv
<1>7. QED
  BY <1>1, <1>2, <1>4, <1>5, <1>6 DEF TypeInv

LEMMA ReportFetchKeeps ==
  ASSUME TypeInv, ReportFetch
  PROVE  TypeInv' /\ \A c \in Channel : Same(c)
<1>1. /\ did' = Tears(None) /\ UNCHANGED <<pc, locals, clock>>
      /\ \E i \in Flagged : EventBuf' = <<Rows[i]>>
  BY DEF ReportFetch
<1>2. EventBuf' \in Seq(Record)
  <2>1. PICK i \in Flagged : EventBuf' = <<Rows[i]>>
    BY <1>1
  <2>2. i \in DOMAIN Rows /\ Rows \in Seq(Record)
    BY DispatcherAssumption
  <2>3. Rows[i] \in Record
    BY <2>2, ElementOfSeq
  <2>4. QED
    BY <2>1, <2>3
<1>3. did' \in [Channel -> Did]
  BY <1>1, TearsTypes
<1>4. TypeInv'
  BY <1>1, <1>2, <1>3 DEF TypeInv, locals
<1>5. ASSUME NEW c \in Channel
      PROVE  Same(c)
  <2>1. c # None
    BY DispatcherAssumption
  <2>2. did'[c] = IF Copying(c) THEN [did[c] EXCEPT !.torn = TRUE] ELSE did[c]
    BY <1>1, <2>1 DEF Tears
  <2>3. [did[c] EXCEPT !.torn = TRUE].torn
    BY DEF TypeInv, Did
  <2>4. QED
    BY <1>1, <2>2, <2>3 DEF Same, locals
<1>6. QED
  BY <1>4, <1>5

LEMMA StepTypes ==
  ASSUME TypeInv, NEW c \in Channel, PhaseInv(c), EventInv(c), ParseData(c) \/ Handle(c)
  PROVE  TypeInv'
BY ParseDataTypes, AFN_05HTypes, AFN_09HTypes, AFN_0AHTypes, AFN_0CHTypes, NoMoreUnitsTypes,
   FetchTypes, AFN_0EH_failsTypes, NextRowTypes, LastFrameTypes, AnswerTypes DEF Handle

--------------------------------------------------------------------------------
(* Counting on modulo N.                                                    *)
LEMMA ModUnique ==
  ASSUME NEW N \in Nat \ {0}, NEW q \in Int, NEW r \in 0 .. N - 1, NEW p \in Int, NEW s \in 0 .. N - 1,
         N * q + r = N * p + s
  PROVE  q = p /\ r = s
<1>1. N * (q - p) = s - r
  OBVIOUS
<1>2. PICK d \in Int : d = q - p
  OBVIOUS
<1>3. N * d = s - r
  BY <1>1, <1>2
<1>4. ~ (d >= 1)
  <2> SUFFICES ASSUME d >= 1 PROVE FALSE
    OBVIOUS
  <2>1. N * d >= N
    OBVIOUS
  <2>2. QED
    BY <1>3, <2>1
<1>5. ~ (d <= -1)
  <2> SUFFICES ASSUME d <= -1 PROVE FALSE
    OBVIOUS
  <2>1. N * d <= -N
    OBVIOUS
  <2>2. QED
    BY <1>3, <2>1
<1>6. d = 0
  BY <1>4, <1>5
<1>7. q = p
  BY <1>2, <1>6
<1>8. N * d = 0
  BY <1>6
<1>9. QED
  BY <1>3, <1>7, <1>8

LEMMA ModNext ==
  ASSUME NEW N \in Nat \ {0}, NEW a \in Nat
  PROVE  ((a % N) + 1) % N = (a + 1) % N
<1>1. /\ a = N * (a \div N) + (a % N) /\ a % N \in 0 .. N - 1 /\ a \div N \in Int
      /\ a + 1 = N * ((a + 1) \div N) + ((a + 1) % N)
      /\ (a + 1) % N \in 0 .. N - 1 /\ (a + 1) \div N \in Int
  OBVIOUS
<1>2. PICK x \in Nat : x = (a % N) + 1
  <2>1. (a % N) + 1 \in Nat
    BY <1>1
  <2>2. QED
    BY <2>1
<1>3. /\ x = N * (x \div N) + (x % N) /\ x % N \in 0 .. N - 1 /\ x \div N \in Int
  BY <1>2
<1>4. PICK p \in Int : p = a \div N + x \div N
  BY <1>1, <1>3
<1>5. N * p + (x % N) = a + 1
  <2>1. N * p = N * (a \div N) + N * (x \div N)
    BY <1>1, <1>3, <1>4
  <2>2. QED
    BY <1>1, <1>2, <1>3, <2>1
<1>6. (a + 1) % N = x % N
  <2>1. PICK r \in 0 .. N - 1 : r = x % N
    BY <1>3
  <2>2. PICK t \in 0 .. N - 1 : t = (a + 1) % N
    BY <1>1
  <2>3. PICK d \in Int : d = (a + 1) \div N
    BY <1>1
  <2>4. N * p + r = N * d + t
    BY <1>1, <1>5, <2>1, <2>2, <2>3
  <2>5. r = t
    BY <2>4, ModUnique
  <2>6. QED
    BY <2>1, <2>2, <2>5
<1>7. QED
  BY <1>2, <1>6

LEMMA ModSmall ==
  ASSUME NEW N \in Nat \ {0}, NEW q \in 0 .. N - 1
  PROVE  q % N = q
<1>1. q = N * (q \div N) + (q % N) /\ q % N \in 0 .. N - 1 /\ q \div N \in Int
  OBVIOUS
<1>2. PICK r \in 0 .. N - 1 : r = q % N
  BY <1>1
<1>3. PICK d \in Int : d = q \div N
  BY <1>1
<1>4. N * 0 + q = N * d + r
  BY <1>1, <1>2, <1>3
<1>5. q = r
  BY <1>4, ModUnique
<1>6. QED
  BY <1>2, <1>5

(* What a station reads of ACKbuf once more was written at its end.         *)
LEMMA ContentGrows ==
  ASSUME NEW b, IsAck(b), NEW w, IsAck(w), NEW s \in Seq(Cell),
         w.len = b.len + Len(s),
         \A i \in Nat : IF b.len <= i /\ i < b.len + Len(s)
                        THEN i \in DOMAIN w.cell /\ w.cell[i] = s[i - b.len + 1]
                        ELSE /\ i \in DOMAIN w.cell <=> i \in DOMAIN b.cell
                             /\ i \in DOMAIN b.cell => w.cell[i] = b.cell[i]
  PROVE  Content(w) = Content(b) \o s
<1>1. /\ Content(w) \in Seq(Cell) /\ Len(Content(w)) = b.len + Len(s)
      /\ Content(b) \in Seq(Cell) /\ Len(Content(b)) = b.len
      /\ Len(s) \in Nat /\ b.len \in Nat
  BY ContentType, LenProperties DEF IsAck
<1>2. /\ Content(b) \o s \in Seq(Cell) /\ Len(Content(b) \o s) = b.len + Len(s)
      /\ \A i \in 1 .. b.len + Len(s) :
           (Content(b) \o s)[i] = IF i <= b.len THEN Content(b)[i] ELSE s[i - b.len]
  BY <1>1, ConcatProperties
<1>3. \A i \in 1 .. b.len : Content(b)[i] = IF i - 1 \in DOMAIN b.cell THEN b.cell[i - 1] ELSE Blank
  BY DEF Content
<1>4. \A i \in 1 .. b.len + Len(s) :
        Content(w)[i] = IF i - 1 \in DOMAIN w.cell THEN w.cell[i - 1] ELSE Blank
  BY DEF Content
<1>5. ASSUME NEW i \in 1 .. b.len + Len(s)
      PROVE  Content(w)[i] = (Content(b) \o s)[i]
  <2>1. PICK j \in Nat : j = i - 1
    BY <1>1
  <2>2. CASE i <= b.len
    <3>1. j \in DOMAIN w.cell <=> j \in DOMAIN b.cell
      BY <1>1, <2>1, <2>2
    <3>2. j \in DOMAIN b.cell => w.cell[j] = b.cell[j]
      BY <1>1, <2>1, <2>2
    <3>3. Content(w)[i] = IF j \in DOMAIN w.cell THEN w.cell[j] ELSE Blank
      BY <1>4, <2>1
    <3>4. Content(b)[i] = IF j \in DOMAIN b.cell THEN b.cell[j] ELSE Blank
      BY <1>1, <1>3, <2>1, <2>2
    <3>5. QED
      BY <1>2, <2>2, <3>1, <3>2, <3>3, <3>4
  <2>3. CASE i > b.len
    <3>1. b.len <= j /\ j < b.len + Len(s) /\ j - b.len + 1 = i - b.len
      BY <1>1, <2>1, <2>3
    <3>2. j \in DOMAIN w.cell /\ w.cell[j] = s[j - b.len + 1]
      BY <3>1
    <3>3. Content(w)[i] = w.cell[j]
      BY <1>4, <2>1, <3>2
    <3>4. (Content(b) \o s)[i] = s[i - b.len]
      BY <1>1, <1>2, <2>3
    <3>5. QED
      BY <3>1, <3>2, <3>3, <3>4
  <2>4. QED
    BY <1>1, <2>2, <2>3
<1>6. QED
  BY <1>1, <1>2, <1>5, SeqEqual

(* Units that worked, and their cells one after the other.                  *)
PairOf(u) == <<Di(u.fn), Data(u.fn)>>

LEMMA PairsAppend ==
  ASSUME NEW w \in Seq(DataUnit), NEW u \in DataUnit
  PROVE  Pairs(Append(w, u)) = Pairs(w) \o PairOf(u)
<1> DEFINE ps == [i \in 1 .. Len(w) |-> PairOf(w[i])]
           wu == Append(w, u)
           qs == [i \in 1 .. Len(wu) |-> PairOf(wu[i])]
<1>1. \A x \in DataUnit : PairOf(x) \in Seq(Cell)
  BY AnsweredType DEF PairOf
<1>2. /\ Len(w) \in Nat /\ \A i \in 1 .. Len(w) : w[i] \in DataUnit
      /\ Len(wu) = Len(w) + 1 /\ wu[Len(w) + 1] = u /\ \A i \in 1 .. Len(w) : wu[i] = w[i]
  BY AppendProperties, ElementOfSeq
<1> HIDE DEF wu
<1>3. ps \in Seq(Seq(Cell)) /\ Len(ps) = Len(w)
  BY <1>1, <1>2
<1>4. qs = Append(ps, PairOf(u))
  BY <1>1, <1>2
<1> HIDE DEF ps, qs
<1>5. FlattenSeq(qs) = FlattenSeq(ps) \o PairOf(u)
  BY <1>1, <1>3, <1>4, FlattenAppend
<1>6. QED
  BY <1>5 DEF Pairs, PairOf, ps, qs, wu

LEMMA PairsEmpty == Pairs(<<>>) = <<>>
<1>1. Len([i \in 1 .. 0 |-> PairOf(<<>>[i])]) = 0 /\ [i \in 1 .. 0 |-> PairOf(<<>>[i])] = <<>>
  OBVIOUS
<1>2. Pairs(<<>>) = FlattenSeq([i \in 1 .. 0 |-> PairOf(<<>>[i])])
  BY DEF Pairs, PairOf
<1>3. QED
  BY <1>1, <1>2, FlattenIsFlat

(* One frame more at the end of those sent.                                 *)
LEMMA BodiesAppend ==
  ASSUME NEW fs \in Seq(FrameType), NEW f \in FrameType, f.body \in Seq(Record),
         \A i \in 1 .. Len(fs) : fs[i].body \in Seq(Record)
  PROVE  /\ FlattenSeq(Bodies(Append(fs, f))) = FlattenSeq(Bodies(fs)) \o f.body
         /\ FlattenSeq(Bodies(fs)) \in Seq(Record)
         /\ \A i \in 1 .. Len(Append(fs, f)) : Append(fs, f)[i].body \in Seq(Record)
<1> DEFINE gs == Append(fs, f)
<1>1. /\ Len(fs) \in Nat
      /\ Len(gs) = Len(fs) + 1 /\ gs[Len(fs) + 1] = f /\ \A i \in 1 .. Len(fs) : gs[i] = fs[i]
  BY AppendProperties
<1> HIDE DEF gs
<1>2. Bodies(fs) \in Seq(Seq(Record)) /\ Len(Bodies(fs)) = Len(fs)
  BY <1>1 DEF Bodies
<1>3. Bodies(gs) = Append(Bodies(fs), f.body)
  BY <1>1, <1>2 DEF Bodies
<1>4. FlattenSeq(Bodies(gs)) = FlattenSeq(Bodies(fs)) \o f.body
  BY <1>2, <1>3, FlattenAppend
<1>5. FlattenSeq(Bodies(fs)) \in Seq(Record)
  BY <1>2, FlattenType
<1>6. \A i \in 1 .. Len(gs) : gs[i].body \in Seq(Record)
  BY <1>1
<1>7. QED
  BY <1>4, <1>5, <1>6 DEF gs

LEMMA BodiesEmpty ==
  ASSUME NEW fs, fs = <<>>
  PROVE  FlattenSeq(Bodies(fs)) = <<>>
<1>1. Bodies(<<>>) = <<>> /\ Len(Bodies(<<>>)) = 0
  BY DEF Bodies
<1>2. QED
  BY <1>1, FlattenIsFlat

--------------------------------------------------------------------------------
(* A request arrives.                                                       *)
LEMMA ParseDataKeeps ==
  ASSUME TypeInv, NEW c \in Channel, ChannelInv(c), ParseData(c)
  PROVE  ChannelInv(c)'
<1>1. PICK r \in Asked[c] : /\ req' = [req EXCEPT ![c] = r]
                            /\ seq' = [seq EXCEPT ![c] = r.seq]
                            /\ pc' = [pc EXCEPT ![c] = IF Mine(r) /\ Served(r) THEN "unit" ELSE "idle"]
  BY DEF ParseData
<1>2. r \in Request /\ r # None /\ r.units \in Seq(DataUnit) /\ Len(r.units) \in Nat
  BY <1>1, DispatcherAssumption DEF Request
<1>3. /\ at' = [at EXCEPT ![c] = 0] /\ bad' = [bad EXCEPT ![c] = FALSE]
      /\ sent' = [sent EXCEPT ![c] = <<>>] /\ did' = [did EXCEPT ![c] = Nothing]
      /\ UNCHANGED <<ack, out, EventBuf, clock>> /\ pc[c] = "idle"
  BY DEF ParseData
<1>4. /\ req'[c] = r /\ seq'[c] = r.seq /\ at'[c] = 0 /\ bad'[c] = FALSE /\ sent'[c] = <<>>
      /\ did'[c] = Nothing /\ ack'[c] = ack[c] /\ out'[c] = out[c]
      /\ pc'[c] = IF Mine(r) /\ Served(r) THEN "unit" ELSE "idle"
  BY <1>1, <1>3 DEF TypeInv
<1>5. ack'[c] = NoAck /\ out'[c] = NoOut
  BY <1>3, <1>4 DEF ChannelInv, PhaseInv
<1>6. UnitCount(r) \in Nat /\ 0 <= UnitCount(r)
  BY <1>2 DEF UnitCount
<1>7. PhaseInv(c)'
  BY <1>2, <1>4, <1>5, <1>6 DEF PhaseInv, Nothing
<1>8. EventInv(c)'
  BY <1>4 DEF EventInv, Numbered, Nothing
<1>9. CopyInv(c)'
  BY <1>4 DEF CopyInv
<1>10. ControlInv(c)'
  BY <1>4 DEF ControlInv, Nothing
<1>11. DataInv(c)'
  <2>1. Taken(c)' = 0
    BY <1>2, <1>4 DEF Taken
  <2>2. WorkedOf(c)' = <<>>
    <3>1. 0 \in 0 .. Len(r.units)
      BY <1>2
    <3>2. KeptTo(r.units, WorkingAt(r))[0] = <<>>
      BY <1>2, <3>1, KeptToStep
    <3>3. QED
      BY <1>4, <2>1, <3>2 DEF WorkedOf
  <2>3. Content(NoAck) = <<>> /\ NoAck.len = 0 /\ NoAck.pos = 0
    BY DEF Content, NoAck
  <2>4. QED
    BY <1>4, <1>5, <2>2, <2>3, PairsEmpty DEF DataInv
<1>12. AnswerInv(c)'
  <2> SUFFICES ASSUME pc'[c] = "idle"
               PROVE  (InOrder(c) /\ Whole(c) /\ AnsweredAsPromised(c) /\ AnsweredOnce(c)
                       /\ ToldTruly(c))'
    BY DEF AnswerInv
  <2>1. ~ (Mine(r) /\ Served(r))
    BY <1>4
  <2>2. ~ Addressed(c)'
    BY <1>4, <2>1 DEF Addressed
  <2>3. EventFrames(c)' = {}
    BY <1>4 DEF EventFrames
  <2>4. InOrder(c)'
    BY <2>3 DEF InOrder
  <2>5. (Whole(c) /\ AnsweredAsPromised(c) /\ AnsweredOnce(c) /\ ToldTruly(c))'
    BY <1>4, <2>2 DEF Whole, AnsweredAsPromised, AnsweredOnce, ToldTruly
  <2>6. QED
    BY <2>4, <2>5
<1>13. QED
  BY <1>7, <1>8, <1>9, <1>10, <1>11, <1>12 DEF ChannelInv

--------------------------------------------------------------------------------
(* A step of a loop over the units: what it keeps whatever the AFN.         *)
UnitStep(c) ==
  /\ pc[c] = "unit" /\ at[c] < UnitCount(req[c])
  /\ Advance(c) \/ Fail(c)
  /\ UNCHANGED <<req, out, seq, sent, EventBuf>>

LEMMA UnitStepLocal ==
  ASSUME TypeInv, NEW c \in Channel, UnitStep(c)
  PROVE  /\ req'[c] = req[c] /\ out'[c] = out[c] /\ seq'[c] = seq[c] /\ sent'[c] = sent[c]
         /\ at[c] \in Nat /\ at'[c] = at[c] + 1
         /\ \/ pc'[c] = "unit" /\ bad'[c] = bad[c] /\ Advance(c)
            \/ pc'[c] = "answer" /\ bad'[c] /\ Fail(c)
<1>1. at[c] \in Nat /\ at'[c] = at[c] + 1
  BY DEF TypeInv, UnitStep, Advance, Fail
<1>2. \/ pc'[c] = "unit" /\ bad'[c] = bad[c] /\ Advance(c)
      \/ pc'[c] = "answer" /\ bad'[c] /\ Fail(c)
  BY DEF TypeInv, UnitStep, Advance, Fail
<1>3. QED
  BY <1>1, <1>2 DEF UnitStep

LEMMA UnitStepKeeps ==
  ASSUME TypeInv, NEW c \in Channel, ChannelInv(c), UnitStep(c),
         did'[c].dropped = did[c].dropped, req[c].afn = "0E" => UNCHANGED <<ack, did>>
  PROVE  /\ PhaseInv(c)' /\ AnswerInv(c)'
         /\ req[c].afn # "0E" => EventInv(c)' /\ CopyInv(c)'
         /\ req[c].afn # "05" => ControlInv(c)'
         /\ req[c].afn \notin {"09", "0A", "0C"} => DataInv(c)'
<1>1. /\ req'[c] = req[c] /\ out'[c] = out[c] /\ seq'[c] = seq[c] /\ sent'[c] = sent[c]
      /\ at[c] \in Nat /\ at'[c] = at[c] + 1
      /\ \/ pc'[c] = "unit" /\ bad'[c] = bad[c]
         \/ pc'[c] = "answer" /\ bad'[c]
  BY UnitStepLocal
<1>2. PhaseInv(c) /\ pc[c] = "unit" /\ at[c] < UnitCount(req[c])
  BY DEF ChannelInv, UnitStep
<1>3. UnitCount(req[c]) \in Nat
  BY <1>2, RequestType DEF UnitCount
<1>4. at'[c] <= UnitCount(req[c]) /\ at'[c] >= 1
  BY <1>1, <1>2, <1>3
<1>5. PhaseInv(c)'
  BY <1>1, <1>2, <1>4 DEF PhaseInv
<1>6. AnswerInv(c)'
  BY <1>1 DEF AnswerInv
<1>7. QED
  BY <1>1, <1>5, <1>6 DEF EventInv, CopyInv, ControlInv, DataInv

(* AFN 05.                                                                  *)
LEMMA AFN_05HKeeps ==
  ASSUME TypeInv, NEW c \in Channel, ChannelInv(c), AFN_05H(c)
  PROVE  ChannelInv(c)'
<1> DEFINE u == Unit(c)
           n == at[c] + 1
<1>1. /\ req[c].afn = "05" /\ pc[c] = "unit" /\ at[c] < UnitCount(req[c]) /\ UnitStep(c)
  BY DEF AFN_05H, Taking, UnitStep
<1>2. \/ did'[c] = did[c] /\ u.fn # 31 /\ (Advance(c) \/ Fail(c))
      \/ did'[c] = did[c] /\ Fail(c)
      \/ did'[c].clock /\ did'[c].dropped = did[c].dropped /\ did'[c].failed = did[c].failed
           /\ u.fn = 31 /\ Advance(c)
      \/ did'[c].failed /\ did'[c].dropped = did[c].dropped
  <2>1. did \in [Channel -> Did] /\ did[c] \in Did
    BY DEF TypeInv
  <2>2. CASE u.fn = 31 /\ u.pn = 0
    <3>1. SetClock(c, u) /\ Advance(c)
      BY <2>2 DEF AFN_05H
    <3>2. CASE CreateEvent41(c)
      BY <2>1, <2>2, <3>1, <3>2 DEF CreateEvent41, Did
    <3>3. CASE did' = [did EXCEPT ![c].failed = TRUE]
      BY <2>1, <3>3 DEF Did
    <3>4. QED
      BY <3>1, <3>2, <3>3 DEF SetClock
  <2>3. CASE ~(u.fn = 31 /\ u.pn = 0)
    <3>1. did' = did /\ (IF u.fn \in Accepted THEN Advance(c) ELSE Fail(c))
      BY <2>3 DEF AFN_05H
    <3>2. u.fn \in Accepted => u.fn # 31
      BY DEF Accepted
    <3>3. QED
      BY <3>1, <3>2
  <2>4. QED
    BY <2>2, <2>3
<1>3. /\ PhaseInv(c)' /\ AnswerInv(c)' /\ EventInv(c)' /\ CopyInv(c)' /\ DataInv(c)'
  BY <1>1, <1>2, UnitStepKeeps
<1>4. ControlInv(c)'
  <2>1. /\ at[c] \in Nat /\ at'[c] = n /\ req'[c] = req[c] /\ ~bad[c]
        /\ \/ Advance(c) /\ bad'[c] = FALSE
           \/ Fail(c) /\ bad'[c]
    BY <1>1, UnitStepLocal DEF ChannelInv, PhaseInv
  <2>2. u = req[c].units[n]
    <3>1. n <= Len(req[c].units)
      BY <1>1, <2>1, RequestType DEF UnitCount, ChannelInv
    <3>2. QED
      BY <1>1, <3>1 DEF Unit, Misread, UnitAt
  <2> HIDE DEF u
  <2>3. CASE did'[c].failed
    BY <2>3 DEF ControlInv
  <2>4. CASE ~did'[c].failed
    <3>1. ~did[c].failed
      BY <1>2, <2>4
    <3>2. did[c].clock = \E i \in 1 .. at[c] : req[c].units[i].fn = 31
      BY <1>1, <2>1, <3>1 DEF ChannelInv, ControlInv
    <3>3. did[c].clock \in BOOLEAN /\ did'[c].clock \in BOOLEAN
      BY AFN_05HTypes DEF TypeInv, Did
    <3>4. CASE Fail(c) /\ did'[c] = did[c]
      <4>1. bad'[c]
        BY <3>4 DEF Fail, TypeInv
      <4>2. (\E i \in 1 .. at[c] : req[c].units[i].fn = 31)
            <=> \E i \in 1 .. n : req[c].units[i].fn = 31 /\ ~(bad'[c] /\ i = n)
        BY <2>1, <4>1
      <4>3. QED
        BY <2>1, <3>2, <3>4, <4>2 DEF ControlInv
    <3>5. CASE Advance(c) /\ did'[c] = did[c] /\ u.fn # 31
      <4>1. ~bad'[c]
        BY <2>1, <3>5 DEF Advance
      <4>2. (\E i \in 1 .. at[c] : req[c].units[i].fn = 31)
            <=> \E i \in 1 .. n : req[c].units[i].fn = 31 /\ ~(bad'[c] /\ i = n)
        BY <2>1, <2>2, <3>5, <4>1
      <4>3. QED
        BY <2>1, <3>2, <3>5, <4>2 DEF ControlInv
    <3>6. CASE Advance(c) /\ did'[c].clock /\ u.fn = 31
      <4>1. ~bad'[c]
        BY <2>1, <3>6 DEF Advance
      <4>2. n \in 1 .. n
        BY <2>1
      <4>3. \E i \in 1 .. n : req[c].units[i].fn = 31 /\ ~(bad'[c] /\ i = n)
        BY <2>2, <3>6, <4>1, <4>2
      <4>4. QED
        BY <2>1, <3>3, <3>6, <4>3 DEF ControlInv
    <3>7. QED
      BY <1>2, <2>4, <3>4, <3>5, <3>6
  <2>5. QED
    BY <2>3, <2>4
<1>5. QED
  BY <1>3, <1>4 DEF ChannelInv

--------------------------------------------------------------------------------
(* AFN 09, 0A and 0C.  The unit a plain request takes next, and what it     *)
(* adds to the units that worked.                                           *)
LEMMA NextTaken ==
  ASSUME TypeInv, NEW c \in Channel, PhaseInv(c), pc[c] = "unit",
         req[c].afn \in {"09", "0A", "0C"}, Plain(req[c]), at[c] < UnitCount(req[c]),
         req[c].afn = "0A" => 1 .. at[c] \subseteq WorkingAt(req[c])
  PROVE  LET r == req[c]
             n == at[c] + 1
             w == KeptTo(r.units, WorkingAt(r)) IN
         /\ at[c] \in Nat /\ at[c] <= Len(r.units) /\ Len(r.units) \in Nat
         /\ Unit(c) \in DataUnit
         /\ w[at[c]] \in Seq(DataUnit) /\ Len(w[at[c]]) \in Nat
         /\ n <= Len(r.units) =>
              /\ Unit(c) = r.units[n]
              /\ n \in WorkingAt(r) <=> Works(r, Unit(c))
              /\ w[n] = IF Works(r, Unit(c)) THEN Append(w[at[c]], Unit(c)) ELSE w[at[c]]
         /\ n > Len(r.units) => r.afn = "0C" /\ Unit(c) = Unreadable
<1> DEFINE r == req[c]
           n == at[c] + 1
           w == KeptTo(r.units, WorkingAt(r))
<1>1. r.units \in Seq(DataUnit) /\ Len(r.units) \in Nat /\ at[c] \in Nat
  BY RequestType DEF TypeInv
<1>2. Unit(c) \in DataUnit
  BY UnitType
<1>3. at[c] <= Len(r.units) /\ (n > Len(r.units) => r.afn = "0C")
  BY <1>1 DEF UnitCount
<1>4. w[at[c]] \in Seq(DataUnit) /\ Len(w[at[c]]) \in Nat
  <2>1. at[c] \in 0 .. Len(r.units)
    BY <1>1, <1>3
  <2>2. w[at[c]] \in Seq(DataUnit)
    BY <1>1, <2>1, KeptToSize
  <2> HIDE DEF w
  <2>3. QED
    BY <2>2
<1>5. ASSUME n <= Len(r.units)
      PROVE  /\ Unit(c) = r.units[n]
             /\ n \in WorkingAt(r) <=> Works(r, Unit(c))
             /\ w[n] = IF Works(r, Unit(c)) THEN Append(w[at[c]], Unit(c)) ELSE w[at[c]]
  <2>1. ~Misread(r, n)
    <3> SUFFICES ASSUME r.afn = "0A", n > 1, r.units[n - 1].fn = 10 PROVE FALSE
      BY DEF Misread
    <3>1. n - 1 = at[c] /\ at[c] \in 1 .. Len(r.units)
      BY <1>1, <1>3
    <3>2. at[c] = Len(r.units)
      BY <3>1 DEF Plain
    <3>3. QED
      BY <1>1, <1>5, <3>2
  <2>2. Unit(c) = r.units[n]
    BY <1>5, <2>1 DEF Unit, UnitAt
  <2>3. n \in 1 .. Len(r.units) /\ DOMAIN r.units = 1 .. Len(r.units)
    BY <1>1, <1>5
  <2>4. n \in WorkingAt(r) <=> Works(r, Unit(c))
    BY <2>2, <2>3 DEF WorkingAt
  <2>5. w[n] = IF n \in WorkingAt(r) THEN Append(w[at[c]], r.units[n]) ELSE w[at[c]]
    BY <1>1, <1>5, KeptToNext
  <2>6. QED
    BY <2>2, <2>4, <2>5
<1>6. ASSUME n > Len(r.units)
      PROVE  Unit(c) = Unreadable
  <2>1. r.afn = "0C" /\ r.next = Unreadable
    BY <1>3, <1>6 DEF Plain
  <2>2. ~(n <= Len(r.units))
    BY <1>1, <1>6
  <2>3. QED
    BY <2>1, <2>2 DEF Unit, UnitAt, Misread
<1>7. QED
  BY <1>1, <1>2, <1>3, <1>4, <1>5, <1>6

(* What the three handlers write when they write at the end.                *)
LEMMA Grows_0A ==
  ASSUME NEW b, IsAck(b), NEW u \in DataUnit, u.fn # 89
  PROVE  Content(Answer_0A(b, u)) = Content(b) \o PairOf(u) /\ Answer_0A(b, u).len = b.len + 2
<1> DEFINE v == Write(b, b.len, PairOf(u))
           w == Answer_0A(b, u)
<1>1. PairOf(u) \in Seq(Cell) /\ Len(PairOf(u)) = 2 /\ Answered(u) = PairOf(u)
  BY AnsweredType DEF PairOf, Answered
<1>2. b.len \in Nat
  BY DEF IsAck
<1>3. /\ IsAck(v) /\ v.len = b.len
      /\ \A i \in Int : IF b.len <= i /\ i < b.len + Len(PairOf(u))
                        THEN i \in DOMAIN v.cell /\ v.cell[i] = PairOf(u)[i - b.len + 1]
                        ELSE /\ i \in DOMAIN v.cell <=> i \in DOMAIN b.cell
                             /\ i \in DOMAIN b.cell => v.cell[i] = b.cell[i]
  BY <1>1, <1>2, WriteTypes
<1>4. w = [v EXCEPT !.len = @ + 2]
  BY <1>1 DEF Answer_0A, Place
<1> HIDE DEF v, w
<1>5. w.cell = v.cell /\ w.len = b.len + 2 /\ IsAck(w)
  BY <1>2, <1>3, <1>4 DEF IsAck
<1>6. \A i \in Nat : IF b.len <= i /\ i < b.len + Len(PairOf(u))
                     THEN i \in DOMAIN w.cell /\ w.cell[i] = PairOf(u)[i - b.len + 1]
                     ELSE /\ i \in DOMAIN w.cell <=> i \in DOMAIN b.cell
                          /\ i \in DOMAIN b.cell => w.cell[i] = b.cell[i]
  <2> HIDE DEF PairOf
  <2>1. QED
    BY <1>3, <1>5
<1>7. Content(w) = Content(b) \o PairOf(u)
  <2> HIDE DEF PairOf
  <2>1. w.len = b.len + Len(PairOf(u))
    BY <1>1, <1>5
  <2>2. QED
    BY <1>1, <1>5, <1>6, <2>1, ContentGrows
<1>8. QED
  BY <1>5, <1>7 DEF w

LEMMA Grows_0C ==
  ASSUME NEW b, IsAck(b), b.pos = b.len, NEW u \in DataUnit
  PROVE  /\ Content(Answer_0C(b, u)) = Content(b) \o PairOf(u)
         /\ Answer_0C(b, u).len = b.len + 2 /\ Answer_0C(b, u).pos = b.len + b.len + 2
<1> DEFINE v == Write(b, b.len, PairOf(u))
           w == Answer_0C(b, u)
<1>1. PairOf(u) \in Seq(Cell) /\ Len(PairOf(u)) = 2
  BY AnsweredType DEF PairOf
<1>2. b.len \in Nat
  BY DEF IsAck
<1>3. /\ IsAck(v) /\ v.len = b.len /\ v.pos = b.len
      /\ \A i \in Int : IF b.len <= i /\ i < b.len + Len(PairOf(u))
                        THEN i \in DOMAIN v.cell /\ v.cell[i] = PairOf(u)[i - b.len + 1]
                        ELSE /\ i \in DOMAIN v.cell <=> i \in DOMAIN b.cell
                             /\ i \in DOMAIN b.cell => v.cell[i] = b.cell[i]
  BY <1>1, <1>2, WriteTypes
<1>4. w = [v EXCEPT !.len = @ + 2, !.pos = @ + b.len + 2]
  BY DEF Answer_0C, PairOf
<1> HIDE DEF v, w
<1>5. w.cell = v.cell /\ w.len = b.len + 2 /\ w.pos = b.len + b.len + 2 /\ IsAck(w)
  BY <1>2, <1>3, <1>4 DEF IsAck
<1>6. \A i \in Nat : IF b.len <= i /\ i < b.len + Len(PairOf(u))
                     THEN i \in DOMAIN w.cell /\ w.cell[i] = PairOf(u)[i - b.len + 1]
                     ELSE /\ i \in DOMAIN w.cell <=> i \in DOMAIN b.cell
                          /\ i \in DOMAIN b.cell => w.cell[i] = b.cell[i]
  BY <1>3, <1>5
<1>7. Content(w) = Content(b) \o PairOf(u)
  <2>1. w.len = b.len + Len(PairOf(u))
    BY <1>1, <1>5
  <2>2. QED
    BY <1>1, <1>5, <1>6, <2>1, ContentGrows
<1>8. QED
  BY <1>5, <1>7 DEF w

LEMMA WriteOne ==
  ASSUME NEW b, IsAck(b), NEW p \in Nat, NEW e \in Cell
  PROVE  LET w == Write(b, p, <<e>>) IN
         /\ IsAck(w) /\ w.len = b.len
         /\ p \in DOMAIN w.cell /\ w.cell[p] = e
         /\ \A i \in Int : i # p => /\ i \in DOMAIN w.cell <=> i \in DOMAIN b.cell
                                    /\ i \in DOMAIN b.cell => w.cell[i] = b.cell[i]
<1>1. PICK s \in Seq(Cell) : s = <<e>>
  <2>1. <<e>> \in Seq(Cell)
    OBVIOUS
  <2>2. QED
    BY <2>1
<1>2. Len(s) = 1 /\ s[1] = e
  BY <1>1
<1> DEFINE w == Write(b, p, s)
<1>3. /\ IsAck(w) /\ w.len = b.len
      /\ \A i \in Int : IF p <= i /\ i < p + Len(s)
                        THEN i \in DOMAIN w.cell /\ w.cell[i] = s[i - p + 1]
                        ELSE /\ i \in DOMAIN w.cell <=> i \in DOMAIN b.cell
                             /\ i \in DOMAIN b.cell => w.cell[i] = b.cell[i]
  BY WriteTypes
<1> HIDE DEF w
<1>4. /\ IsAck(w) /\ w.len = b.len
      /\ p \in DOMAIN w.cell /\ w.cell[p] = e
      /\ \A i \in Int : i # p => /\ i \in DOMAIN w.cell <=> i \in DOMAIN b.cell
                                 /\ i \in DOMAIN b.cell => w.cell[i] = b.cell[i]
  BY <1>2, <1>3
<1>5. QED
  BY <1>1, <1>4 DEF w

LEMMA Grows_09 ==
  ASSUME NEW u \in DataUnit
  PROVE  LET w == [Write(Write(NoAck, 0, <<Di(u.fn)>>), 1, <<Data(u.fn)>>) EXCEPT !.len = @ + 2] IN
         Content(w) = PairOf(u) /\ w.len = 2
<1> DEFINE v1 == Write(NoAck, 0, <<Di(u.fn)>>)
           v2 == Write(v1, 1, <<Data(u.fn)>>)
           w == [v2 EXCEPT !.len = @ + 2]
<1>1. /\ PairOf(u) \in Seq(Cell) /\ Len(PairOf(u)) = 2
      /\ PairOf(u)[1] = Di(u.fn) /\ PairOf(u)[2] = Data(u.fn)
  BY AnsweredType DEF PairOf
<1>2. Di(u.fn) \in Cell /\ Data(u.fn) \in Cell
  BY CellsTyped DEF DataUnit
<1>3. IsAck(NoAck) /\ NoAck.len = 0
  BY DEF IsAck, NoAck
<1>4. IsAck(v1) /\ v1.len = 0 /\ 0 \in DOMAIN v1.cell /\ v1.cell[0] = Di(u.fn)
  BY <1>2, <1>3, WriteOne
<1> HIDE DEF v1
<1>5. /\ IsAck(v2) /\ v2.len = 0 /\ 1 \in DOMAIN v2.cell /\ v2.cell[1] = Data(u.fn)
      /\ 0 \in DOMAIN v2.cell /\ v2.cell[0] = v1.cell[0]
  BY <1>2, <1>4, WriteOne
<1> HIDE DEF v2
<1>6. w.cell = v2.cell /\ w.len = 2 /\ IsAck(w)
  BY <1>5 DEF IsAck
<1> HIDE DEF w
<1>7. /\ 0 \in DOMAIN w.cell /\ w.cell[0] = Di(u.fn)
      /\ 1 \in DOMAIN w.cell /\ w.cell[1] = Data(u.fn)
  BY <1>2, <1>4, <1>5, <1>6
<1>8. \A i \in 1 .. 2 : Content(w)[i] = PairOf(u)[i]
  BY <1>1, <1>6, <1>7 DEF Content
<1>9. Content(w) \in Seq(Cell) /\ Len(Content(w)) = 2
  BY <1>6, ContentType
<1>10. Content(w) = PairOf(u)
  BY <1>1, <1>8, <1>9, SeqEqual
<1>11. QED
  BY <1>6, <1>10 DEF w, v1, v2

LEMMA AFN_09HKeeps ==
  ASSUME TypeInv, NEW c \in Channel, ChannelInv(c), AFN_09H(c)
  PROVE  ChannelInv(c)'
<1> DEFINE u == Unit(c)
           w == KeptTo(req[c].units, WorkingAt(req[c]))
<1>1. /\ req[c].afn = "09" /\ pc[c] = "unit" /\ at[c] < UnitCount(req[c]) /\ UnitStep(c)
      /\ PhaseInv(c) /\ did' = did
  BY DEF AFN_09H, Taking, UnitStep, ChannelInv
<1>2. /\ PhaseInv(c)' /\ AnswerInv(c)' /\ EventInv(c)' /\ CopyInv(c)' /\ ControlInv(c)'
  BY <1>1, UnitStepKeeps
<1>3. DataInv(c)'
  <2>1. /\ at[c] \in Nat /\ at'[c] = at[c] + 1 /\ req'[c] = req[c] /\ ~bad[c]
        /\ UnitCount(req[c]) = Len(req[c].units)
    BY <1>1, UnitStepLocal DEF PhaseInv, UnitCount
  <2> SUFFICES ASSUME Plain(req[c]) PROVE DataInv(c)'
    BY <1>1, <2>1 DEF DataInv
  <2>2. Len(req[c].units) = 1 /\ at[c] = 0 /\ req[c].units \in Seq(DataUnit)
    <3>1. Len(req[c].units) <= 1 /\ Len(req[c].units) \in Nat /\ req[c].units \in Seq(DataUnit)
      BY <1>1, RequestType DEF Plain
    <3>2. at[c] \in Nat /\ at[c] < Len(req[c].units)
      BY <1>1, <2>1
    <3>3. PICK k \in Nat : k = Len(req[c].units)
      BY <3>1
    <3>4. k = 1 /\ at[c] = 0
      <4>1. PICK a \in Nat : a = at[c]
        BY <3>2
      <4>2. a < k /\ k <= 1
        BY <3>1, <3>2, <3>3, <4>1
      <4>3. k = 1 /\ a = 0
        BY <4>2
      <4>4. QED
        BY <4>1, <4>3
    <3>5. QED
      BY <3>1, <3>3, <3>4
  <2>3. ack[c] = NoAck
    BY <1>1, <2>2 DEF PhaseInv
  <2>4. 1 .. at[c] \subseteq WorkingAt(req[c]) /\ w[0] = <<>>
    <3>1. 0 \in 0 .. Len(req[c].units) /\ Len(req[c].units) \in Nat
      BY <2>2
    <3>2. QED
      BY <2>2, <3>1, KeptToStep
  <2>5. /\ u \in DataUnit /\ (1 \in WorkingAt(req[c]) <=> Works(req[c], u))
        /\ w[1] = IF Works(req[c], u) THEN Append(<<>>, u) ELSE <<>>
    <3>1. PICK n \in Nat : n = at[c] + 1
      BY <2>2
    <3>2. n = 1 /\ n <= Len(req[c].units)
      BY <2>2, <3>1
    <3>3. /\ u \in DataUnit /\ (n \in WorkingAt(req[c]) <=> Works(req[c], u))
          /\ w[n] = IF Works(req[c], u) THEN Append(w[at[c]], u) ELSE w[at[c]]
      BY <1>1, <3>1, <3>2, NextTaken
    <3> HIDE DEF w, u
    <3>4. QED
      BY <2>2, <2>4, <3>2, <3>3
  <2>6. Taken(c)' = 1 /\ WorkedOf(c)' = w[1] /\ at'[c] = 1
    BY <2>1, <2>2 DEF Taken, WorkedOf
  <2>7. CASE u.fn \in Configuration
    <3>1. Works(req[c], u)
      BY <1>1, <2>7 DEF Works
    <3>2. DOMAIN ack = Channel
      BY DEF TypeInv
    <3>3. ack' = [ack EXCEPT ![c] = [Write(Write(ack[c], ack[c].len, <<Di(u.fn)>>), 1, <<Data(u.fn)>>)
                                     EXCEPT !.len = @ + 2]] /\ Advance(c)
      BY <2>7 DEF AFN_09H
    <3>4. ack'[c] = [Write(Write(NoAck, 0, <<Di(u.fn)>>), 1, <<Data(u.fn)>>) EXCEPT !.len = @ + 2]
      BY <2>3, <3>2, <3>3 DEF NoAck
    <3>5. Content(ack'[c]) = PairOf(u) /\ ack'[c].len = 2
      BY <2>5, <3>4, Grows_09
    <3>6. w[1] = Append(<<>>, u) /\ <<>> \in Seq(DataUnit)
      BY <2>5, <3>1
    <3>7. Pairs(w[1]) = PairOf(u) /\ Len(w[1]) = 1
      <4>1. Pairs(w[1]) = <<>> \o PairOf(u)
        BY <2>5, <3>6, PairsAppend, PairsEmpty
      <4>2. PairOf(u) \in Seq(Cell)
        BY <2>5, AnsweredType DEF PairOf
      <4>3. Len(w[1]) = 1
        BY <2>5, <3>6, AppendProperties, EmptySeq
      <4>4. QED
        BY <4>1, <4>2, <4>3, ConcatEmptySeq
    <3>8. ~bad'[c] /\ 1 .. at'[c] \subseteq WorkingAt(req[c])
      BY <2>1, <2>5, <2>6, <3>1, <3>3 DEF Advance
    <3> HIDE DEF w, u
    <3>9. QED
      BY <1>1, <2>1, <2>6, <3>5, <3>7, <3>8 DEF DataInv
  <2>8. CASE u.fn \notin Configuration
    <3>1. ~Works(req[c], u)
      BY <1>1, <2>8 DEF Works
    <3>2. ack' = ack /\ Fail(c)
      BY <2>8 DEF AFN_09H
    <3>3. Content(ack'[c]) = <<>> /\ ack'[c].len = 0
      BY <2>3, <3>2 DEF Content, NoAck
    <3>4. Pairs(w[1]) = <<>> /\ Len(w[1]) = 0
      BY <2>5, <3>1, PairsEmpty
    <3>5. bad'[c] /\ at'[c] \notin WorkingAt(req[c])
      BY <2>5, <2>6, <3>1, <3>2 DEF Fail, TypeInv
    <3> HIDE DEF w, u
    <3>6. QED
      BY <1>1, <2>1, <2>6, <3>3, <3>4, <3>5 DEF DataInv
  <2>9. QED
    BY <2>7, <2>8
<1>4. QED
  BY <1>2, <1>3 DEF ChannelInv

LEMMA AFN_0AHKeeps ==
  ASSUME TypeInv, NEW c \in Channel, ChannelInv(c), AFN_0AH(c)
  PROVE  ChannelInv(c)'
<1> DEFINE u == Unit(c)
           n == at[c] + 1
           w == KeptTo(req[c].units, WorkingAt(req[c]))
<1>1. /\ req[c].afn = "0A" /\ pc[c] = "unit" /\ at[c] < UnitCount(req[c]) /\ UnitStep(c)
      /\ PhaseInv(c)
  BY DEF AFN_0AH, Taking, UnitStep, ChannelInv
<1>2. did'[c].dropped = did[c].dropped /\ did'[c].failed = did[c].failed
  <2>1. did \in [Channel -> Did] /\ did[c] \in Did
    BY DEF TypeInv
  <2>2. did' = did \/ did' = [did EXCEPT ![c].erc = @ \cup {2}]
    BY DEF AFN_0AH
  <2>3. QED
    BY <2>1, <2>2 DEF Did
<1>3. /\ PhaseInv(c)' /\ AnswerInv(c)' /\ EventInv(c)' /\ CopyInv(c)' /\ ControlInv(c)'
  BY <1>1, <1>2, UnitStepKeeps
<1>4. DataInv(c)'
  <2>1. /\ at[c] \in Nat /\ at'[c] = n /\ req'[c] = req[c] /\ ~bad[c]
        /\ UnitCount(req[c]) = Len(req[c].units)
    BY <1>1, UnitStepLocal DEF PhaseInv, UnitCount
  <2> SUFFICES ASSUME Plain(req[c]) PROVE DataInv(c)'
    BY <1>1, <2>1 DEF DataInv
  <2>2. 1 .. at[c] \subseteq WorkingAt(req[c])
    BY <1>1, <2>1 DEF ChannelInv, DataInv
  <2>3. /\ Len(req[c].units) \in Nat /\ n <= Len(req[c].units)
        /\ u \in DataUnit /\ w[at[c]] \in Seq(DataUnit)
        /\ u = req[c].units[n] /\ (n \in WorkingAt(req[c]) <=> Works(req[c], u))
        /\ w[n] = IF Works(req[c], u) THEN Append(w[at[c]], u) ELSE w[at[c]]
    <3>1. n <= Len(req[c].units)
      BY <1>1, <2>1, RequestType
    <3>2. QED
      BY <1>1, <2>2, <3>1, NextTaken
  <2>4. /\ Taken(c) = at[c] /\ WorkedOf(c) = w[at[c]]
        /\ Taken(c)' = n /\ WorkedOf(c)' = w[n]
    BY <2>1, <2>3 DEF Taken, WorkedOf
  <2>5. ~did[c].failed =>
          /\ Content(ack[c]) = Pairs(w[at[c]])
          /\ ack[c].len = 2 * Len(w[at[c]])
    BY <1>1, <2>4 DEF ChannelInv, DataInv
  <2>6. IsAck(ack[c]) /\ DOMAIN ack = Channel
    BY DEF TypeInv
  <2>7. CASE QueryWorks(u)
    <3>1. Works(req[c], u)
      BY <1>1, <2>7 DEF Works
    <3>2. ack' = [ack EXCEPT ![c] = Answer_0A(ack[c], u)] /\ Advance(c)
      BY <2>7 DEF AFN_0AH
    <3>3. u.fn # 89
      <4>1. n \in 1 .. Len(req[c].units)
        BY <2>1, <2>3
      <4>2. req[c].units[n].fn # 89
        BY <1>1, <4>1 DEF Plain
      <4> HIDE DEF u
      <4>3. QED
        BY <2>3, <4>2
    <3>4. ack'[c] = Answer_0A(ack[c], u)
      BY <2>6, <3>2
    <3>5. Content(ack'[c]) = Content(ack[c]) \o PairOf(u) /\ ack'[c].len = ack[c].len + 2
      BY <2>3, <2>6, <3>3, <3>4, Grows_0A
    <3>6. Pairs(w[n]) = Pairs(w[at[c]]) \o PairOf(u) /\ Len(w[n]) = Len(w[at[c]]) + 1
      <4>1. u \in DataUnit /\ w[at[c]] \in Seq(DataUnit) /\ w[n] = Append(w[at[c]], u)
        BY <2>3, <3>1
      <4> HIDE DEF w, u
      <4>2. QED
        BY <4>1, PairsAppend, AppendProperties
    <3>7. ~bad'[c] /\ 1 .. n \subseteq WorkingAt(req[c])
      BY <2>1, <2>2, <2>3, <3>1, <3>2 DEF Advance
    <3>8. Len(w[at[c]]) \in Nat
      BY <2>3, LenProperties
    <3>9. ~did[c].failed => Content(ack'[c]) = Pairs(w[n]) /\ ack'[c].len = 2 * Len(w[n])
      <4> HIDE DEF w, u, n
      <4>1. PICK k \in Nat : k = Len(w[at[c]])
        BY <3>8
      <4>2. 2 * (k + 1) = 2 * k + 2
        OBVIOUS
      <4>3. QED
        BY <2>5, <3>5, <3>6, <4>1, <4>2
    <3> HIDE DEF w, u
    <3>10. QED
      BY <1>1, <1>2, <2>1, <2>4, <3>7, <3>9 DEF DataInv
  <2>8. CASE ~QueryWorks(u)
    <3>1. ~Works(req[c], u)
      BY <1>1, <2>8 DEF Works
    <3>2. ack' = ack /\ Fail(c)
      BY <2>8 DEF AFN_0AH
    <3>3. w[n] = w[at[c]]
      BY <2>3, <3>1
    <3>4. bad'[c] /\ n \notin WorkingAt(req[c])
      BY <2>3, <3>1, <3>2 DEF Fail, TypeInv
    <3> HIDE DEF w, u
    <3>5. QED
      BY <1>1, <1>2, <2>1, <2>4, <2>5, <3>2, <3>3, <3>4 DEF DataInv
  <2>9. QED
    BY <2>7, <2>8
<1>5. QED
  BY <1>3, <1>4 DEF ChannelInv

LEMMA AFN_0CHKeeps ==
  ASSUME TypeInv, NEW c \in Channel, ChannelInv(c), AFN_0CH(c)
  PROVE  ChannelInv(c)'
<1> DEFINE r == req[c]
           u == Unit(c)
           n == at[c] + 1
           w == KeptTo(req[c].units, WorkingAt(req[c]))
<1>1. /\ r.afn = "0C" /\ pc[c] = "unit" /\ at[c] < UnitCount(r) /\ UnitStep(c)
      /\ PhaseInv(c) /\ Advance(c)
  BY DEF AFN_0CH, Taking, UnitStep, ChannelInv
<1>2. /\ did'[c].dropped = did[c].dropped
      /\ \/ did'[c].failed
         \/ did'[c] = did[c] /\ ~Works(r, u) /\ ack' = ack
         \/ did'[c] = did[c] /\ Works(r, u) /\ ack' = [ack EXCEPT ![c] = Answer_0C(ack[c], u)]
  <2>1. did \in [Channel -> Did] /\ did[c] \in Did
    BY DEF TypeInv
  <2>2. Works(r, u) = (u.fn \in RealTime /\ u.pn = 0)
    BY <1>1 DEF Works
  <2>3. \/ /\ u.fn \in RealTime /\ u.pn = 0 /\ did' = did
           /\ ack' = [ack EXCEPT ![c] = Answer_0C(ack[c], u)]
        \/ /\ u.fn \notin RealTime \/ u.pn # 0
           /\ did' = did /\ ack' = ack
        \/ did' = [did EXCEPT ![c].failed = TRUE]
    BY DEF AFN_0CH
  <2> HIDE DEF u
  <2> HIDE DEF u, r
  <2>4. CASE did' = [did EXCEPT ![c].failed = TRUE]
    BY <2>1, <2>4 DEF Did
  <2>5. CASE did' = did /\ ack' = [ack EXCEPT ![c] = Answer_0C(ack[c], u)]
                /\ u.fn \in RealTime /\ u.pn = 0
    BY <2>2, <2>5
  <2>6. CASE did' = did /\ ack' = ack /\ (u.fn \notin RealTime \/ u.pn # 0)
    BY <2>2, <2>6
  <2>7. QED
    BY <2>3, <2>4, <2>5, <2>6
<1>3. PhaseInv(c)' /\ AnswerInv(c)' /\ EventInv(c)' /\ CopyInv(c)' /\ ControlInv(c)'
  <2> HIDE DEF u
  <2>1. QED
    BY <1>1, <1>2, UnitStepKeeps
<1>4. DataInv(c)'
  <2>1. /\ at[c] \in Nat /\ at'[c] = n /\ req'[c] = r /\ ~bad[c] /\ ~bad'[c]
    BY <1>1, UnitStepLocal DEF PhaseInv, Advance
  <2> SUFFICES ASSUME Plain(r), ~did'[c].failed PROVE DataInv(c)'
    BY <1>1, <2>1 DEF DataInv
  <2>2. did'[c] = did[c] /\ ~did[c].failed
    <3> HIDE DEF u
    <3>1. QED
      BY <1>2
  <2>3. /\ at[c] \in Nat /\ at[c] <= Len(r.units) /\ Len(r.units) \in Nat
        /\ u \in DataUnit
        /\ w[at[c]] \in Seq(DataUnit) /\ Len(w[at[c]]) \in Nat
        /\ n <= Len(r.units) =>
             w[n] = IF Works(r, u) THEN Append(w[at[c]], u) ELSE w[at[c]]
        /\ n > Len(r.units) => u = Unreadable
    BY <1>1, NextTaken
  <2>4. /\ Taken(c) = at[c] /\ WorkedOf(c) = w[at[c]]
        /\ Taken(c)' = (IF n <= Len(r.units) THEN n ELSE Len(r.units))
        /\ WorkedOf(c)' = w[IF n <= Len(r.units) THEN n ELSE Len(r.units)]
    BY <2>1, <2>3 DEF Taken, WorkedOf
  <2>5. /\ Content(ack[c]) = Pairs(w[at[c]]) /\ ack[c].len = 2 * Len(w[at[c]])
        /\ Len(w[at[c]]) < 2 => ack[c].pos = ack[c].len
    BY <1>1, <2>2, <2>4 DEF ChannelInv, DataInv
  <2>6. CASE ~Works(r, u)
    <3>1. ack' = ack
      <4> HIDE DEF u
      <4>1. QED
        BY <1>2, <2>6
    <3>2. WorkedOf(c)' = w[at[c]]
      <4>1. CASE n <= Len(r.units)
        BY <2>3, <2>4, <2>6, <4>1
      <4>2. CASE ~(n <= Len(r.units))
        <5>1. at[c] = Len(r.units)
          <6>1. PICK k \in Nat : k = Len(r.units)
            BY <2>3
          <6>2. PICK a \in Nat : a = at[c]
            BY <2>3
          <6>3. a <= k /\ ~(a + 1 <= k)
            BY <2>3, <4>2, <6>1, <6>2
          <6>4. a = k
            BY <6>3
          <6>5. QED
            BY <6>1, <6>2, <6>4
        <5>2. QED
          BY <2>4, <4>2, <5>1
      <4>3. QED
        BY <4>1, <4>2
    <3> HIDE DEF w, u
    <3>3. QED
      BY <1>1, <2>1, <2>5, <3>1, <3>2 DEF DataInv
  <2>7. CASE Works(r, u)
    <3>1. ack' = [ack EXCEPT ![c] = Answer_0C(ack[c], u)]
      <4> HIDE DEF u
      <4>1. QED
        BY <1>2, <2>7
    <3>2. IsAck(ack[c]) /\ ack'[c] = Answer_0C(ack[c], u)
      <4>1. DOMAIN ack = Channel /\ IsAck(ack[c])
        BY DEF TypeInv
      <4> HIDE DEF u
      <4>2. QED
        BY <3>1, <4>1
    <3>3. n <= Len(r.units)
      <4> SUFFICES ASSUME ~(n <= Len(r.units)) PROVE FALSE
        OBVIOUS
      <4>1. n > Len(r.units)
        BY <2>3
      <4>2. u = Unreadable
        BY <2>3, <4>1
      <4> HIDE DEF u
      <4>3. QED
        BY <1>1, <2>7, <4>2 DEF Works, RealTime, Unreadable
    <3>4. WorkedOf(c)' = w[n] /\ w[n] = Append(w[at[c]], u)
      BY <2>3, <2>4, <2>7, <3>3
    <3>5. Len(w[n]) <= 2
      <4>1. Len(Kept(r.units, WorkingAt(r))) <= 2
        BY <1>1 DEF Plain, Working
      <4>2. r.units \in Seq(DataUnit) /\ n \in 0 .. Len(r.units)
        BY <1>1, <2>3, <3>3, RequestType
      <4>3. Len(w[n]) <= Len(Kept(r.units, WorkingAt(r)))
        BY <4>2, KeptToGrows
      <4>4. Kept(r.units, WorkingAt(r)) \in Seq(DataUnit) /\ w[n] \in Seq(DataUnit)
        BY <4>2, KeptType, KeptToSize
      <4>5. Len(Kept(r.units, WorkingAt(r))) \in Nat /\ Len(w[n]) \in Nat
        <5> HIDE DEF w
        <5>1. QED
          BY <4>4, LenProperties
      <4> HIDE DEF w
      <4>6. QED
        BY <4>1, <4>3, <4>5
    <3>6. /\ Pairs(w[n]) = Pairs(w[at[c]]) \o PairOf(u) /\ Len(w[n]) = Len(w[at[c]]) + 1
      <4>1. u \in DataUnit /\ w[at[c]] \in Seq(DataUnit)
        BY <2>3
      <4> HIDE DEF w, u
      <4>2. QED
        BY <3>4, <4>1, PairsAppend, AppendProperties
    <3>7. u \in DataUnit /\ Len(w[at[c]]) \in Nat
      BY <2>3
    <3> HIDE DEF w, u, n
    <3>8. PICK k \in Nat : k = Len(w[at[c]])
      BY <3>7
    <3>9. k < 2 /\ ack[c].len = 2 * k /\ ack[c].pos = ack[c].len /\ Len(w[n]) = k + 1
      <4>1. k + 1 <= 2
        BY <3>5, <3>6, <3>8
      <4>2. k < 2
        BY <4>1
      <4>3. QED
        BY <2>5, <3>6, <3>8, <4>2
    <3>10. /\ Content(ack'[c]) = Content(ack[c]) \o PairOf(u)
           /\ ack'[c].len = ack[c].len + 2 /\ ack'[c].pos = ack[c].len + ack[c].len + 2
      BY <3>2, <3>7, <3>9, Grows_0C
    <3>11. /\ Content(ack'[c]) = Pairs(w[n]) /\ ack'[c].len = 2 * Len(w[n])
           /\ Len(w[n]) < 2 => ack'[c].pos = ack'[c].len
      <4>1. ack'[c].len = 2 * k + 2 /\ ack'[c].pos = 2 * k + 2 * k + 2
        BY <3>9, <3>10
      <4>2. k + 1 < 2 => k = 0
        OBVIOUS
      <4>3. 2 * (k + 1) = 2 * k + 2
        OBVIOUS
      <4>4. QED
        BY <2>5, <3>6, <3>9, <3>10, <4>1, <4>2, <4>3
    <3>12. QED
      BY <1>1, <2>1, <3>4, <3>11 DEF DataInv
  <2>8. QED
    BY <2>6, <2>7
<1>5. QED
  BY <1>3, <1>4 DEF ChannelInv

--------------------------------------------------------------------------------
(* The end of the units, and a unit of AFN 0E that is none.                 *)
LEMMA NoMoreUnitsKeeps ==
  ASSUME TypeInv, NEW c \in Channel, ChannelInv(c), NoMoreUnits(c)
  PROVE  ChannelInv(c)'
<1>1. /\ pc[c] = "unit" /\ at[c] = UnitCount(req[c]) /\ pc'[c] = "answer"
      /\ UNCHANGED <<req, at, bad, ack, out, seq, sent, EventBuf, did>>
  BY DEF NoMoreUnits, locals, TypeInv
<1>2. PhaseInv(c)'
  BY <1>1 DEF ChannelInv, PhaseInv
<1>3. EventInv(c)'
  BY <1>1 DEF ChannelInv, EventInv, PhaseInv
<1>4. CopyInv(c)'
  BY <1>1 DEF ChannelInv, CopyInv
<1>5. ControlInv(c)'
  BY <1>1 DEF ChannelInv, ControlInv
<1>6. DataInv(c)'
  BY <1>1 DEF ChannelInv, DataInv, WorkedOf, Taken
<1>7. AnswerInv(c)'
  BY <1>1 DEF AnswerInv
<1>8. QED
  BY <1>2, <1>3, <1>4, <1>5, <1>6, <1>7 DEF ChannelInv

LEMMA AFN_0EH_failsKeeps ==
  ASSUME TypeInv, NEW c \in Channel, ChannelInv(c), AFN_0EH_fails(c)
  PROVE  ChannelInv(c)'
<1>1. /\ req[c].afn = "0E" /\ pc[c] = "unit" /\ at[c] < UnitCount(req[c]) /\ UnitStep(c)
      /\ PhaseInv(c) /\ Fail(c) /\ UNCHANGED <<ack, did>> /\ Unit(c).fn \notin {1, 2, 3}
  BY DEF AFN_0EH_fails, Taking, UnitStep, ChannelInv
<1>2. /\ PhaseInv(c)' /\ AnswerInv(c)' /\ ControlInv(c)' /\ DataInv(c)'
  BY <1>1, UnitStepKeeps
<1>3. /\ req'[c] = req[c] /\ out'[c] = out[c] /\ seq'[c] = seq[c] /\ sent'[c] = sent[c]
      /\ at[c] \in Nat /\ at'[c] = at[c] + 1 /\ ~bad[c] /\ pc'[c] = "answer" /\ bad'[c]
  BY <1>1, UnitStepLocal DEF PhaseInv, Fail, TypeInv
<1>4. EventInv(c)'
  <2>1. at'[c] # 0 /\ (at'[c] = 1 => at[c] = 0)
    BY <1>3
  <2>2. at[c] = 0 => sent[c] = <<>>
    BY <1>1 DEF PhaseInv
  <2>3. EventInv(c)
    BY DEF ChannelInv
  <2>4. QED
    BY <1>1, <1>3, <2>1, <2>2, <2>3 DEF EventInv
<1>5. CopyInv(c)'
  <2>1. req[c].units # <<>> /\ req[c].units[1].fn \in {1, 2, 3} => at[c] >= 1
    <3> SUFFICES ASSUME req[c].units # <<>>, req[c].units[1].fn \in {1, 2, 3}, at[c] = 0
                 PROVE  FALSE
      BY <1>3
    <3>1. Unit(c) = req[c].units[1]
      <4>1. 1 <= Len(req[c].units)
        BY <1>1, RequestType, EmptySeq
      <4>2. QED
        BY <4>1 DEF Unit, Misread, UnitAt
    <3>2. QED
      BY <1>1, <3>1
  <2>2. CopyInv(c)
    BY DEF ChannelInv
  <2>3. QED
    BY <1>1, <1>3, <2>1, <2>2 DEF CopyInv
<1>6. QED
  BY <1>2, <1>4, <1>5 DEF ChannelInv

--------------------------------------------------------------------------------
(* AFN 0E: fetching the rows, copying them one by one, and the last frame.  *)
LEMMA FetchKeeps ==
  ASSUME TypeInv, NEW c \in Channel, ChannelInv(c), Fetch(c)
  PROVE  ChannelInv(c)'
<1> DEFINE u == Unit(c)
<1>1. PhaseInv(c) /\ EventInv(c) /\ CopyInv(c)
  BY DEF ChannelInv
<1>2. /\ at[c] = 0 /\ req[c].afn = "0E" /\ pc[c] = "unit" /\ req[c].units # <<>>
      /\ u = req[c].units[1] /\ u.fn \in {1, 2, 3}
      /\ Selected(u) \in Seq(Record)
      /\ Granted(u) \in Nat /\ Granted(u) <= Len(Selected(u))
  BY <1>1, FetchedUnit
<1>3. /\ pc'[c] = "rows" /\ req'[c] = req[c] /\ at'[c] = 0 /\ bad'[c] = bad[c] /\ ack'[c] = ack[c]
      /\ seq'[c] = seq[c] /\ sent'[c] = sent[c]
  BY <1>2 DEF Fetch, TypeInv
<1> HIDE DEF u
<1>4. /\ did'[c].dropped = did[c].dropped
      /\ \/ did'[c].failed /\ out'[c] = [NoOut EXCEPT !.sum = -1]
         \/ EventBuf' = Selected(u) /\ out'[c] = [NoOut EXCEPT !.sum = Granted(u)]
  <2>1. /\ did \in [Channel -> Did] /\ did[c] \in Did /\ DOMAIN out = Channel
        /\ Tears(c) \in [Channel -> Did]
    BY TearsTypes DEF TypeInv
  <2>2. Tears(c)[c] = did[c]
    BY DEF Tears
  <2>3. \/ /\ EventBuf' = Selected(u) /\ did' = Tears(c)
           /\ out' = [out EXCEPT ![c] = [NoOut EXCEPT !.sum = Granted(u)]]
        \/ /\ out' = [out EXCEPT ![c] = [NoOut EXCEPT !.sum = -1]]
           /\ did' = [did EXCEPT ![c].failed = TRUE]
        \/ /\ out' = [out EXCEPT ![c] = [NoOut EXCEPT !.sum = -1]]
           /\ did' = [Tears(c) EXCEPT ![c].failed = TRUE]
    BY DEF Fetch, u
  <2>4. CASE /\ EventBuf' = Selected(u) /\ did' = Tears(c)
             /\ out' = [out EXCEPT ![c] = [NoOut EXCEPT !.sum = Granted(u)]]
    BY <2>1, <2>2, <2>4
  <2>5. CASE /\ out' = [out EXCEPT ![c] = [NoOut EXCEPT !.sum = -1]]
             /\ did' = [did EXCEPT ![c].failed = TRUE]
    BY <2>1, <2>5 DEF Did
  <2>6. CASE /\ out' = [out EXCEPT ![c] = [NoOut EXCEPT !.sum = -1]]
             /\ did' = [Tears(c) EXCEPT ![c].failed = TRUE]
    BY <2>1, <2>2, <2>6 DEF Did
  <2>7. QED
    BY <2>3, <2>4, <2>5, <2>6
<1>5. sent[c] = <<>> /\ seq[c] = req[c].seq /\ ~did[c].dropped /\ ~bad[c]
  BY <1>1, <1>2 DEF PhaseInv, EventInv
<1>6. UnitCount(req[c]) \in Nat
  BY <1>1, <1>2, RequestType DEF UnitCount
<1>7. PhaseInv(c)'
  BY <1>1, <1>2, <1>3, <1>5, <1>6 DEF PhaseInv
<1>8. EventInv(c)'
  <2>1. out'[c].frames = 0
    BY <1>4 DEF NoOut
  <2>2. Len(sent'[c]) = 0 /\ seq'[c] = req'[c].seq
    BY <1>3, <1>5
  <2>3. QED
    BY <1>3, <2>1, <2>2 DEF EventInv, Numbered
<1>9. CopyInv(c)'
  <2> SUFFICES ASSUME ~did'[c].failed PROVE CopyInv(c)'
    BY DEF CopyInv
  <2>1. EventBuf' = Selected(u) /\ out'[c] = [NoOut EXCEPT !.sum = Granted(u)]
    BY <1>4
  <2>2. out'[c].row = 0 /\ out'[c].sum = Granted(u) /\ out'[c].body = <<>>
    BY <2>1 DEF NoOut
  <2>3. FlattenSeq(Bodies(sent'[c])) = <<>> /\ Len(sent'[c]) = 0
    BY <1>3, <1>5, BodiesEmpty
  <2>4. SubSeq(Selected(u), 1, 0) = <<>>
    BY SubSeqEmpty
  <2>5. <<>> \o <<>> = <<>>
    BY ConcatEmptySeq, EmptySeq
  <2>6. out'[c].row <= out'[c].sum
    BY <1>2, <2>2
  <2>7. FlattenSeq(Bodies(sent'[c])) \o out'[c].body = SubSeq(Selected(u), 1, out'[c].row)
    BY <2>2, <2>3, <2>4, <2>5
  <2>8. \A i \in 1 .. Len(sent'[c]) : sent'[c][i].body \in Seq(Record)
    BY <2>3
  <2>9. u = req'[c].units[1]
    BY <1>2, <1>3
  <2>10. QED
    BY <1>3, <2>1, <2>2, <2>6, <2>7, <2>8, <2>9 DEF CopyInv
<1>10. ControlInv(c)' /\ DataInv(c)' /\ AnswerInv(c)'
  BY <1>2, <1>3 DEF ControlInv, DataInv, AnswerInv
<1>11. QED
  BY <1>7, <1>8, <1>9, <1>10 DEF ChannelInv

(* What a frame of events does to its channel.                              *)
RowFrame(c, fin) == Frame("events", NextSeq(c), out[c].frames = 0, fin, out[c].body)

LEMMA EmitLocal ==
  ASSUME TypeInv, NEW c \in Channel, NEW fin \in BOOLEAN, Emit(c, fin)
  PROVE  LET f == RowFrame(c, fin) IN
         /\ f \in FrameType /\ f.kind = "events" /\ f.seq = NextSeq(c) /\ f.fir = (out[c].frames = 0)
         /\ f.fin = fin /\ f.body = out[c].body /\ f.body \in Seq(Record)
         /\ seq'[c] = NextSeq(c)
         /\ did'[c].torn = did[c].torn /\ did'[c].failed = did[c].failed
         /\ did'[c].clock = did[c].clock /\ (did[c].dropped => did'[c].dropped)
         /\ Broadcast(req[c]) => sent'[c] = sent[c]
         /\ ~did'[c].dropped /\ ~Broadcast(req[c]) => sent'[c] = Append(sent[c], f)
<1> DEFINE f == RowFrame(c, fin)
<1>1. out[c].body \in Seq(Record) /\ out[c].body \in Seq(Record) \cup Seq(Cell) \cup Seq(Result)
  BY DEF TypeInv
<1>2. NextSeq(c) \in 0 .. SeqNumbers - 1 /\ (out[c].frames = 0) \in BOOLEAN /\ "events" \in Kind
  BY NextSeqType DEF Kind
<1>3. /\ f \in FrameType /\ f.kind = "events" /\ f.seq = NextSeq(c) /\ f.fir = (out[c].frames = 0)
      /\ f.fin = fin /\ f.body = out[c].body
  <2>1. f \in FrameType
    BY <1>1, <1>2, FrameIsTyped DEF RowFrame
  <2>2. QED
    BY <2>1 DEF RowFrame, Frame
<1>4. Send(c, f) /\ seq' = [seq EXCEPT ![c] = NextSeq(c)]
  BY DEF Emit, RowFrame
<1> HIDE DEF f
<1>5. seq'[c] = NextSeq(c)
  BY <1>4 DEF TypeInv
<1>6. DOMAIN sent = Channel /\ did \in [Channel -> Did] /\ did[c] \in Did
  BY DEF TypeInv
<1>7. /\ did'[c].torn = did[c].torn /\ did'[c].failed = did[c].failed
      /\ did'[c].clock = did[c].clock /\ (did[c].dropped => did'[c].dropped)
      /\ Broadcast(req[c]) => sent'[c] = sent[c]
      /\ ~did'[c].dropped /\ ~Broadcast(req[c]) => sent'[c] = Append(sent[c], f)
  <2>1. CASE sent' = sent /\ did' = did /\ Broadcast(req[c])
    BY <2>1
  <2>2. CASE sent' = sent /\ did' = [did EXCEPT ![c].dropped = TRUE] /\ ~Broadcast(req[c])
    BY <1>6, <2>2 DEF Did
  <2>3. CASE sent' = [sent EXCEPT ![c] = Append(@, f)] /\ did' = did /\ ~Broadcast(req[c])
    BY <1>6, <2>3
  <2>4. QED
    BY <1>4, <2>1, <2>2, <2>3 DEF Send
<1>8. QED
  BY <1>1, <1>3, <1>5, <1>7 DEF f

(* The numbers go on: one frame more, with the next number.                 *)
LEMMA NumberedAppend ==
  ASSUME TypeInv, NEW c \in Channel, NEW r \in Request, NEW f \in FrameType,
         Numbered(sent[c], r), Len(sent[c]) = out[c].frames,
         seq[c] = (IF out[c].frames = 0 THEN r.seq ELSE (r.seq + out[c].frames - 1) % SeqNumbers),
         f.kind = "events", f.seq = NextSeq(c), f.fir = (out[c].frames = 0)
  PROVE  /\ Numbered(Append(sent[c], f), r)
         /\ Len(Append(sent[c], f)) = out[c].frames + 1
         /\ NextSeq(c) = (r.seq + out[c].frames) % SeqNumbers
<1> DEFINE s == sent[c]
           t == Append(s, f)
<1>1. PICK n \in Nat : n = out[c].frames
  BY DEF TypeInv
<1>2. PICK q \in 0 .. SeqNumbers - 1 : q = r.seq
  BY DEF Request
<1>3. SeqNumbers \in Nat \ {0}
  BY DispatcherAssumption
<1>4. NextSeq(c) = (q + n) % SeqNumbers
  <2>1. CASE n = 0
    <3>1. q % SeqNumbers = q
      BY <1>3, ModSmall
    <3>2. NextSeq(c) = q
      BY <1>1, <1>2, <2>1 DEF NextSeq
    <3>3. q + n = q
      BY <1>2, <2>1
    <3>4. QED
      BY <3>1, <3>2, <3>3
  <2>2. CASE n # 0
    <3>1. PICK a \in Nat : a = q + n - 1
      BY <1>2, <1>3, <2>2
    <3>2. seq[c] = a % SeqNumbers
      BY <1>1, <1>2, <2>2, <3>1
    <3>3. NextSeq(c) = (seq[c] + 1) % SeqNumbers
      BY <1>1, <2>2 DEF NextSeq
    <3>4. NextSeq(c) = (a + 1) % SeqNumbers
      BY <1>3, <3>2, <3>3, ModNext
    <3>5. a + 1 = q + n
      BY <1>2, <1>3, <3>1
    <3>6. QED
      BY <3>4, <3>5
  <2>3. QED
    BY <2>1, <2>2
<1>5. /\ Len(t) = n + 1 /\ t[n + 1] = f /\ \A i \in 1 .. n : t[i] = s[i]
  <2>1. s \in Seq(FrameType) /\ Len(s) = n
    BY <1>1 DEF TypeInv
  <2> HIDE DEF s
  <2>2. QED
    BY <2>1, AppendProperties
<1> HIDE DEF t
<1>6. ASSUME NEW i \in 1 .. Len(t)
      PROVE  t[i].kind = "events" /\ t[i].seq = (r.seq + i - 1) % SeqNumbers /\ t[i].fir = (i = 1)
  <2>1. CASE i \in 1 .. n
    BY <1>1, <1>5, <2>1 DEF Numbered
  <2>2. CASE i = n + 1
    <3>1. t[i] = f /\ q + i - 1 = q + n /\ (i = 1 <=> n = 0)
      <4>1. q \in Int
        BY <1>3
      <4>2. q + (n + 1) - 1 = q + n /\ (n + 1 = 1 <=> n = 0)
        BY <4>1
      <4>3. QED
        BY <1>5, <2>2, <4>2
    <3>2. t[i].seq = (q + i - 1) % SeqNumbers
      BY <1>4, <3>1
    <3>3. t[i].fir = (i = 1)
      BY <1>1, <3>1
    <3>4. QED
      BY <1>2, <3>1, <3>2, <3>3
  <2>3. QED
    BY <1>5, <2>1, <2>2
<1>7. Numbered(t, r)
  BY <1>6 DEF Numbered
<1>8. QED
  BY <1>1, <1>2, <1>4, <1>5, <1>7 DEF t

LEMMA NextRowKeeps ==
  ASSUME TypeInv, NEW c \in Channel, ChannelInv(c), NextRow(c)
  PROVE  ChannelInv(c)'
<1> DEFINE o == out[c]
           e == SubSeq(EventBuf, o.row + 1, Upto(o.row + 1, EventBuf))
           f == RowFrame(c, FALSE)
<1>1. PhaseInv(c) /\ EventInv(c) /\ CopyInv(c) /\ pc[c] = "rows" /\ o.row < o.sum
  BY DEF ChannelInv, NextRow
<1>2. /\ req[c].afn = "0E" /\ at[c] = 0 /\ req[c].units # <<>>
      /\ req[c].units[1].fn \in {1, 2, 3} /\ ~bad[c]
  BY <1>1 DEF PhaseInv
<1>3. /\ pc'[c] = "rows" /\ req'[c] = req[c] /\ at'[c] = 0 /\ bad'[c] = bad[c] /\ ack'[c] = ack[c]
      /\ EventBuf' = EventBuf
  BY <1>1, <1>2 DEF NextRow
<1>4. /\ o.body \in Seq(Record) /\ o.row \in Nat /\ o.sum \in Int /\ o.frames \in Nat
      /\ EventBuf \in Seq(Record) /\ Len(EventBuf) \in Nat /\ sent[c] \in Seq(FrameType)
  BY DEF TypeInv
<1>5. e \in Seq(Record)
  BY NextRowType
<1>6. \/ /\ Emit(c, FALSE)
         /\ out'[c] = [body |-> e, row |-> o.row + 1, sum |-> o.sum, frames |-> o.frames + 1]
      \/ /\ UNCHANGED <<sent, did, seq>>
         /\ out'[c] = [o EXCEPT !.body = o.body \o e, !.row = o.row + 1]
  <2>1. DOMAIN out = Channel
    BY DEF TypeInv
  <2>2. \/ /\ Emit(c, FALSE)
           /\ out' = [out EXCEPT ![c] = [body |-> e, row |-> o.row + 1, sum |-> o.sum,
                                         frames |-> o.frames + 1]]
        \/ /\ UNCHANGED <<sent, did, seq>>
           /\ out' = [out EXCEPT ![c] = [o EXCEPT !.body = o.body \o e, !.row = o.row + 1]]
    BY DEF NextRow, Restarted
  <2> HIDE DEF e
  <2>3. QED
    BY <2>1, <2>2
<1>7. Emit(c, FALSE) =>
        /\ f \in FrameType /\ f.kind = "events" /\ f.seq = NextSeq(c) /\ f.fir = (o.frames = 0)
        /\ f.fin = FALSE /\ f.body = o.body
        /\ seq'[c] = NextSeq(c)
        /\ did'[c].torn = did[c].torn /\ did'[c].failed = did[c].failed
        /\ (did[c].dropped => did'[c].dropped)
        /\ Broadcast(req[c]) => sent'[c] = sent[c]
        /\ ~did'[c].dropped /\ ~Broadcast(req[c]) => sent'[c] = Append(sent[c], f)
  BY EmitLocal
<1>8. o.body \o e \in Seq(Record)
  BY <1>4, <1>5, ConcatProperties
<1>9. /\ out'[c].row = o.row + 1 /\ out'[c].sum = o.sum
      /\ \/ Emit(c, FALSE) /\ out'[c].body = e /\ out'[c].frames = o.frames + 1
         \/ UNCHANGED <<sent, did, seq>> /\ out'[c].body = o.body \o e /\ out'[c].frames = o.frames
  <2>1. o \in [body : Seq(Record), row : Nat, sum : Nat \cup {-1}, frames : Nat]
    BY DEF TypeInv
  <2>2. CASE out'[c] = [body |-> e, row |-> o.row + 1, sum |-> o.sum, frames |-> o.frames + 1]
    <3> HIDE DEF e
    <3>1. /\ out'[c].row = o.row + 1 /\ out'[c].sum = o.sum /\ out'[c].body = e
          /\ out'[c].frames = o.frames + 1
      BY <2>2
    <3>2. CASE Emit(c, FALSE)
      BY <3>1, <3>2
    <3>3. CASE ~Emit(c, FALSE)
      <4>1. UNCHANGED <<sent, did, seq>> /\ out'[c] = [o EXCEPT !.body = o.body \o e, !.row = o.row + 1]
        BY <1>6, <3>3
      <4> HIDE DEF o
      <4>2. QED
        BY <2>1, <3>1, <4>1
    <3>4. QED
      BY <3>2, <3>3
  <2>3. CASE /\ UNCHANGED <<sent, did, seq>>
             /\ out'[c] = [o EXCEPT !.body = o.body \o e, !.row = o.row + 1]
    <3> HIDE DEF e, o
    <3>1. QED
      BY <2>1, <2>3
  <2>4. QED
    BY <1>6, <2>2, <2>3
<1> HIDE DEF e, f
<1>10. PhaseInv(c)'
  <2>1. Broadcast(req[c]) => sent'[c] = sent[c]
    BY <1>7, <1>9
  <2>2. Mine(req[c]) /\ Served(req[c]) /\ req[c] # None /\ UnitCount(req[c]) \in Nat
    BY <1>1, RequestType DEF UnitCount
  <2>3. Broadcast(req[c]) => sent[c] = <<>>
    BY <1>1, <2>2 DEF PhaseInv
  <2>4. QED
    BY <1>2, <1>3, <2>1, <2>2, <2>3 DEF PhaseInv
<1>11. EventInv(c)'
  <2> SUFFICES ASSUME ~did'[c].dropped, ~Broadcast(req[c])
               PROVE  /\ Numbered(sent'[c], req[c])
                      /\ \A i \in 1 .. Len(sent'[c]) : ~sent'[c][i].fin
                      /\ Len(sent'[c]) = out'[c].frames
                      /\ seq'[c] = IF out'[c].frames = 0 THEN req[c].seq
                                   ELSE (req[c].seq + out'[c].frames - 1) % SeqNumbers
    BY <1>3 DEF EventInv
  <2>1. ~did[c].dropped
    BY <1>7, <1>9
  <2>2. /\ Numbered(sent[c], req[c])
        /\ \A i \in 1 .. Len(sent[c]) : ~sent[c][i].fin
        /\ Len(sent[c]) = o.frames
        /\ seq[c] = IF o.frames = 0 THEN req[c].seq
                    ELSE (req[c].seq + o.frames - 1) % SeqNumbers
    BY <1>1, <1>2, <2>1 DEF EventInv
  <2>3. CASE UNCHANGED <<sent, did, seq>> /\ out'[c].frames = o.frames
    BY <2>2, <2>3
  <2>4. CASE Emit(c, FALSE) /\ out'[c].frames = o.frames + 1
    <3>1. sent'[c] = Append(sent[c], f) /\ f \in FrameType /\ ~f.fin /\ seq'[c] = NextSeq(c)
      BY <1>7, <2>4
    <3>2. req[c] \in Request /\ req[c].seq \in Nat
      BY <1>1, RequestType DEF Request
    <3>3. /\ Numbered(Append(sent[c], f), req[c])
          /\ Len(Append(sent[c], f)) = o.frames + 1
          /\ NextSeq(c) = (req[c].seq + o.frames) % SeqNumbers
      BY <1>7, <2>2, <2>4, <3>2, NumberedAppend
    <3>4. \A i \in 1 .. Len(Append(sent[c], f)) : ~Append(sent[c], f)[i].fin
      <4>1. PICK s \in Seq(FrameType) : s = sent[c]
        BY <1>4
      <4>2. \A i \in 1 .. Len(s) + 1 : Append(s, f)[i] = (IF i <= Len(s) THEN s[i] ELSE f)
        BY <3>1, AppendProperties
      <4>3. Len(Append(s, f)) = Len(s) + 1
        BY <3>1, AppendProperties
      <4>4. QED
        BY <2>2, <3>1, <4>1, <4>2, <4>3
    <3>5. /\ o.frames + 1 # 0 /\ req[c].seq + (o.frames + 1) - 1 = req[c].seq + o.frames
      BY <1>4, <3>2
    <3>6. QED
      BY <2>4, <3>1, <3>3, <3>4, <3>5
  <2>5. QED
    BY <1>9, <2>3, <2>4
<1>12. CopyInv(c)'
  <2> DEFINE u == req[c].units[1]
             S == Selected(u)
             B == FlattenSeq(Bodies(sent[c]))
  <2> SUFFICES ASSUME ~Broadcast(req[c]), ~did'[c].torn, ~did'[c].dropped, ~did'[c].failed
               PROVE  /\ \A i \in 1 .. Len(sent'[c]) : sent'[c][i].body \in Seq(Record)
                      /\ out'[c].sum = Granted(u)
                      /\ out'[c].row <= out'[c].sum
                      /\ out'[c].row < out'[c].sum => EventBuf' = S
                      /\ FlattenSeq(Bodies(sent'[c])) \o out'[c].body = SubSeq(S, 1, out'[c].row)
    BY <1>3 DEF CopyInv
  <2>1. ~did[c].torn /\ ~did[c].dropped /\ ~did[c].failed
    BY <1>7, <1>9
  <2>2. /\ \A i \in 1 .. Len(sent[c]) : sent[c][i].body \in Seq(Record)
        /\ o.sum = Granted(u) /\ EventBuf = S
        /\ B \o o.body = SubSeq(S, 1, o.row)
    BY <1>1, <1>2, <2>1 DEF CopyInv
  <2>3. S \in Seq(Record) /\ Granted(u) <= Len(S) /\ Granted(u) \in Nat
    BY <1>1, <1>2, EventUnit, SelectedType
  <2> HIDE DEF S, u, o, B
  <2>4. PICK k \in Nat : k = o.row
    BY <1>4
  <2>5. Len(S) \in Nat /\ k < Len(S)
    BY <1>1, <1>4, <2>2, <2>3, <2>4
  <2>6. k + 1 <= o.sum /\ out'[c].row = k + 1
    BY <1>1, <1>4, <1>9, <2>4
  <2>7. e = SubSeq(S, k + 1, k + 1)
    <3>1. Upto(k + 1, S) = k + 1
      BY <2>5 DEF Upto
    <3>2. QED
      BY <2>2, <2>4, <3>1 DEF e, o
  <2>8. SubSeq(S, 1, k) \o e = SubSeq(S, 1, k + 1)
    <3>1. 1 \in 1 .. Len(S) + 1 /\ k \in 1 - 1 .. Len(S) /\ k + 1 \in k .. Len(S)
      BY <2>5
    <3>2. PICK m \in k .. Len(S) : m = k + 1
      BY <3>1
    <3>3. SubSeq(S, 1, k) \o SubSeq(S, k + 1, m) = SubSeq(S, 1, m)
      BY <2>3, <3>1, ConcatAdjacentSubSeq
    <3>4. QED
      BY <2>7, <3>2, <3>3
  <2>9. B \in Seq(Record)
    <3>1. Bodies(sent[c]) \in Seq(Seq(Record))
      BY <1>4, <2>2 DEF Bodies
    <3>2. QED
      BY <3>1, FlattenType DEF B
  <2>10. CASE UNCHANGED <<sent, did, seq>> /\ out'[c].body = o.body \o e
    <3>1. B \o (o.body \o e) = (B \o o.body) \o e
      <4>1. PICK y \in Seq(Record) : y = o.body
        BY <1>4
      <4>2. B \o (y \o e) = (B \o y) \o e
        BY <1>5, <2>9, ConcatAssociative
      <4>3. QED
        BY <4>1, <4>2
    <3>2. FlattenSeq(Bodies(sent'[c])) \o out'[c].body = SubSeq(S, 1, out'[c].row)
      BY <2>2, <2>4, <2>6, <2>8, <2>10, <3>1 DEF B
    <3>3. QED
      BY <1>3, <1>9, <2>2, <2>6, <2>10, <3>2
  <2>11. CASE Emit(c, FALSE) /\ out'[c].body = e
    <3>1. sent'[c] = Append(sent[c], f) /\ f \in FrameType /\ f.body = o.body
      BY <1>7, <2>11
    <3>2. f.body \in Seq(Record) /\ sent[c] \in Seq(FrameType)
      BY <1>4, <3>1 DEF o
    <3>3. /\ FlattenSeq(Bodies(sent'[c])) = B \o o.body
          /\ \A i \in 1 .. Len(sent'[c]) : sent'[c][i].body \in Seq(Record)
      BY <2>2, <3>1, <3>2, BodiesAppend DEF B
    <3>4. FlattenSeq(Bodies(sent'[c])) \o out'[c].body = SubSeq(S, 1, out'[c].row)
      BY <2>2, <2>4, <2>6, <2>8, <2>11, <3>3
    <3>5. QED
      BY <1>3, <1>9, <2>2, <2>6, <3>3, <3>4
  <2>12. QED
    BY <1>9, <2>10, <2>11
<1>13. ControlInv(c)' /\ DataInv(c)' /\ AnswerInv(c)'
  BY <1>2, <1>3 DEF ControlInv, DataInv, AnswerInv
<1>14. QED
  BY <1>10, <1>11, <1>12, <1>13 DEF ChannelInv

LEMMA LastFrameKeeps ==
  ASSUME TypeInv, NEW c \in Channel, ChannelInv(c), LastFrame(c)
  PROVE  ChannelInv(c)'
<1> DEFINE o == out[c]
           f == RowFrame(c, TRUE)
<1>1. PhaseInv(c) /\ EventInv(c) /\ CopyInv(c) /\ pc[c] = "rows" /\ o.row >= o.sum
  BY DEF ChannelInv, LastFrame
<1>2. /\ req[c].afn = "0E" /\ at[c] = 0 /\ req[c].units # <<>>
      /\ req[c].units[1].fn \in {1, 2, 3} /\ ~bad[c]
  BY <1>1 DEF PhaseInv
<1>3. /\ pc'[c] = "unit" /\ req'[c] = req[c] /\ at'[c] = 1 /\ bad'[c] = bad[c] /\ ack'[c] = ack[c]
      /\ out'[c] = out[c] /\ EventBuf' = EventBuf
  BY <1>1, <1>2 DEF LastFrame, TypeInv
<1>4. /\ o.body \in Seq(Record) /\ o.row \in Nat /\ o.sum \in Int /\ o.frames \in Nat
      /\ sent[c] \in Seq(FrameType)
  BY DEF TypeInv
<1>5. /\ f \in FrameType /\ f.kind = "events" /\ f.seq = NextSeq(c) /\ f.fir = (o.frames = 0)
      /\ f.fin = TRUE /\ f.body = o.body
      /\ did'[c].torn = did[c].torn /\ did'[c].failed = did[c].failed
      /\ (did[c].dropped => did'[c].dropped)
      /\ Broadcast(req[c]) => sent'[c] = sent[c]
      /\ ~did'[c].dropped /\ ~Broadcast(req[c]) => sent'[c] = Append(sent[c], f)
  <2>1. Emit(c, TRUE)
    BY DEF LastFrame
  <2>2. QED
    BY <2>1, EmitLocal
<1> HIDE DEF f
<1>6. PhaseInv(c)'
  <2>1. /\ Mine(req[c]) /\ Served(req[c]) /\ req[c] # None
        /\ UnitCount(req[c]) \in Nat /\ 1 <= UnitCount(req[c])
    BY <1>1, <1>2, RequestType, EmptySeq DEF UnitCount
  <2>2. Broadcast(req[c]) => sent[c] = <<>>
    BY <1>1, <2>1 DEF PhaseInv
  <2>3. QED
    BY <1>2, <1>3, <1>5, <2>1, <2>2 DEF PhaseInv
<1>7. EventInv(c)'
  <2> SUFFICES ASSUME ~did'[c].dropped, ~Broadcast(req[c])
               PROVE  /\ Numbered(sent'[c], req[c])
                      /\ \A i \in 1 .. Len(sent'[c]) : sent'[c][i].fin = (i = Len(sent'[c]))
                      /\ sent'[c] # <<>>
    BY <1>2, <1>3 DEF EventInv
  <2>1. /\ Numbered(sent[c], req[c])
        /\ \A i \in 1 .. Len(sent[c]) : ~sent[c][i].fin
        /\ Len(sent[c]) = o.frames
        /\ seq[c] = IF o.frames = 0 THEN req[c].seq
                    ELSE (req[c].seq + o.frames - 1) % SeqNumbers
    BY <1>1, <1>2, <1>5 DEF EventInv
  <2>2. sent'[c] = Append(sent[c], f) /\ f \in FrameType /\ f.fin
    BY <1>5
  <2>3. req[c] \in Request
    BY <1>1, RequestType
  <2>4. Numbered(sent'[c], req[c])
    BY <1>5, <2>1, <2>2, <2>3, NumberedAppend
  <2>5. \A i \in 1 .. Len(sent'[c]) : sent'[c][i].fin = (i = Len(sent'[c]))
    <3>1. PICK s \in Seq(FrameType) : s = sent[c]
      BY <1>4
    <3>2. \A i \in 1 .. Len(s) + 1 : Append(s, f)[i] = (IF i <= Len(s) THEN s[i] ELSE f)
      BY <2>2, AppendProperties
    <3>3. Len(Append(s, f)) = Len(s) + 1 /\ Len(s) \in Nat
      BY <2>2, AppendProperties
    <3>4. \A i \in 1 .. Len(s) : s[i].fin = FALSE
      <4>1. \A i \in 1 .. Len(s) : s[i] \in FrameType
        BY ElementOfSeq
      <4>2. QED
        BY <2>1, <3>1, <4>1 DEF FrameType
    <3>5. f.fin = TRUE
      BY <1>5
    <3>6. PICK t : t = Append(s, f)
      OBVIOUS
    <3>7. ASSUME NEW i \in 1 .. Len(t)
          PROVE  t[i].fin = (i = Len(t))
      <4>1. i \in 1 .. Len(s) + 1 /\ Len(t) = Len(s) + 1
        BY <3>3, <3>6
      <4>2. CASE i <= Len(s)
        <5>1. t[i] = s[i] /\ i \in 1 .. Len(s) /\ i # Len(t)
          BY <3>2, <3>3, <3>6, <4>1, <4>2
        <5>2. QED
          BY <3>4, <5>1
      <4>3. CASE i = Len(s) + 1
        <5>1. ~(i <= Len(s))
          BY <3>3, <4>3
        <5>2. t[i] = f
          BY <3>2, <3>6, <4>1, <5>1
        <5>3. QED
          BY <3>5, <4>1, <4>3, <5>2
      <4>4. QED
        BY <3>3, <4>1, <4>2, <4>3
    <3>8. QED
      BY <2>2, <3>1, <3>6, <3>7
  <2>6. sent'[c] # <<>>
    BY <1>4, <2>2, AppendProperties
  <2>7. QED
    BY <2>4, <2>5, <2>6
<1>8. CopyInv(c)'
  <2> DEFINE u == req[c].units[1]
             S == Selected(u)
             B == FlattenSeq(Bodies(sent[c]))
  <2> SUFFICES ASSUME ~Broadcast(req[c]), ~did'[c].torn, ~did'[c].dropped, ~did'[c].failed
               PROVE  /\ \A i \in 1 .. Len(sent'[c]) : sent'[c][i].body \in Seq(Record)
                      /\ FlattenSeq(Bodies(sent'[c])) = SubSeq(S, 1, Granted(u))
    BY <1>3 DEF CopyInv
  <2>1. /\ \A i \in 1 .. Len(sent[c]) : sent[c][i].body \in Seq(Record)
        /\ o.sum = Granted(u) /\ o.row <= o.sum
        /\ B \o o.body = SubSeq(S, 1, o.row)
    BY <1>1, <1>2, <1>5 DEF CopyInv
  <2>2. o.row = Granted(u)
    BY <1>1, <1>4, <2>1
  <2>3. sent'[c] = Append(sent[c], f)
    BY <1>5
  <2>4. /\ FlattenSeq(Bodies(sent'[c])) = B \o o.body
        /\ \A i \in 1 .. Len(sent'[c]) : sent'[c][i].body \in Seq(Record)
    <3>1. f.body = o.body /\ f.body \in Seq(Record) /\ f \in FrameType
      BY <1>4, <1>5
    <3> HIDE DEF o
    <3>2. QED
      BY <1>4, <2>1, <2>3, <3>1, BodiesAppend
  <2>5. QED
    BY <2>1, <2>2, <2>4
<1>9. ControlInv(c)' /\ DataInv(c)' /\ AnswerInv(c)'
  BY <1>2, <1>3 DEF ControlInv, DataInv, AnswerInv
<1>10. QED
  BY <1>6, <1>7, <1>8, <1>9 DEF ChannelInv

--------------------------------------------------------------------------------
(* The answer: what is sent last, and what the whole answer is then.        *)
LEMMA SendLocal ==
  ASSUME TypeInv, NEW c \in Channel, NEW f \in FrameType, f.kind # "events", Send(c, f)
  PROVE  /\ did'[c] = did[c]
         /\ Broadcast(req[c]) => sent'[c] = sent[c]
         /\ ~Broadcast(req[c]) => sent'[c] = Append(sent[c], f)
<1>1. ~(Size(f) > Room)
  BY DispatcherAssumption DEF Size
<1>2. QED
  BY <1>1 DEF Send, TypeInv

(* The frame that Answer adds, if it adds one, is the last and no event.    *)
LEMMA AnswerLocal ==
  ASSUME TypeInv, NEW c \in Channel, PhaseInv(c), Answer(c)
  PROVE  LET r == req[c]
             says == r.afn = "05" /\ ~Muted(c)
             denies == r.afn \in {"09", "0A", "0C", "0E"} /\ Refused(c)
             gives == r.afn \in {"09", "0A", "0C"} /\ ~Refused(c) IN
         /\ pc[c] = "answer" /\ pc'[c] = "idle" /\ ack'[c] = NoAck /\ out'[c] = NoOut
         /\ req'[c] = r /\ at'[c] = at[c] /\ bad'[c] = bad[c] /\ seq'[c] = seq[c]
         /\ did'[c] = did[c]
         /\ Broadcast(r) \/ ~(says \/ denies \/ gives) => sent'[c] = sent[c]
         /\ ~Broadcast(r) /\ says => sent'[c] = Append(sent[c], ControlFrame(c))
         /\ ~Broadcast(r) /\ denies => sent'[c] = Append(sent[c], Refusal(c))
         /\ ~Broadcast(r) /\ gives => sent'[c] = Append(sent[c], DataFrame(c))
<1>1. /\ pc[c] = "answer" /\ pc'[c] = "idle" /\ ack'[c] = NoAck /\ out'[c] = NoOut
      /\ req'[c] = req[c] /\ at'[c] = at[c] /\ bad'[c] = bad[c] /\ seq'[c] = seq[c]
  BY DEF Answer, TypeInv
<1>2. /\ req[c].afn = "05" =>
              IF Muted(c) THEN UNCHANGED <<sent, did>>
              ELSE Send(c, ControlFrame(c)) /\ ControlFrame(c) \in FrameType
      /\ req[c].afn \in {"09", "0A", "0C", "0E"} =>
              IF Refused(c) THEN Send(c, Refusal(c)) ELSE
              IF req[c].afn = "0E" THEN UNCHANGED <<sent, did>> ELSE Send(c, DataFrame(c))
      /\ Refusal(c) \in FrameType /\ DataFrame(c) \in FrameType
      /\ req[c].afn \in {"05", "09", "0A", "0C", "0E"}
  BY AnswerFrames
<1>3. /\ ControlFrame(c).kind # "events" /\ Refusal(c).kind # "events" /\ DataFrame(c).kind # "events"
  BY DEF ControlFrame, Refusal, DataFrame, Frame
<1>4. CASE req[c].afn = "05"
  <2>1. CASE Muted(c)
    BY <1>1, <1>2, <1>4, <2>1
  <2>2. CASE ~Muted(c)
    <3>1. Send(c, ControlFrame(c)) /\ ControlFrame(c) \in FrameType
      BY <1>2, <1>4, <2>2
    <3>2. /\ did'[c] = did[c]
          /\ Broadcast(req[c]) => sent'[c] = sent[c]
          /\ ~Broadcast(req[c]) => sent'[c] = Append(sent[c], ControlFrame(c))
      BY <1>3, <3>1, SendLocal
    <3>3. QED
      BY <1>1, <1>4, <2>2, <3>2
  <2>3. QED
    BY <2>1, <2>2
<1>5. CASE req[c].afn \in {"09", "0A", "0C", "0E"}
  <2>1. CASE Refused(c)
    <3>1. Send(c, Refusal(c)) /\ Refusal(c) \in FrameType
      BY <1>2, <1>5, <2>1
    <3>2. /\ did'[c] = did[c]
          /\ Broadcast(req[c]) => sent'[c] = sent[c]
          /\ ~Broadcast(req[c]) => sent'[c] = Append(sent[c], Refusal(c))
      BY <1>3, <3>1, SendLocal
    <3>3. QED
      BY <1>1, <1>5, <2>1, <3>2
  <2>2. CASE ~Refused(c) /\ req[c].afn = "0E"
    BY <1>1, <1>2, <1>5, <2>2
  <2>3. CASE ~Refused(c) /\ req[c].afn # "0E"
    <3>1. Send(c, DataFrame(c)) /\ DataFrame(c) \in FrameType
      BY <1>2, <1>5, <2>3
    <3>2. /\ did'[c] = did[c]
          /\ Broadcast(req[c]) => sent'[c] = sent[c]
          /\ ~Broadcast(req[c]) => sent'[c] = Append(sent[c], DataFrame(c))
      BY <1>3, <3>1, SendLocal
    <3>3. QED
      BY <1>1, <1>5, <2>3, <3>2
  <2>4. QED
    BY <2>1, <2>2, <2>3
<1>6. QED
  BY <1>2, <1>4, <1>5

(* Of the requests that are not for events, the answer is one frame.        *)
LEMMA OneFrame ==
  ASSUME NEW s, s = <<>>, NEW f
  PROVE  /\ Append(s, f) = <<f>> /\ Len(<<f>>) = 1 /\ <<f>>[1] = f /\ <<f>> # <<>>
OBVIOUS

LEMMA ControlAnswered ==
  ASSUME TypeInv, NEW c \in Channel, ChannelInv(c), Answer(c), req[c].afn = "05"
  PROVE  InOrder(c)' /\ Whole(c)' /\ AnsweredAsPromised(c)' /\ AnsweredOnce(c)' /\ ToldTruly(c)'
<1> DEFINE r == req[c]
           f == ControlFrame(c)
<1>1. PhaseInv(c)
  BY DEF ChannelInv
<1>2. /\ pc[c] = "answer" /\ pc'[c] = "idle" /\ req'[c] = r /\ at'[c] = at[c] /\ bad'[c] = bad[c]
      /\ did'[c] = did[c]
      /\ Broadcast(r) \/ Muted(c) => sent'[c] = sent[c]
      /\ ~Broadcast(r) /\ ~Muted(c) => sent'[c] = Append(sent[c], f)
  BY <1>1, AnswerLocal
<1>3. sent[c] = <<>> /\ Mine(r) /\ Served(r) /\ r # None
  BY <1>1, <1>2, RequestType DEF PhaseInv
<1>4. /\ Broadcast(r) \/ Muted(c) => sent'[c] = <<>>
      /\ ~Broadcast(r) /\ ~Muted(c) => sent'[c] = <<f>>
  BY <1>2, <1>3, OneFrame
<1>5. f.kind # "events" /\ f.fin
  BY DEF ControlFrame, Frame
<1> HIDE DEF f
<1>6. EventFrames(c)' = {}
  BY <1>4, <1>5, OneFrame DEF EventFrames
<1>7. InOrder(c)'
  BY <1>6 DEF InOrder
<1>8. Whole(c)' /\ AnsweredAsPromised(c)'
  BY <1>2 DEF Whole, AnsweredAsPromised
<1>9. AnsweredOnce(c)'
  <2>1. Muted(c)' = Muted(c)
    BY <1>2 DEF Muted
  <2>2. Addressed(c)' = ~Broadcast(r) /\ Finished(c)'
    BY <1>2, <1>3 DEF Addressed, Finished
  <2>3. CASE Broadcast(r) \/ Muted(c)
    BY <1>2, <1>4, <2>1, <2>2, <2>3 DEF AnsweredOnce
  <2>4. CASE ~Broadcast(r) /\ ~Muted(c)
    <3>1. sent'[c] = <<f>>
      BY <1>4, <2>4
    <3>2. {i \in 1 .. Len(sent'[c]) : sent'[c][i].fin} = {Len(sent'[c])} /\ sent'[c] # <<>>
      BY <1>5, <3>1, OneFrame
    <3>3. QED
      BY <2>2, <2>4, <3>2 DEF AnsweredOnce
  <2>5. QED
    BY <2>3, <2>4
<1>10. ToldTruly(c)'
  <2> SUFFICES ASSUME sent'[c] # <<>>, ~did'[c].failed
               PROVE  did[c].clock = \E i \in 1 .. Len(f.body) : f.body[i].ok /\ f.body[i].unit.fn = 31
    <3>1. sent'[c] # <<>> => sent'[c][1] = f
      BY <1>4, OneFrame
    <3>2. did'[c].clock = did[c].clock
      BY <1>2
    <3>3. QED
      BY <3>1, <3>2 DEF ToldTruly
  <2>1. did[c].clock = \E i \in 1 .. at[c] : r.units[i].fn = 31 /\ ~(bad[c] /\ i = at[c])
    BY <1>2 DEF ChannelInv, ControlInv
  <2>2. at[c] \in Nat /\ bad[c] \in BOOLEAN
    BY DEF TypeInv
  <2>3. CASE AllFailed(at[c], bad[c])
    <3>1. f.body = <<>>
      BY <2>3 DEF f, ControlFrame, Frame
    <3>2. at[c] = 0 \/ (bad[c] /\ at[c] = 1)
      BY <2>3 DEF AllFailed
    <3>3. ~ \E i \in 1 .. at[c] : r.units[i].fn = 31 /\ ~(bad[c] /\ i = at[c])
      BY <2>2, <3>2
    <3>4. ~ \E i \in 1 .. Len(f.body) : f.body[i].ok /\ f.body[i].unit.fn = 31
      BY <3>1
    <3>5. did[c].clock \in BOOLEAN
      BY DEF TypeInv, Did
    <3>6. QED
      BY <2>1, <3>3, <3>4
  <2>4. CASE ~AllFailed(at[c], bad[c])
    <3>1. f.body = Results(c)
      BY <2>4 DEF f, ControlFrame, Frame
    <3>2. Len(Results(c)) = at[c]
      BY <1>1, <1>2, ResultsType
    <3>3. \A i \in 1 .. at[c] : /\ Results(c)[i].unit = r.units[i]
                                /\ Results(c)[i].ok = ~(bad[c] /\ i = at[c])
      BY DEF Results
    <3>4. (\E i \in 1 .. at[c] : r.units[i].fn = 31 /\ ~(bad[c] /\ i = at[c]))
          <=> \E i \in 1 .. at[c] : Results(c)[i].ok /\ Results(c)[i].unit.fn = 31
      BY <3>3
    <3>5. QED
      BY <2>1, <3>1, <3>2, <3>4
  <2>5. QED
    BY <2>3, <2>4
<1>11. QED
  BY <1>7, <1>8, <1>9, <1>10

LEMMA DataAnswered ==
  ASSUME TypeInv, NEW c \in Channel, ChannelInv(c), Answer(c), req[c].afn \in {"09", "0A", "0C"}
  PROVE  InOrder(c)' /\ Whole(c)' /\ AnsweredAsPromised(c)' /\ AnsweredOnce(c)' /\ ToldTruly(c)'
<1> DEFINE r == req[c]
           f == IF Refused(c) THEN Refusal(c) ELSE DataFrame(c)
<1>1. PhaseInv(c) /\ DataInv(c)
  BY DEF ChannelInv
<1>2. /\ pc[c] = "answer" /\ pc'[c] = "idle" /\ req'[c] = r /\ at'[c] = at[c] /\ bad'[c] = bad[c]
      /\ did'[c] = did[c]
      /\ Broadcast(r) => sent'[c] = sent[c]
      /\ ~Broadcast(r) => sent'[c] = Append(sent[c], f)
  <2>1. r.afn # "05"
    OBVIOUS
  <2>2. QED
    BY <1>1, <2>1, AnswerLocal
<1>3. sent[c] = <<>> /\ Mine(r) /\ Served(r) /\ r # None /\ seq[c] = r.seq
  BY <1>1, <1>2, RequestType DEF PhaseInv
<1>4. /\ Broadcast(r) => sent'[c] = <<>>
      /\ ~Broadcast(r) => sent'[c] = <<f>>
  BY <1>2, <1>3, OneFrame
<1>5. f.kind # "events" /\ f.fin
  BY DEF Refusal, DataFrame, Frame
<1> HIDE DEF f
<1>6. EventFrames(c)' = {}
  BY <1>4, <1>5, OneFrame DEF EventFrames
<1>7. InOrder(c)'
  BY <1>6 DEF InOrder
<1>8. Whole(c)' /\ ToldTruly(c)'
  BY <1>2 DEF Whole, ToldTruly
<1>9. Addressed(c)' = ~Broadcast(r)
  BY <1>2, <1>3 DEF Addressed, Finished
<1>10. AnsweredOnce(c)'
  <2>1. CASE Broadcast(r)
    BY <1>4, <1>9, <2>1 DEF AnsweredOnce
  <2>2. CASE ~Broadcast(r)
    <3>1. {i \in 1 .. Len(sent'[c]) : sent'[c][i].fin} = {Len(sent'[c])} /\ sent'[c] # <<>>
      <4>1. sent'[c] = <<f>>
        BY <1>4, <2>2
      <4>2. QED
        BY <1>5, <4>1, OneFrame
    <3>2. QED
      BY <1>9, <2>2, <3>1 DEF AnsweredOnce
  <2>3. QED
    BY <2>1, <2>2
<1>11. AnsweredAsPromised(c)'
  <2> SUFFICES ASSUME Plain(r), ~did[c].failed, ~Broadcast(r)
               PROVE  f = IF RefusedInFull(r) THEN Frame("all_err", r.seq, TRUE, TRUE, <<>>)
                          ELSE Frame("data", r.seq, TRUE, TRUE, Promised(r))
    BY <1>2, <1>4, <1>9 DEF AnsweredAsPromised
  <2> DEFINE w == KeptTo(r.units, WorkingAt(r))
             k == Len(r.units)
  <2>1. /\ r.units \in Seq(DataUnit) /\ k \in Nat /\ at[c] \in Nat /\ at[c] <= UnitCount(r)
        /\ bad[c] \in BOOLEAN
    BY <1>1, <1>2, RequestType DEF TypeInv
  <2>2. /\ w[k] = Working(r) /\ w[k] \in Seq(DataUnit)
        /\ Len(w[k]) <= k /\ (Len(w[k]) = k <=> \A i \in 1 .. k : i \in WorkingAt(r))
    <3>1. k \in 0 .. k
      BY <2>1
    <3>2. QED
      BY <2>1, <3>1, KeptToSize DEF Working, Kept
  <2>3. Len(w[k]) \in Nat
    <3> HIDE DEF w, k
    <3>1. QED
      BY <2>2, LenProperties
  <2>4. /\ Content(ack[c]) = Pairs(WorkedOf(c)) /\ ack[c].len = 2 * Len(WorkedOf(c))
    BY <1>1, <1>2 DEF DataInv
  <2>5. Refused(c) <=> RefusedInFull(r)
    <3>1. CASE r.afn = "0C"
      <4>1. ~bad[c] /\ at[c] = k + 1
        BY <1>1, <1>2, <3>1 DEF DataInv, PhaseInv, UnitCount
      <4>2. Taken(c) = k
        BY <2>1, <4>1 DEF Taken
      <4>3. ack[c].len = 2 * Len(w[k])
        BY <2>4, <4>2 DEF WorkedOf
      <4>4. ack[c].len = 0 <=> Len(w[k]) = 0
        <5> HIDE DEF w, k
        <5>1. QED
          BY <2>3, <4>3
      <4>5. Len(w[k]) = 0 <=> w[k] = <<>>
        <5> HIDE DEF w, k
        <5>1. QED
          BY <2>2, EmptySeq
      <4>6. QED
        BY <2>2, <3>1, <4>4, <4>5 DEF Refused, RefusedInFull
    <3>2. CASE r.afn \in {"09", "0A"}
      <4>1. Refused(c) <=> bad[c]
        BY <2>1, <3>2 DEF Refused
      <4>2. RefusedInFull(r) <=> Len(w[k]) < k
        BY <2>2, <3>2 DEF RefusedInFull
      <4>3. UnitCount(r) = k
        BY <3>2 DEF UnitCount
      <4>4. CASE bad[c]
        <5>1. at[c] \in 1 .. k /\ at[c] \notin WorkingAt(r)
          BY <1>1, <1>2, <2>1, <3>2, <4>3, <4>4 DEF DataInv, PhaseInv
        <5>2. Len(w[k]) # k
          BY <2>2, <5>1
        <5> HIDE DEF w, k
        <5>3. Len(w[k]) < k
          BY <2>1, <2>2, <2>3, <5>2
        <5>4. QED
          BY <4>1, <4>2, <4>4, <5>3
      <4>5. CASE ~bad[c]
        <5>1. at[c] = k /\ 1 .. at[c] \subseteq WorkingAt(r)
          BY <1>1, <1>2, <3>2, <4>3, <4>5 DEF DataInv, PhaseInv
        <5>2. Len(w[k]) = k
          BY <2>2, <5>1
        <5> HIDE DEF w, k
        <5>3. ~(Len(w[k]) < k)
          BY <2>1, <5>2
        <5>4. QED
          BY <4>1, <4>2, <4>5, <5>3
      <4>6. QED
        BY <4>4, <4>5
    <3>3. QED
      BY <3>1, <3>2
  <2>6. CASE Refused(c)
    BY <1>3, <2>5, <2>6 DEF f, Refusal
  <2>7. CASE ~Refused(c)
    <3>1. Taken(c) = k
      <4>1. CASE r.afn = "0C"
        <5>1. at[c] = k + 1
          BY <1>1, <1>2, <4>1 DEF DataInv, PhaseInv, UnitCount
        <5>2. QED
          BY <2>1, <5>1 DEF Taken
      <4>2. CASE r.afn \in {"09", "0A"}
        <5>1. ~bad[c]
          BY <2>7, <4>2 DEF Refused
        <5>2. at[c] = k
          BY <1>1, <1>2, <4>2, <5>1 DEF PhaseInv, UnitCount
        <5>3. QED
          BY <2>1, <5>2 DEF Taken
      <4>3. QED
        BY <4>1, <4>2
    <3>2. WorkedOf(c) = Working(r)
      BY <2>2, <3>1 DEF WorkedOf
    <3>3. Content(ack[c]) = Promised(r)
      BY <2>4, <3>2 DEF Promised
    <3>4. QED
      BY <1>3, <2>5, <2>7, <3>3 DEF f, DataFrame
  <2>8. QED
    BY <2>6, <2>7
<1>12. QED
  BY <1>7, <1>8, <1>10, <1>11

LEMMA EventsAnswered ==
  ASSUME TypeInv, NEW c \in Channel, ChannelInv(c), Answer(c), req[c].afn = "0E"
  PROVE  InOrder(c)' /\ Whole(c)' /\ AnsweredAsPromised(c)' /\ AnsweredOnce(c)' /\ ToldTruly(c)'
<1> DEFINE r == req[c]
           s == sent[c]
           t == sent'[c]
           f == Refusal(c)
<1>1. PhaseInv(c) /\ EventInv(c) /\ CopyInv(c)
  BY DEF ChannelInv
<1>2. /\ pc[c] = "answer" /\ pc'[c] = "idle" /\ req'[c] = r /\ at'[c] = at[c] /\ bad'[c] = bad[c]
      /\ did'[c] = did[c]
      /\ Broadcast(r) \/ ~bad[c] => t = s
      /\ ~Broadcast(r) /\ bad[c] => t = Append(s, f)
  <2>1. r.afn # "05" /\ (Refused(c) <=> bad[c])
    BY DEF Refused, TypeInv
  <2>2. QED
    BY <1>1, <2>1, AnswerLocal
<1>3. /\ Mine(r) /\ Served(r) /\ r # None /\ at[c] \in Nat /\ Len(r.units) \in Nat
      /\ r.units \in Seq(DataUnit)
      /\ UnitCount(r) = Len(r.units) /\ at[c] <= Len(r.units)
      /\ s \in Seq(FrameType) /\ Len(s) \in Nat /\ f \in FrameType
  <2>1. Mine(r) /\ Served(r) /\ r # None /\ Len(r.units) \in Nat /\ at[c] <= UnitCount(r)
        /\ r.units \in Seq(DataUnit)
    BY <1>1, <1>2, RequestType
  <2>2. s \in Seq(FrameType) /\ at[c] \in Nat
    BY DEF TypeInv
  <2>3. f \in FrameType
    BY <1>1, AnswerFrames
  <2> HIDE DEF s, f
  <2>4. QED
    BY <2>1, <2>2, <2>3 DEF UnitCount
<1>4. f.kind # "events" /\ f.fin /\ f.body = <<>>
  BY DEF Refusal, Frame
<1>5. /\ Broadcast(r) => s = <<>>
      /\ ~bad[c] => at[c] = Len(r.units)
      /\ bad[c] => at[c] >= 1
  BY <1>1, <1>2, <1>3 DEF PhaseInv
<1>6. ~did[c].dropped /\ ~Broadcast(r) =>
        /\ \A i \in 1 .. Len(s) : /\ s[i].kind = "events" /\ s[i].seq = (r.seq + i - 1) % SeqNumbers
                                  /\ s[i].fir = (i = 1) /\ s[i].fin = (i = Len(s))
        /\ at[c] >= 1 /\ ~bad[c] => s # <<>>
        /\ bad[c] /\ at[c] = 1 => s = <<>>
  BY <1>1, <1>2 DEF EventInv, Numbered
<1>7. Addressed(c)' = ~Broadcast(r) /\ Finished(c)'
  BY <1>2, <1>3 DEF Addressed, Finished
<1>8. /\ \/ t = s
         \/ t = Append(s, f)
      /\ Len(t) \in Nat /\ Len(t) >= Len(s)
      /\ \A i \in 1 .. Len(s) : t[i] = s[i]
      /\ \A i \in 1 .. Len(t) : i > Len(s) => t[i] = f
  <2>1. CASE t = s
    BY <1>3, <2>1
  <2>2. CASE t = Append(s, f)
    <3>1. /\ Len(t) = Len(s) + 1 /\ t[Len(s) + 1] = f /\ \A i \in 1 .. Len(s) : t[i] = s[i]
      BY <1>3, <2>2, AppendProperties
    <3> HIDE DEF s, t, f
    <3>2. QED
      BY <1>3, <2>2, <3>1
  <2>3. QED
    BY <1>2, <2>1, <2>2
<1> HIDE DEF s, f
<1>9. InOrder(c)'
  <2> SUFFICES ASSUME ~did[c].dropped PROVE InOrder(c)'
    BY <1>2 DEF InOrder
  <2>1. CASE Broadcast(r)
    <3>1. Len(t) = 0
      BY <1>2, <1>5, <2>1
    <3>2. EventFrames(c)' = {}
      BY <3>1 DEF EventFrames
    <3>3. QED
      BY <3>2 DEF InOrder
  <2>2. CASE ~Broadcast(r)
    <3>1. EventFrames(c)' = 1 .. Len(s)
      <4>1. \A i \in 1 .. Len(t) : t[i].kind = "events" <=> i \in 1 .. Len(s)
        BY <1>3, <1>4, <1>6, <1>8, <2>2
      <4>2. 1 .. Len(s) \subseteq 1 .. Len(t)
        BY <1>3, <1>8
      <4>3. EventFrames(c)' = {i \in 1 .. Len(t) : t[i].kind = "events"}
        BY DEF EventFrames
      <4> HIDE DEF t
      <4>4. QED
        BY <4>1, <4>2, <4>3
    <3>2. \A i \in 1 .. Len(s) : /\ t[i].seq = (r.seq + i - 1) % SeqNumbers
                                 /\ t[i].fir = (i = 1) /\ t[i].fin = (i = Len(s))
      BY <1>6, <1>8, <2>2
    <3>3. 1 .. Len(s) # {} => Len(s) \in 1 .. Len(s)
      BY <1>3
    <3>4. ASSUME NEW i \in 1 .. Len(s), t[i].fin
          PROVE  \A j \in 1 .. Len(s) : j <= i
      <4>1. i = Len(s)
        BY <3>2, <3>4
      <4>2. QED
        BY <1>3, <4>1
    <3>5. QED
      BY <1>2, <3>1, <3>2, <3>3, <3>4 DEF InOrder
  <2>3. QED
    BY <2>1, <2>2
<1>10. Whole(c)'
  <2> DEFINE u == r.units[1]
  <2> SUFFICES ASSUME ~Broadcast(r), r.units # <<>>, ~did[c].torn, ~did[c].dropped, ~did[c].failed,
                      u.fn \in {1, 3}
               PROVE  FlattenSeq(Bodies(t)) = SubSeq(Selected(u), 1, Granted(u))
    BY <1>2, <1>7 DEF Whole
  <2>1. at[c] >= 1
    BY <1>3, <1>5, EmptySeq
  <2>2. /\ \A i \in 1 .. Len(s) : s[i].body \in Seq(Record)
        /\ FlattenSeq(Bodies(s)) = SubSeq(Selected(u), 1, Granted(u))
    BY <1>1, <1>2, <2>1 DEF CopyInv, s
  <2>3. f.body \in Seq(Record)
    BY <1>4, EmptySeq
  <2>4. /\ FlattenSeq(Bodies(Append(s, f))) = FlattenSeq(Bodies(s)) \o f.body
        /\ FlattenSeq(Bodies(s)) \in Seq(Record)
    BY <1>3, <2>2, <2>3, BodiesAppend
  <2>5. FlattenSeq(Bodies(s)) \o <<>> = FlattenSeq(Bodies(s))
    BY <2>4, ConcatEmptySeq
  <2>6. QED
    BY <1>4, <1>8, <2>2, <2>4, <2>5
<1>11. AnsweredAsPromised(c)' /\ ToldTruly(c)'
  BY <1>2 DEF AnsweredAsPromised, ToldTruly
<1>12. AnsweredOnce(c)'
  <2>1. CASE Broadcast(r)
    <3>1. t = <<>>
      BY <1>2, <1>5, <2>1
    <3>2. QED
      BY <1>7, <2>1, <3>1 DEF AnsweredOnce
  <2>2. CASE ~Broadcast(r)
    <3> SUFFICES ASSUME ~did[c].dropped, Len(r.units) = 1
                 PROVE  t # <<>> /\ {i \in 1 .. Len(t) : t[i].fin} = {Len(t)}
      BY <1>2, <1>3, <1>7, <2>2 DEF AnsweredOnce, Finished
    <3>1. at[c] = 1
      BY <1>3, <1>5
    <3>2. CASE bad[c]
      <4>1. t = <<f>>
        BY <1>2, <1>6, <2>2, <3>1, <3>2, OneFrame DEF s
      <4> HIDE DEF t
      <4>2. QED
        BY <1>4, <4>1, OneFrame
    <3>3. CASE ~bad[c]
      <4>1. t = s /\ s # <<>>
        BY <1>2, <1>6, <2>2, <3>1, <3>3
      <4>2. \A i \in 1 .. Len(t) : t[i].fin = (i = Len(t))
        BY <1>6, <2>2, <4>1
      <4>3. Len(t) \in 1 .. Len(t)
        BY <1>3, <4>1, EmptySeq
      <4> HIDE DEF t
      <4>4. QED
        BY <4>1, <4>2, <4>3
    <3>4. QED
      BY <3>2, <3>3
  <2>3. QED
    BY <2>1, <2>2
<1>13. QED
  BY <1>9, <1>10, <1>11, <1>12

LEMMA AnswerKeeps ==
  ASSUME TypeInv, NEW c \in Channel, ChannelInv(c), Answer(c)
  PROVE  ChannelInv(c)'
<1>1. PhaseInv(c)
  BY DEF ChannelInv
<1>2. /\ pc[c] = "answer" /\ pc'[c] = "idle" /\ ack'[c] = NoAck /\ out'[c] = NoOut
      /\ req'[c] = req[c] /\ at'[c] = at[c] /\ bad'[c] = bad[c]
      /\ Broadcast(req[c]) => sent'[c] = sent[c]
  BY <1>1, AnswerLocal
<1>3. PhaseInv(c)'
  <2>1. Mine(req[c]) /\ Served(req[c]) /\ req[c] # None
    BY <1>1, <1>2, RequestType
  <2>2. QED
    BY <1>1, <1>2, <2>1 DEF PhaseInv
<1>4. EventInv(c)' /\ CopyInv(c)' /\ ControlInv(c)' /\ DataInv(c)'
  BY <1>2 DEF EventInv, CopyInv, ControlInv, DataInv
<1>5. AnswerInv(c)'
  <2>1. req[c].afn \in {"05", "09", "0A", "0C", "0E"}
    BY <1>1, AnswerFrames
  <2>2. QED
    BY <2>1, ControlAnswered, DataAnswered, EventsAnswered DEF AnswerInv
<1>6. QED
  BY <1>3, <1>4, <1>5 DEF ChannelInv

--------------------------------------------------------------------------------
(* The invariant holds at first and every step keeps it.                    *)
LEMMA InitInv == Init => DispatcherInv
<1> SUFFICES ASSUME Init PROVE DispatcherInv
  OBVIOUS
<1>1. Nothing \in Did
  BY DEF Nothing, Did
<1>2. NoOut \in [body : Seq(Record), row : Nat, sum : Nat \cup {-1}, frames : Nat]
  BY EmptySeq DEF NoOut
<1>3. IsAck(NoAck)
  BY DEF NoAck, IsAck
<1>4. 0 \in 0 .. SeqNumbers - 1
  BY DispatcherAssumption
<1>5. TypeInv
  <2>1. did \in [Channel -> Did] /\ out \in [Channel -> [body : Seq(Record), row : Nat,
                                               sum : Nat \cup {-1}, frames : Nat]]
    BY <1>1, <1>2 DEF Init
  <2>2. sent \in [Channel -> Seq(FrameType)] /\ EventBuf \in Seq(Record)
    BY EmptySeq DEF Init
  <2>3. DOMAIN ack = Channel /\ \A c \in Channel : req[c] \in Asked[c] \cup {None} /\ IsAck(ack[c])
    BY <1>3 DEF Init
  <2>4. /\ pc \in [Channel -> {"idle", "unit", "rows", "answer"}]
        /\ req \in [Channel -> Request \cup {None}]
        /\ at \in [Channel -> Nat] /\ bad \in [Channel -> BOOLEAN]
        /\ seq \in [Channel -> 0 .. SeqNumbers - 1]
    BY <1>4 DEF Init
  <2>5. QED
    BY <2>1, <2>2, <2>3, <2>4 DEF TypeInv
<1>6. ASSUME NEW c \in Channel
      PROVE  ChannelInv(c)
  <2>1. /\ pc[c] = "idle" /\ req[c] = None /\ at[c] = 0 /\ bad[c] = FALSE /\ sent[c] = <<>>
        /\ ack[c] = NoAck /\ out[c] = NoOut /\ did[c] = Nothing
    BY DEF Init
  <2>2. PhaseInv(c)
    BY <2>1 DEF PhaseInv
  <2>3. EventInv(c) /\ CopyInv(c) /\ ControlInv(c) /\ DataInv(c)
    BY <2>1 DEF EventInv, CopyInv, ControlInv, DataInv
  <2>4. ~Finished(c) /\ ~Addressed(c) /\ EventFrames(c) = {}
    BY <2>1 DEF Finished, Addressed, EventFrames
  <2>5. AnswerInv(c)
    BY <2>4 DEF AnswerInv, InOrder, Whole, AnsweredAsPromised, AnsweredOnce, ToldTruly
  <2>6. QED
    BY <2>2, <2>3, <2>5 DEF ChannelInv
<1>7. QED
  BY <1>5, <1>6 DEF DispatcherInv

LEMMA OwnStepKeeps ==
  ASSUME TypeInv, NEW c \in Channel, ChannelInv(c), ParseData(c) \/ Handle(c)
  PROVE  ChannelInv(c)'
BY ParseDataKeeps, AFN_05HKeeps, AFN_09HKeeps, AFN_0AHKeeps, AFN_0CHKeeps, NoMoreUnitsKeeps,
   FetchKeeps, AFN_0EH_failsKeeps, NextRowKeeps, LastFrameKeeps, AnswerKeeps DEF Handle

LEMMA NextInv == DispatcherInv /\ [Next]_vars => DispatcherInv'
<1> SUFFICES ASSUME DispatcherInv, [Next]_vars PROVE DispatcherInv'
  OBVIOUS
<1>1. TypeInv /\ \A c \in Channel : ChannelInv(c)
  BY DEF DispatcherInv
<1>2. CASE ReportFetch
  <2>1. TypeInv' /\ \A c \in Channel : Same(c)
    BY <1>1, <1>2, ReportFetchKeeps
  <2>2. \A c \in Channel : ChannelInv(c)'
    BY <1>1, <2>1, SameKeeps
  <2>3. QED
    BY <2>1, <2>2 DEF DispatcherInv
<1>3. ASSUME NEW d \in Channel, ParseData(d) \/ Handle(d)
      PROVE  DispatcherInv'
  <2>1. PhaseInv(d) /\ EventInv(d)
    BY <1>1 DEF ChannelInv
  <2>2. TypeInv'
    BY <1>1, <1>3, <2>1, StepTypes
  <2>3. ASSUME NEW c \in Channel
        PROVE  ChannelInv(c)'
    <3>1. CASE c = d
      BY <1>1, <1>3, <3>1, OwnStepKeeps
    <3>2. CASE c # d
      <4>1. Same(c)
        BY <1>1, <1>3, <3>2, OthersUntouched
      <4>2. QED
        BY <1>1, <4>1, SameKeeps
    <3>3. QED
      BY <3>1, <3>2
  <2>4. QED
    BY <2>2, <2>3 DEF DispatcherInv
<1>4. CASE UNCHANGED vars
  <2>1. TypeInv'
    BY <1>1, <1>4 DEF vars, TypeInv
  <2>2. \A c \in Channel : Same(c)
    BY <1>4 DEF vars, Same
  <2>3. \A c \in Channel : ChannelInv(c)'
    BY <1>1, <2>2, SameKeeps
  <2>4. QED
    BY <2>1, <2>3 DEF DispatcherInv
<1>5. QED
  BY <1>2, <1>3, <1>4 DEF Next

(* The invariant of the dispatcher: for every set of channels, every set of *)
(* requests that may arrive and every content of the event tables.          *)
THEOREM DispatcherKeepsInv == Spec => []DispatcherInv
<1>1. QED
  BY InitInv, NextInv, PTL DEF Spec

(* While a request is handled its answer is not finished, and the frames    *)
(* sent so far are already in order.                                        *)
LEMMA InvOrdersFrames ==
  ASSUME TypeInv, NEW c \in Channel, ChannelInv(c)
  PROVE  InOrder(c)
<1>1. PhaseInv(c) /\ EventInv(c) /\ AnswerInv(c)
  BY DEF ChannelInv
<1>2. CASE pc[c] = "idle"
  BY <1>1, <1>2 DEF AnswerInv
<1>3. CASE pc[c] # "idle" /\ (req[c].afn # "0E" \/ Broadcast(req[c]))
  <2>1. req[c] # None
    BY <1>1, <1>3 DEF PhaseInv
  <2>2. sent[c] = <<>>
    BY <1>1, <1>3, <2>1 DEF PhaseInv
  <2>3. EventFrames(c) = {}
    BY <2>2 DEF EventFrames
  <2>4. QED
    BY <2>3 DEF InOrder
<1>4. CASE pc[c] # "idle" /\ req[c].afn = "0E" /\ ~Broadcast(req[c])
  <2> SUFFICES ASSUME ~did[c].dropped PROVE InOrder(c)
    BY DEF InOrder
  <2>1. /\ Numbered(sent[c], req[c])
        /\ \/ \A i \in 1 .. Len(sent[c]) : ~sent[c][i].fin
           \/ \A i \in 1 .. Len(sent[c]) : sent[c][i].fin = (i = Len(sent[c]))
    BY <1>1, <1>4 DEF EventInv
  <2>2. Len(sent[c]) \in Nat
    BY LenProperties DEF TypeInv
  <2>3. EventFrames(c) = 1 .. Len(sent[c])
    BY <2>1 DEF EventFrames, Numbered
  <2>4. ASSUME NEW i \in 1 .. Len(sent[c]), sent[c][i].fin
        PROVE  \A j \in 1 .. Len(sent[c]) : j <= i
    <3>1. i = Len(sent[c])
      BY <2>1, <2>4
    <3>2. QED
      BY <2>2, <3>1
  <2>5. ~Finished(c)
    BY <1>4 DEF Finished
  <2>6. QED
    BY <2>1, <2>3, <2>4, <2>5 DEF InOrder, Numbered
<1>5. QED
  BY <1>2, <1>3, <1>4

LEMMA InvAnswersRight ==
  ASSUME TypeInv, NEW c \in Channel, ChannelInv(c)
  PROVE  Whole(c) /\ AnsweredAsPromised(c) /\ AnsweredOnce(c) /\ ToldTruly(c)
<1>1. CASE pc[c] = "idle"
  BY <1>1 DEF ChannelInv, AnswerInv
<1>2. CASE pc[c] # "idle"
  BY <1>2 DEF Whole, AnsweredAsPromised, AnsweredOnce, ToldTruly, Addressed, Finished
<1>3. QED
  BY <1>1, <1>2

(* The frames that answer one request for events are numbered on from the   *)
(* number of the request modulo 16, the first and only the first says that  *)
(* it is the first, and exactly the last one says that it is the last: what *)
(* Protocl13761ParseData's AFN 0E handlers leave in the frame buffer        *)
(* between two frames.                                                      *)
THEOREM FramesStayInOrder == Spec => []FramesInOrder
<1>1. DispatcherInv => FramesInOrder
  BY InvOrdersFrames DEF DispatcherInv, FramesInOrder
<1>2. QED
  BY <1>1, DispatcherKeepsInv, PTL

(* The rows a request for events selects arrive once each and in order,     *)
(* wherever the length limit splits them into frames, unless another thread *)
(* overwrote EventBuf meanwhile, a frame was too long or the database       *)
(* failed.                                                                  *)
THEOREM EventsArriveWhole == Spec => []EventsWhole
<1>1. DispatcherInv => EventsWhole
  BY InvAnswersRight DEF DispatcherInv, EventsWhole
<1>2. QED
  BY <1>1, DispatcherKeepsInv, PTL

(* A plain request of AFN 09, 0A or 0C is answered with the data of every   *)
(* unit that works and with nothing else, or is refused.                    *)
THEOREM UnitsAreAnswered == Spec => []UnitsAnswered
<1>1. DispatcherInv => UnitsAnswered
  BY InvAnswersRight DEF DispatcherInv, UnitsAnswered
<1>2. QED
  BY <1>1, DispatcherKeepsInv, PTL

(* Every request for this terminal that is no broadcast gets exactly one    *)
(* final frame, as its last, and nobody else is answered.                   *)
THEOREM AnswersAreSingle == Spec => []OneAnswer
<1>1. DispatcherInv => OneAnswer
  BY InvAnswersRight DEF DispatcherInv, OneAnswer
<1>2. QED
  BY <1>1, DispatcherKeepsInv, PTL

(* What an answer to AFN 05 says of the clock is what the request did to    *)
(* it.                                                                      *)
THEOREM ControlToldTruly == Spec => []ControlIsTold
<1>1. DispatcherInv => ControlIsTold
  BY InvAnswersRight DEF DispatcherInv, ControlIsTold
<1>2. QED
  BY <1>1, DispatcherKeepsInv, PTL

(* The types of the dispatcher's variables.                                 *)
THEOREM DispatcherTypes == Spec => []TypeOK
<1>1. ASSUME DispatcherInv PROVE TypeOK
  <2>1. TypeInv /\ \A c \in Channel : PhaseInv(c)
    BY <1>1 DEF DispatcherInv, ChannelInv
  <2>2. \A c \in Channel : req[c] = None => pc[c] = "idle"
    BY <2>1 DEF PhaseInv
  <2>3. QED
    BY <2>1, <2>2 DEF TypeOK, TypeInv
<1>2. QED
  BY <1>1, DispatcherKeepsInv, PTL

--------------------------------------------------------------------------------
(* The file transfer.                                                          *)
(* Bytes: the file up to a place is the file up to an earlier one and the rest. *)
LEMMA BytesType ==
  ASSUME NEW b \in Nat, NEW n \in Nat
  PROVE  /\ FT!Bytes(b, n) \in Seq(Int) /\ Len(FT!Bytes(b, n)) = n
         /\ \A i \in 1 .. n : FT!Bytes(b, n)[i] = b + i
BY DEF FT!Bytes

LEMMA BytesMore ==
  ASSUME NEW b \in Nat, NEW n \in Nat
  PROVE  FT!Bytes(0, b) \o FT!Bytes(b, n) = FT!Bytes(0, b + n)
<1>1. PICK u, v, w : u = FT!Bytes(0, b) /\ v = FT!Bytes(b, n) /\ w = FT!Bytes(0, b + n)
  OBVIOUS
<1>2. /\ u \in Seq(Int) /\ Len(u) = b /\ \A i \in 1 .. b : u[i] = 0 + i
      /\ v \in Seq(Int) /\ Len(v) = n /\ \A i \in 1 .. n : v[i] = b + i
      /\ w \in Seq(Int) /\ Len(w) = b + n /\ \A i \in 1 .. b + n : w[i] = 0 + i
  <2>1. 0 \in Nat /\ b + n \in Nat
    OBVIOUS
  <2>2. u \in Seq(Int) /\ Len(u) = b /\ \A i \in 1 .. b : u[i] = 0 + i
    BY <1>1, <2>1, BytesType
  <2>3. v \in Seq(Int) /\ Len(v) = n /\ \A i \in 1 .. n : v[i] = b + i
    BY <1>1, BytesType
  <2>4. w \in Seq(Int) /\ Len(w) = b + n /\ \A i \in 1 .. b + n : w[i] = 0 + i
    BY <1>1, <2>1, BytesType
  <2>5. QED
    BY <2>2, <2>3, <2>4
<1>3. /\ u \o v \in Seq(Int) /\ Len(u \o v) = b + n
      /\ \A i \in 1 .. b + n : (u \o v)[i] = IF i <= b THEN u[i] ELSE v[i - b]
  <2>1. /\ u \o v \in Seq(Int) /\ Len(u \o v) = Len(u) + Len(v)
        /\ \A i \in 1 .. Len(u) + Len(v) :
             (u \o v)[i] = IF i <= Len(u) THEN u[i] ELSE v[i - Len(u)]
    BY <1>2, ConcatProperties
  <2>2. QED
    BY <1>2, <2>1
<1>4. \A i \in 1 .. b + n : (u \o v)[i] = w[i]
  <2> TAKE i \in 1 .. b + n
  <2>1. CASE i <= b
    BY <1>2, <1>3, <2>1
  <2>2. CASE ~ (i <= b)
    <3>1. i - b \in 1 .. n /\ b + (i - b) = i
      BY <2>2
    <3>2. QED
      BY <1>2, <1>3, <2>2, <3>1
  <2>3. QED
    BY <2>1, <2>2
<1>5. u \o v = w
  BY <1>2, <1>3, <1>4, SeqEqual
<1>6. QED
  BY <1>1, <1>5

(* What is filled of the buffer, and the buffer as a page.                     *)
LEMMA Filled ==
  ASSUME FT!FileAssumption, NEW b \in [1 .. PageSize -> Int], NEW off \in 0 .. PageSize
  PROVE  /\ SubSeq(b, 1, off) \in Seq(Int) /\ Len(SubSeq(b, 1, off)) = off
         /\ \A i \in 1 .. off : SubSeq(b, 1, off)[i] = b[i]
<1>1. \A i \in 1 .. off : b[i] \in Int
  BY DEF FT!FileAssumption
<1>2. /\ SubSeq(b, 1, off) \in Seq(Int)
      /\ Len(SubSeq(b, 1, off)) = IF 1 <= off THEN off - 1 + 1 ELSE 0
      /\ \A i \in 1 .. off - 1 + 1 : SubSeq(b, 1, off)[i] = b[1 + i - 1]
  BY <1>1, SubSeqProperties
<1>3. off - 1 + 1 = off /\ \A i \in 1 .. off : 1 + i - 1 = i
  OBVIOUS
<1>4. QED
  BY <1>2, <1>3

(* memcpy: the part that is filled grows by the data that fit.                 *)
LEMMA CopiedFills ==
  ASSUME FT!FileAssumption, NEW b \in [1 .. PageSize -> Int], NEW off \in 0 .. PageSize,
         NEW d \in Seq(Int), off + Len(d) <= PageSize
  PROVE  /\ FT!Copied(b, off, d) \in [1 .. PageSize -> Int]
         /\ SubSeq(FT!Copied(b, off, d), 1, off + Len(d)) = SubSeq(b, 1, off) \o d
<1>1. PICK n \in Nat : n = Len(d)
  OBVIOUS
<1>2. DOMAIN d = 1 .. n /\ \A i \in 1 .. n : d[i] \in Int
  BY <1>1
<1>3. PICK c : c = FT!Copied(b, off, d)
  OBVIOUS
<1>4. c = [i \in 1 .. PageSize |-> IF i - off \in 1 .. n THEN d[i - off] ELSE b[i]]
  BY <1>2, <1>3 DEF FT!Copied
<1>5. c \in [1 .. PageSize -> Int]
  BY <1>2, <1>4
<1>6. off + n \in 0 .. PageSize
  BY <1>1 DEF FT!FileAssumption
<1>7. PICK u, v : u = SubSeq(b, 1, off) /\ v = SubSeq(c, 1, off + n)
  OBVIOUS
<1>8. /\ u \in Seq(Int) /\ Len(u) = off /\ \A i \in 1 .. off : u[i] = b[i]
      /\ v \in Seq(Int) /\ Len(v) = off + n /\ \A i \in 1 .. off + n : v[i] = c[i]
  BY <1>5, <1>6, <1>7, Filled
<1>9. /\ u \o d \in Seq(Int) /\ Len(u \o d) = off + n
      /\ \A i \in 1 .. off + n : (u \o d)[i] = IF i <= off THEN u[i] ELSE d[i - off]
  <2>1. /\ u \o d \in Seq(Int) /\ Len(u \o d) = Len(u) + Len(d)
        /\ \A i \in 1 .. Len(u) + Len(d) :
             (u \o d)[i] = IF i <= Len(u) THEN u[i] ELSE d[i - Len(u)]
    BY <1>8, ConcatProperties
  <2>2. Len(u) = off /\ Len(u) + Len(d) = off + n
    BY <1>1, <1>8
  <2>3. QED
    BY <2>1, <2>2
<1>10. \A i \in 1 .. off + n : v[i] = (u \o d)[i]
  <2> TAKE i \in 1 .. off + n
  <2>1. i \in 1 .. PageSize
    BY <1>6 DEF FT!FileAssumption
  <2>6. v[i] = c[i]
    BY <1>8
  <2>2. c[i] = IF i - off \in 1 .. n THEN d[i - off] ELSE b[i]
    BY <1>4, <2>1
  <2>3. CASE i <= off
    <3>1. ~ (i - off \in 1 .. n) /\ i \in 1 .. off
      BY <2>3
    <3>2. QED
      BY <1>8, <1>9, <2>6, <2>2, <2>3, <3>1
  <2>4. CASE ~ (i <= off)
    <3>1. i - off \in 1 .. n
      BY <2>4
    <3>2. QED
      BY <1>9, <2>6, <2>2, <2>4, <3>1
  <2>5. QED
    BY <2>3, <2>4
<1>11. v = u \o d
  BY <1>8, <1>9, <1>10, SeqEqual
<1>12. QED
  BY <1>1, <1>3, <1>5, <1>7, <1>11

LEMMA ClearedBuffer ==
  ASSUME FT!FileAssumption
  PROVE  FT!Cleared \in [1 .. PageSize -> Int] /\ SubSeq(FT!Cleared, 1, 0) = <<>>
<1>1. FT!Cleared \in [1 .. PageSize -> Int]
  BY DEF FT!Cleared
<1>2. 0 \in 0 .. PageSize
  BY DEF FT!FileAssumption
<1>3. SubSeq(FT!Cleared, 1, 0) \in Seq(Int) /\ Len(SubSeq(FT!Cleared, 1, 0)) = 0
  BY <1>1, <1>2, Filled
<1>4. QED
  BY <1>1, <1>3, EmptySeq

(* A full page is a sequence, and all of it is filled.                         *)
LEMMA WholePage ==
  ASSUME FT!FileAssumption, NEW b \in [1 .. PageSize -> Int]
  PROVE  b \in Seq(Int) /\ Len(b) = PageSize /\ SubSeq(b, 1, PageSize) = b
<1>1. PageSize \in Nat
  BY DEF FT!FileAssumption
<1>2. b \in Seq(Int) /\ Len(b) = PageSize
  BY <1>1
<1>3. PageSize \in 0 .. PageSize
  BY <1>1
<1>4. PICK v : v = SubSeq(b, 1, PageSize)
  OBVIOUS
<1>5. v \in Seq(Int) /\ Len(v) = PageSize /\ \A i \in 1 .. PageSize : v[i] = b[i]
  BY <1>3, <1>4, Filled
<1>6. v = b
  BY <1>2, <1>5, SeqEqual
<1>7. QED
  BY <1>2, <1>4, <1>6

(* Data that is cut at a place is the part before it and the rest.             *)
LEMMA CutInTwo ==
  ASSUME NEW d \in Seq(Int), NEW k \in Nat, k <= Len(d)
  PROVE  /\ SubSeq(d, 1, k) \in Seq(Int) /\ Len(SubSeq(d, 1, k)) = k
         /\ SubSeq(d, k + 1, Len(d)) \in Seq(Int)
         /\ Len(SubSeq(d, k + 1, Len(d))) = Len(d) - k
         /\ SubSeq(d, 1, k) \o SubSeq(d, k + 1, Len(d)) = d
<1>1. PICK n \in Nat : n = Len(d)
  OBVIOUS
<1>2. PICK u, v : u = SubSeq(d, 1, k) /\ v = SubSeq(d, k + 1, n)
  OBVIOUS
<1>3. \A i \in 1 .. n : d[i] \in Int
  BY <1>1
<1>4. u \in Seq(Int) /\ Len(u) = k /\ \A i \in 1 .. k : u[i] = d[i]
  <2>1. \A i \in 1 .. k : d[i] \in Int
    BY <1>1, <1>3
  <2>2. /\ u \in Seq(Int) /\ Len(u) = IF 1 <= k THEN k - 1 + 1 ELSE 0
        /\ \A i \in 1 .. k - 1 + 1 : u[i] = d[1 + i - 1]
    BY <1>2, <2>1, SubSeqProperties
  <2>3. k - 1 + 1 = k /\ \A i \in 1 .. k : 1 + i - 1 = i
    OBVIOUS
  <2>4. QED
    BY <2>2, <2>3
<1>5. v \in Seq(Int) /\ Len(v) = n - k /\ \A i \in 1 .. n - k : v[i] = d[k + i]
  <2>1. \A i \in k + 1 .. n : d[i] \in Int
    BY <1>3
  <2>2. /\ v \in Seq(Int) /\ Len(v) = IF k + 1 <= n THEN n - (k + 1) + 1 ELSE 0
        /\ \A i \in 1 .. n - (k + 1) + 1 : v[i] = d[(k + 1) + i - 1]
    BY <1>2, <2>1, SubSeqProperties
  <2>3. n - (k + 1) + 1 = n - k /\ (~ (k + 1 <= n) => n - k = 0)
    BY <1>1
  <2>4. \A i \in 1 .. n - k : (k + 1) + i - 1 = k + i
    OBVIOUS
  <2>5. QED
    BY <2>2, <2>3, <2>4
<1>6. /\ u \o v \in Seq(Int) /\ Len(u \o v) = n
      /\ \A i \in 1 .. n : (u \o v)[i] = IF i <= k THEN u[i] ELSE v[i - k]
  <2>1. /\ u \o v \in Seq(Int) /\ Len(u \o v) = Len(u) + Len(v)
        /\ \A i \in 1 .. Len(u) + Len(v) :
             (u \o v)[i] = IF i <= Len(u) THEN u[i] ELSE v[i - Len(u)]
    BY <1>4, <1>5, ConcatProperties
  <2>2. Len(u) = k /\ Len(u) + Len(v) = n
    BY <1>1, <1>4, <1>5
  <2>3. QED
    BY <2>1, <2>2
<1>7. \A i \in 1 .. n : (u \o v)[i] = d[i]
  <2> TAKE i \in 1 .. n
  <2>1. CASE i <= k
    BY <1>4, <1>6, <2>1
  <2>2. CASE ~ (i <= k)
    <3>1. i - k \in 1 .. n - k /\ k + (i - k) = i
      BY <2>2
    <3>2. QED
      BY <1>5, <1>6, <2>2, <3>1
  <2>3. QED
    BY <2>1, <2>2
<1>8. u \o v = d
  BY <1>1, <1>6, <1>7, SeqEqual
<1>9. QED
  BY <1>1, <1>2, <1>4, <1>5, <1>8

LEMMA FlattensAlike ==
  ASSUME NEW ss
  PROVE  FT!FlattenSeq(ss) = FlattenSeq(ss)
BY DEF FT!FlattenSeq, FlattenSeq

LEMMA Associates ==
  ASSUME NEW u \in Seq(Int), NEW v \in Seq(Int), NEW w \in Seq(Int)
  PROVE  (u \o v) \o w = u \o (v \o w)
BY ConcatAssociative

(* What is stored in full pages, and in the buffer after them.                 *)
Held(stored, buf, off) == FlattenSeq(stored) \o SubSeq(buf, 1, off)

(* A page that is filled up moves what the buffer held to the stored pages.    *)
LEMMA PageStored ==
  ASSUME FT!FileAssumption, NEW stored \in Seq(Seq(Int)), NEW page \in [1 .. PageSize -> Int]
  PROVE  /\ Append(stored, page) \in Seq(Seq(Int)) /\ Len(Append(stored, page)) = Len(stored) + 1
         /\ FlattenSeq(Append(stored, page)) = Held(stored, page, PageSize)
<1>1. page \in Seq(Int) /\ SubSeq(page, 1, PageSize) = page
  BY WholePage
<1>2. Append(stored, page) \in Seq(Seq(Int)) /\ Len(Append(stored, page)) = Len(stored) + 1
  BY <1>1, AppendProperties
<1>3. FlattenSeq(Append(stored, page)) = FlattenSeq(stored) \o page
  BY <1>1, FlattenAppend
<1>4. QED
  BY <1>1, <1>2, <1>3 DEF Held

(* A segment that fits is added to what is held.                               *)
LEMMA FittingHeld ==
  ASSUME FT!FileAssumption, NEW b \in [1 .. PageSize -> Int], NEW off \in 0 .. PageSize,
         NEW stored \in Seq(Seq(Int)), NEW d \in Seq(Int), off + Len(d) <= PageSize
  PROVE  Held(stored, FT!Copied(b, off, d), off + Len(d)) = Held(stored, b, off) \o d
<1>1. SubSeq(FT!Copied(b, off, d), 1, off + Len(d)) = SubSeq(b, 1, off) \o d
  BY CopiedFills
<1>2. SubSeq(b, 1, off) \in Seq(Int)
  BY Filled
<1>3. FlattenSeq(stored) \in Seq(Int)
  BY FlattenType
<1>4. Held(stored, b, off) \o d = FlattenSeq(stored) \o (SubSeq(b, 1, off) \o d)
  BY <1>2, <1>3, Associates, Zenon DEF Held
<1>5. QED
  BY <1>1, <1>4 DEF Held

(* c is what stored, the buffer b and its fill at become by the data.          *)
KeptWhole(c, stored, b, off, d) ==
  /\ c.at \in 1 .. PageSize /\ c.buf \in [1 .. PageSize -> Int]
  /\ c.pages \in Seq(Seq(Int)) /\ c.cnt = 2 * Len(c.pages)
  /\ Held(c.pages, c.buf, c.at) = Held(stored, b, off) \o d
  /\ \/ c.pages = stored /\ c.at = off + Len(d)
     \/ Len(c.pages) = Len(stored) + 1 /\ c.at = off + Len(d) - PageSize

(* The whole of a segment is kept, be it in the buffer or over the end of a    *)
(* page: nothing is lost, nothing is kept twice, and cnt counts the pages.     *)
LEMMA CollectedKeeps ==
  ASSUME FT!FileAssumption, NEW off \in 0 .. PageSize, NEW b \in [1 .. PageSize -> Int],
         NEW cnt, NEW stored \in Seq(Seq(Int)), cnt = 2 * Len(stored),
         NEW d \in Seq(Int), 1 <= Len(d), Len(d) <= PageSize, NEW len,
         FT!Fits(off, len) <=> off + Len(d) <= PageSize,
         NEW c, c = FT!Collected(off, b, cnt, stored, d, len)
  PROVE  KeptWhole(c, stored, b, off, d)
<1>1. PICK n \in Nat : n = Len(d)
  OBVIOUS
<1>2. PageSize \in Nat /\ off \in Nat /\ Len(stored) \in Nat
  BY DEF FT!FileAssumption
<1>3. CASE off + n <= PageSize
  <2>1. c = [buf |-> FT!Copied(b, off, d), at |-> off + n, cnt |-> cnt, pages |-> stored]
    BY <1>1, <1>3 DEF FT!Collected
  <2>2. c.buf = FT!Copied(b, off, d) /\ c.at = off + n /\ c.cnt = cnt /\ c.pages = stored
    BY <2>1
  <2>3. FT!Copied(b, off, d) \in [1 .. PageSize -> Int]
    BY <1>1, <1>3, CopiedFills
  <2>4. Held(stored, FT!Copied(b, off, d), off + Len(d)) = Held(stored, b, off) \o d
    BY <1>1, <1>3, FittingHeld
  <2>5. off + n \in 1 .. PageSize
    BY <1>1, <1>2, <1>3
  <2>6. QED
    BY <1>1, <2>2, <2>3, <2>4, <2>5 DEF KeptWhole
<1>4. CASE ~ (off + n <= PageSize)
  <2>1. PICK k \in Nat : k = PageSize - off
    BY <1>2
  <2>20. n <= PageSize
    BY <1>1
  <2>21. off + k = PageSize /\ PageSize - off + 1 = k + 1 /\ n - k = off + n - PageSize
    BY <1>2, <2>1
  <2>22. k <= n /\ k <= PageSize
    BY <1>2, <1>4, <2>1
  <2>23. n - k \in 1 .. PageSize
    <3>1. off + n > PageSize
      BY <1>2, <1>4
    <3>2. 1 <= n - k
      BY <1>2, <2>1, <3>1
    <3>5. n \in Nat /\ k \in Nat /\ PageSize \in Nat
      BY <1>2
    <3>3. n - k <= PageSize /\ n - k \in Int
      BY <2>20, <3>5
    <3>4. QED
      BY <1>2, <3>2, <3>3
  <2>2. k <= n /\ n - k \in 1 .. PageSize /\ off + k = PageSize /\ PageSize - off + 1 = k + 1
        /\ n - k = off + n - PageSize
    BY <2>21, <2>22, <2>23
  <2>3. PICK x, y : x = SubSeq(d, 1, k) /\ y = SubSeq(d, k + 1, n)
    OBVIOUS
  <2>4. /\ x \in Seq(Int) /\ Len(x) = k /\ y \in Seq(Int) /\ Len(y) = n - k
        /\ x \o y = d
    BY <1>1, <2>2, <2>3, CutInTwo
  <2>5. FT!Rest(off, d) = y /\ SubSeq(d, 1, PageSize - off) = x
    BY <1>1, <2>1, <2>2, <2>3 DEF FT!Rest
  <2>6. PICK p, q, t : /\ p = FT!Copied(b, off, x) /\ q = FT!Copied(FT!Cleared, 0, y)
                       /\ t = Append(stored, p)
    OBVIOUS
  <2>7. c = [buf |-> q, at |-> Len(y), cnt |-> cnt + 2, pages |-> t]
    BY <1>1, <1>4, <2>5, <2>6 DEF FT!Collected
  <2>8. c.buf = q /\ c.at = n - k /\ c.cnt = cnt + 2 /\ c.pages = t
    BY <2>4, <2>7
  <2>9. p \in [1 .. PageSize -> Int] /\ Held(stored, p, PageSize) = Held(stored, b, off) \o x
    <3>1. off + Len(x) = PageSize
      BY <2>2, <2>4
    <3>2. off + Len(x) <= PageSize
      BY <1>2, <3>1
    <3>3. p \in [1 .. PageSize -> Int]
      BY <2>4, <2>6, <3>2, CopiedFills
    <3>4. Held(stored, FT!Copied(b, off, x), off + Len(x)) = Held(stored, b, off) \o x
      BY <2>4, <3>2, FittingHeld
    <3>5. QED
      BY <2>6, <3>1, <3>3, <3>4
  <2>10. t \in Seq(Seq(Int)) /\ Len(t) = Len(stored) + 1 /\ FlattenSeq(t) = Held(stored, p, PageSize)
    BY <2>6, <2>9, PageStored
  <2>11. FT!Cleared \in [1 .. PageSize -> Int] /\ SubSeq(FT!Cleared, 1, 0) = <<>>
    BY ClearedBuffer
  <2>12. 0 \in 0 .. PageSize /\ 0 + Len(y) <= PageSize /\ 0 + Len(y) = n - k
    BY <1>2, <2>2, <2>4
  <2>13. q \in [1 .. PageSize -> Int] /\ SubSeq(q, 1, n - k) = y
    <3>1. q \in [1 .. PageSize -> Int]
      BY <2>4, <2>6, <2>11, <2>12, CopiedFills
    <3>2. SubSeq(q, 1, 0 + Len(y)) = <<>> \o y
      <4>1. PICK z \in [1 .. PageSize -> Int] : z = FT!Cleared
        BY <2>11
      <4>2. SubSeq(FT!Copied(z, 0, y), 1, 0 + Len(y)) = SubSeq(z, 1, 0) \o y
        BY <2>4, <2>12, CopiedFills
      <4>3. QED
        BY <2>6, <2>11, <4>1, <4>2
    <3>3. <<>> \o y = y
      BY <2>4, ConcatEmptySeq
    <3>4. QED
      BY <2>12, <3>1, <3>2, <3>3
  <2>14. Held(t, q, n - k) = Held(stored, b, off) \o d
    <3>1. Held(t, q, n - k) = (Held(stored, b, off) \o x) \o y
      BY <2>9, <2>10, <2>13 DEF Held
    <3>2. Held(stored, b, off) \in Seq(Int)
      <4>1. FlattenSeq(stored) \in Seq(Int) /\ SubSeq(b, 1, off) \in Seq(Int)
        BY FlattenType, Filled
      <4>2. QED
        BY <4>1, ConcatProperties DEF Held
    <3>3. (Held(stored, b, off) \o x) \o y = Held(stored, b, off) \o (x \o y)
      <4>1. PICK h, hx : h = Held(stored, b, off) /\ hx = h \o x
        OBVIOUS
      <4>2. hx \o y = h \o (x \o y)
        BY <2>4, <3>2, <4>1, Associates, Zenon
      <4>3. QED
        BY <4>1, <4>2
    <3>4. QED
      BY <2>4, <3>1, <3>3
  <2>15. cnt + 2 = 2 * Len(t)
    BY <1>2, <2>10
  <2>16. QED
    BY <1>1, <2>2, <2>8, <2>10, <2>13, <2>14, <2>15 DEF KeptWhole
<1>5. QED
  BY <1>3, <1>4

(* While a file comes in order: the bytes sent are those of the full pages and *)
(* of the buffer, and of the file's flags only the size is set.                *)
MidTransfer ==
  /\ updata_offset \in 0 .. PageSize
  /\ updatabuffer \in [1 .. PageSize -> Int]
  /\ pages \in Seq(Seq(Int))
  /\ updata_addr_cnt = 2 * Len(pages)
  /\ station.bytes = Len(pages) * PageSize + updata_offset
  /\ fileFlag = [FT!NoFlag EXCEPT !.size = station.size]

Station ==
  [file : Int, size : Nat, begun : Int, later : BOOLEAN, bytes : Nat, inorder : BOOLEAN]

InOrderInv ==
  /\ station.bytes <= station.size
  /\ station.bytes < station.size => MidTransfer
  /\ StoredIsTheFile

(* A transfer out of order keeps nothing worth a promise, and the first        *)
(* segment of the next one starts afresh.                                      *)
FileInv == station \in Station /\ (station.inorder => InOrderInv)

(* The pages that are announced are as many as the file's size needs.          *)
LEMMA PagesCounted ==
  ASSUME FT!FileAssumption, NEW full \in Nat, NEW off \in 1 .. PageSize, NEW total,
         total = full * PageSize + off
  PROVE  /\ (2 * full + 2) \div 2 = full + 1
         /\ FT!Covers(2 * (full + 1), total)
<1>1. (2 * full + 2) \div 2 = full + 1 /\ (2 * (full + 1)) \div 2 = full + 1
  OBVIOUS
<1>2. PageSize \in Nat /\ off \in Nat
  BY DEF FT!FileAssumption
<1>3. PICK base \in Int : base = full * PageSize
  BY <1>2
<1>4. (full + 1) * PageSize = base + PageSize
  BY <1>2, <1>3
<1>5. full + 1 - 1 = full
  OBVIOUS
<1>6. base < base + off /\ base + off <= base + PageSize
  BY <1>2, <1>3
<1>7. (full + 1 - 1) * PageSize < total /\ total <= (full + 1) * PageSize
  BY <1>3, <1>4, <1>5, <1>6
<1>8. QED
  BY <1>1, <1>7 DEF FT!Covers

(* A segment, as the handler goes on with what it has collected.               *)
Goes(s, c, kept) ==
  IF s.last
  THEN /\ updata_offset' = 0 /\ updata_addr_cnt' = 0
       /\ updatabuffer' = FT!Cleared
       /\ pages' = Append(c.pages, SubSeq(c.buf, 1, c.at))
       /\ LET cnt == (c.cnt + 2) \div 2
          IN IF s.file = 1 THEN FT!FinishOwn(kept, cnt) ELSE FT!FinishRelayed(s.file, kept, cnt)
  ELSE /\ updata_offset' = c.at /\ updata_addr_cnt' = c.cnt
       /\ updatabuffer' = c.buf
       /\ pages' = c.pages
       /\ fileFlag' = kept
       /\ filed' = "DI"
       /\ UNCHANGED <<RepeatUpgrade, ChargeSystemResetFlag>>

(* The last segment of a file in order.                                        *)
LEMMA LastKept ==
  ASSUME FT!FileAssumption, NEW s, s.last, s.file \in FT!Upgrade,
         NEW c, NEW kept, Goes(s, c, kept), kept = [FT!NoFlag EXCEPT !.size = station'.size],
         c.at \in 1 .. PageSize, c.buf \in [1 .. PageSize -> Int], c.pages \in Seq(Seq(Int)),
         c.cnt = 2 * Len(c.pages),
         station' \in Station, station'.file = s.file, station'.bytes = station'.size,
         station'.size = Len(c.pages) * PageSize + c.at,
         Held(c.pages, c.buf, c.at) = FT!Bytes(0, station'.bytes)
  PROVE  InOrderInv'
<1>1. PICK full \in Nat : full = Len(c.pages)
  <2>1. PICK held \in Seq(Seq(Int)) : held = c.pages
    OBVIOUS
  <2>2. Len(held) \in Nat
    BY LenProperties
  <2>3. QED
    BY <2>1, <2>2
<1>2. PICK size \in Nat : size = station'.size
  BY DEF Station
<1>3. PICK cnt : cnt = (c.cnt + 2) \div 2
  OBVIOUS
<1>4. cnt = full + 1 /\ FT!Covers(2 * cnt, size)
  BY <1>1, <1>2, <1>3, PagesCounted
<1>5. kept = [size |-> size, flag |-> 0, updatasize |-> 0, total_size |-> 0]
  BY <1>2 DEF FT!NoFlag
<1>6. /\ updata_offset' = 0 /\ updatabuffer' = FT!Cleared
      /\ pages' = Append(c.pages, SubSeq(c.buf, 1, c.at))
      /\ IF s.file = 1 THEN FT!FinishOwn(kept, cnt) ELSE FT!FinishRelayed(s.file, kept, cnt)
  BY <1>3 DEF Goes
<1>7. FT!PagesHoldTheFile'
  <2>1. PICK tail : tail = SubSeq(c.buf, 1, c.at)
    OBVIOUS
  <2>2. c.at \in 0 .. PageSize
    BY DEF FT!FileAssumption
  <2>3. tail \in Seq(Int)
    BY <2>1, <2>2, Filled
  <2>4. FlattenSeq(pages') = FlattenSeq(c.pages) \o tail
    BY <1>6, <2>1, <2>3, FlattenAppend
  <2>5. FlattenSeq(pages') = FT!Bytes(0, station'.bytes)
    BY <2>1, <2>4 DEF Held
  <2>6. SubSeq(updatabuffer', 1, updata_offset') = <<>>
    BY <1>6, ClearedBuffer
  <2>7. FT!Bytes(0, station'.bytes) \in Seq(Int)
    BY BytesType DEF Station
  <2>8. FT!FlattenSeq(pages') \o SubSeq(updatabuffer', 1, updata_offset') = FT!Bytes(0, station'.bytes)
    BY <2>5, <2>6, <2>7, ConcatEmptySeq, FlattensAlike
  <2>9. QED
    BY <2>8 DEF FT!PagesHoldTheFile
<1>8. FT!AcceptedFits'
  <2>1. CASE s.file = 1
    <3>1. \/ fileFlag' = FT!NoFlag
          \/ fileFlag' = [size |-> size, flag |-> 1, updatasize |-> 2 * cnt, total_size |-> size]
      <4>1. FT!FinishOwn(kept, cnt) /\ kept.size = size
        BY <1>5, <1>6, <2>1
      <4>2. \/ fileFlag' = FT!NoFlag
            \/ fileFlag' = [size |-> kept.size, flag |-> 1, updatasize |-> 2 * cnt,
                            total_size |-> kept.size]
        BY <4>1 DEF FT!FinishOwn
      <4>3. QED
        BY <4>1, <4>2
    <3>2. fileFlag'.flag = 1 => FT!Covers(fileFlag'.updatasize, fileFlag'.total_size)
      BY <1>4, <3>1 DEF FT!NoFlag
    <3>3. station'.file = 1
      BY <2>1
    <3>4. QED
      BY <3>2, <3>3 DEF FT!AcceptedFits
  <2>2. CASE s.file # 1
    <3>1. \/ fileFlag' = FT!NoFlag /\ RepeatUpgrade' = FT!NoRepeat
          \/ /\ fileFlag' = kept
             /\ RepeatUpgrade' = [flag |-> s.file, update_size |-> 2 * cnt,
                  total_size |-> kept.size + IF s.file = 4 THEN BIN_HEAD_LEN ELSE 0]
      BY <1>6, <2>2 DEF FT!FinishRelayed
    <3>2. fileFlag'.flag # 1
      BY <1>5, <3>1 DEF FT!NoFlag
    <3>3. ASSUME RepeatUpgrade'.flag \in {3, 5}
          PROVE  FT!Covers(RepeatUpgrade'.update_size, RepeatUpgrade'.total_size)
      <4>1. RepeatUpgrade' = [flag |-> s.file, update_size |-> 2 * cnt,
              total_size |-> kept.size + IF s.file = 4 THEN BIN_HEAD_LEN ELSE 0]
        BY <3>1, <3>3 DEF FT!NoRepeat
      <4>2. s.file # 4
        BY <3>3, <4>1
      <4>3. RepeatUpgrade'.update_size = 2 * cnt /\ RepeatUpgrade'.total_size = size
        BY <1>5, <4>1, <4>2
      <4>4. QED
        BY <1>4, <4>3
    <3>4. QED
      BY <3>2, <3>3 DEF FT!AcceptedFits
  <2>3. QED
    BY <2>1, <2>2
<1>9. ~ (station'.bytes < station'.size) /\ station'.bytes <= station'.size
  BY <1>2
<1>10. QED
  BY <1>7, <1>8, <1>9 DEF InOrderInv, StoredIsTheFile, FT!StoredIsTheFile

(* A segment before the last.                                                  *)
LEMMA SegmentKept ==
  ASSUME FT!FileAssumption, NEW s, ~ s.last,
         NEW c, NEW kept, Goes(s, c, kept), kept = [FT!NoFlag EXCEPT !.size = station'.size],
         c.at \in 1 .. PageSize, c.buf \in [1 .. PageSize -> Int], c.pages \in Seq(Seq(Int)),
         c.cnt = 2 * Len(c.pages),
         station' \in Station, station'.bytes < station'.size,
         station'.bytes = Len(c.pages) * PageSize + c.at,
         Held(c.pages, c.buf, c.at) = FT!Bytes(0, station'.bytes)
  PROVE  InOrderInv'
<1>1. /\ updata_offset' = c.at /\ updata_addr_cnt' = c.cnt /\ updatabuffer' = c.buf
      /\ pages' = c.pages /\ fileFlag' = kept
  BY DEF Goes
<1>2. updata_offset' \in 0 .. PageSize
  BY <1>1 DEF FT!FileAssumption
<1>3. MidTransfer'
  BY <1>1, <1>2 DEF MidTransfer
<1>4. FT!PagesHoldTheFile'
  BY <1>1, FlattensAlike DEF FT!PagesHoldTheFile, Held
<1>5. FT!AcceptedFits'
  <2>1. fileFlag'.flag = 0
    BY <1>1 DEF FT!NoFlag
  <2>2. station'.bytes # station'.size
    BY DEF Station
  <2>3. QED
    BY <2>1, <2>2 DEF FT!AcceptedFits
<1>6. station'.bytes <= station'.size
  BY DEF Station
<1>7. QED
  BY <1>3, <1>4, <1>5, <1>6 DEF InOrderInv, StoredIsTheFile, FT!StoredIsTheFile

(* A segment whose bytes follow those that are held.                           *)
LEMMA SegmentFollows ==
  ASSUME FT!FileAssumption, NEW s, s.file \in FT!Upgrade,
         NEW off \in 0 .. PageSize, NEW b \in [1 .. PageSize -> Int], NEW cnt,
         NEW stored \in Seq(Seq(Int)), cnt = 2 * Len(stored),
         NEW kept, kept = [FT!NoFlag EXCEPT !.size = station'.size],
         NEW passed \in Nat, passed = Len(stored) * PageSize + off,
         Held(stored, b, off) = FT!Bytes(0, passed),
         NEW n \in 1 .. MaxData, s.data = FT!Bytes(passed, n),
         FT!Fits(off, s.len) <=> off + n <= PageSize,
         Goes(s, FT!Collected(off, b, cnt, stored, s.data, s.len), kept),
         station' \in Station, station'.file = s.file, station'.bytes = passed + n,
         station'.bytes <= station'.size, s.last <=> station'.bytes = station'.size
  PROVE  InOrderInv'
<1>11. s.data \in Seq(Int)
  <2>1. n \in Nat
    BY DEF FT!FileAssumption
  <2>2. QED
    BY <2>1, BytesType
<1>12. PICK d \in Seq(Int) : d = s.data
  BY <1>11
<1>13. PICK len, c : len = s.len /\ c = FT!Collected(off, b, cnt, stored, d, len)
  OBVIOUS
<1>1. d = s.data /\ len = s.len /\ c = FT!Collected(off, b, cnt, stored, d, len)
  BY <1>12, <1>13
<1>2. PageSize \in Nat /\ n \in Nat /\ 1 <= n /\ n <= PageSize
  BY DEF FT!FileAssumption
<1>3. d \in Seq(Int) /\ Len(d) = n
  BY <1>1, <1>2, BytesType
<1>4. /\ c.at \in 1 .. PageSize /\ c.buf \in [1 .. PageSize -> Int]
      /\ c.pages \in Seq(Seq(Int)) /\ c.cnt = 2 * Len(c.pages)
      /\ Held(c.pages, c.buf, c.at) = Held(stored, b, off) \o d
      /\ \/ c.pages = stored /\ c.at = off + n
         \/ Len(c.pages) = Len(stored) + 1 /\ c.at = off + n - PageSize
  <2>1. 1 <= Len(d) /\ Len(d) <= PageSize /\ (FT!Fits(off, len) <=> off + Len(d) <= PageSize)
    <3>1. FT!Fits(off, len) <=> off + n <= PageSize
      BY <1>13
    <3>2. QED
      BY <1>2, <1>3, <3>1
  <2>2. KeptWhole(c, stored, b, off, d)
    BY <1>13, <2>1, CollectedKeeps
  <2>3. QED
    BY <1>3, <2>2 DEF KeptWhole
<1>5. Held(c.pages, c.buf, c.at) = FT!Bytes(0, passed + n)
  BY <1>1, <1>2, <1>4, BytesMore
<1>6. passed + n = Len(c.pages) * PageSize + c.at
  <2>1. PICK f \in Nat : f = Len(stored)
    BY LenProperties
  <2>2. PICK base \in Int : base = f * PageSize
    BY <1>2
  <2>3. (f + 1) * PageSize = base + PageSize
    BY <1>2, <2>2
  <2>4. passed = base + off
    BY <2>1, <2>2
  <2>5. CASE c.pages = stored /\ c.at = off + n
    BY <1>2, <2>1, <2>2, <2>4, <2>5
  <2>6. CASE Len(c.pages) = f + 1 /\ c.at = off + n - PageSize
    <3>1. Len(c.pages) * PageSize = base + PageSize
      BY <2>3, <2>6
    <3>2. QED
      BY <1>2, <2>2, <2>4, <2>6, <3>1
  <2>7. QED
    BY <1>4, <2>1, <2>5, <2>6
<1>7. Goes(s, c, kept)
  BY <1>1
<1>8. CASE s.last
  <2>1. station'.bytes = station'.size /\ station'.size = Len(c.pages) * PageSize + c.at
    BY <1>6, <1>8
  <2>2. Held(c.pages, c.buf, c.at) = FT!Bytes(0, station'.bytes)
    BY <1>5
  <2>3. QED
    BY <1>4, <1>7, <1>8, <2>1, <2>2, LastKept
<1>9. CASE ~ s.last
  <2>1. station'.bytes < station'.size
    BY <1>9 DEF Station
  <2>2. station'.bytes = Len(c.pages) * PageSize + c.at
    BY <1>6
  <2>3. Held(c.pages, c.buf, c.at) = FT!Bytes(0, station'.bytes)
    BY <1>5
  <2>4. QED
    BY <1>4, <1>7, <1>9, <2>1, <2>2, <2>3, SegmentKept
<1>10. QED
  BY <1>8, <1>9

(* Nothing is held before the first segment, whose head a page has room for.   *)
LEMMA NothingHeld ==
  ASSUME FT!FileAssumption
  PROVE  Held(<<>>, FT!Cleared, 0) = FT!Bytes(0, 0)
<1>1. Len(FT!Bytes(0, 0)) = 0 /\ FT!Bytes(0, 0) \in Seq(Int)
  BY BytesType
<1>2. FT!Bytes(0, 0) = <<>>
  BY <1>1, EmptySeq
<1>3. FlattenSeq(<<>>) = <<>>
  BY FlattenIsFlat
<1>4. SubSeq(FT!Cleared, 1, 0) = <<>>
  BY ClearedBuffer
<1>5. FT!Bytes(0, 0) \o <<>> = FT!Bytes(0, 0)
  BY <1>1, ConcatEmptySeq
<1>6. QED
  BY <1>2, <1>3, <1>4, <1>5 DEF Held

LEMMA NotIgnored ==
  ASSUME FT!FileAssumption, NEW s, s.len \in Nat, ~ FT!Ignored(s)
  PROVE  s.file \in FT!Upgrade /\ s.len <= MaxData
<1>1. s.file \in FT!Upgrade /\ ~ (s.len > MaxData)
  BY Zenon DEF FT!Ignored
<1>2. PICK n \in Nat : n = s.len
  OBVIOUS
<1>3. n <= MaxData
  BY <1>1, <1>2 DEF FT!FileAssumption
<1>4. QED
  BY <1>1, <1>2, <1>3

LEMMA BeginKeeps ==
  ASSUME FT!FileAssumption, FileInv, NEW file \in Int, NEW size \in 1 .. MaxFile,
         NEW n \in 1 .. MaxData, FT!Begin(file, size, n)
  PROVE  FileInv'
<1>1. PICK s : s = [file |-> file, first |-> TRUE, len |-> BIN_HEAD_LEN + n,
                    data |-> FT!Bytes(0, n), size |-> size, last |-> n = size]
  OBVIOUS
<1>2. PICK order \in BOOLEAN : order = ~ FT!Ignored(s)
  OBVIOUS
<1>3. /\ n <= size /\ FT!AFN_0FH(s)
      /\ station' = [file |-> file, size |-> size, begun |-> station.begun + 1,
                     later |-> FALSE, bytes |-> n, inorder |-> order]
  BY <1>1, <1>2 DEF FT!Begin
<1>4. station' \in Station
  BY <1>3 DEF FileInv, Station, FT!FileAssumption
<1>5. SUFFICES ASSUME order PROVE InOrderInv'
  BY <1>3, <1>4 DEF FileInv
<1>6. ~ FT!Ignored(s) /\ s.file \in FT!Upgrade /\ s.len <= MaxData
  <2>1. s.len \in Nat
    BY <1>1 DEF FT!FileAssumption
  <2>2. ~ FT!Ignored(s)
    BY <1>2, <1>5
  <2>3. QED
    BY <2>1, <2>2, NotIgnored
<1>7. PICK none \in Seq(Seq(Int)) : none = <<>>
  BY EmptySeq
<1>8. PICK kept : kept = [FT!NoFlag EXCEPT !.size = size]
  OBVIOUS
<1>9. Goes(s, FT!Collected(0, FT!Cleared, 0, none, s.data, s.len), kept)
  <2>1. FT!Segment(s)
    BY <1>3, <1>6 DEF FT!AFN_0FH
  <2>2. s.first /\ s.size = size
    BY <1>1
  <2>3. QED
    BY <1>7, <1>8, <2>1, <2>2 DEF FT!Segment, Goes
<1>10. 0 \in 0 .. PageSize /\ FT!Cleared \in [1 .. PageSize -> Int] /\ 0 = 2 * Len(none)
       /\ 0 = Len(none) * PageSize + 0 /\ Held(none, FT!Cleared, 0) = FT!Bytes(0, 0)
  BY <1>7, ClearedBuffer, NothingHeld DEF FT!FileAssumption
<1>11. FT!Fits(0, s.len) <=> 0 + n <= PageSize
  BY <1>1, <1>6 DEF FT!Fits, FT!FileAssumption
<1>12. /\ station'.file = s.file /\ station'.bytes = 0 + n /\ station'.bytes <= station'.size
       /\ (s.last <=> station'.bytes = station'.size)
       /\ kept = [FT!NoFlag EXCEPT !.size = station'.size]
  <2>1. n \in Nat
    BY DEF FT!FileAssumption
  <2>2. s.file = file /\ (s.last <=> n = size)
    BY <1>1
  <2>3. station'.file = file /\ station'.bytes = n /\ station'.size = size
    BY <1>3
  <2>4. QED
    BY <1>3, <1>8, <2>1, <2>2, <2>3
<1>13. s.data = FT!Bytes(0, n)
  BY <1>1
<1>14. PICK z \in Nat : z = 0
  OBVIOUS
<1>15. PICK b \in [1 .. PageSize -> Int] : b = FT!Cleared
  BY <1>10
<1>16. QED
  BY <1>4, <1>6, <1>9, <1>10, <1>11, <1>12, <1>13, <1>14, <1>15, SegmentFollows

LEMMA ContinueKeeps ==
  ASSUME FT!FileAssumption, FileInv, NEW n \in 1 .. MaxData + 1, FT!Continue(n)
  PROVE  FileInv'
<1>1. PICK s : s = [file |-> station.file, first |-> FALSE, len |-> n,
                    data |-> FT!Bytes(station.bytes, n), size |-> 0,
                    last |-> station.bytes + n = station.size]
  OBVIOUS
<1>2. PICK order \in BOOLEAN : order = (station.inorder /\ ~ FT!Ignored(s))
  OBVIOUS
<1>3. /\ station.bytes < station.size /\ station.bytes + n <= station.size /\ FT!AFN_0FH(s)
      /\ station' = [station EXCEPT !.later = TRUE, !.bytes = @ + n, !.inorder = order]
  BY <1>1, <1>2 DEF FT!Continue
<1>4. n \in Nat /\ station \in Station
  BY DEF FileInv, FT!FileAssumption
<1>5. station' \in Station
  <2>1. station.bytes + n \in Nat
    BY <1>4 DEF Station
  <2>2. QED
    BY <1>3, <1>4, <2>1 DEF Station
<1>6. /\ station'.file = station.file /\ station'.bytes = station.bytes + n
      /\ station'.size = station.size /\ station'.inorder = order
  BY <1>3, <1>4 DEF Station
<1>7. SUFFICES ASSUME order PROVE InOrderInv'
  BY <1>5, <1>6 DEF FileInv
<1>8. /\ station.inorder /\ ~ FT!Ignored(s) /\ s.file \in FT!Upgrade /\ s.len <= MaxData
  <2>1. station.inorder /\ ~ FT!Ignored(s)
    BY <1>2, <1>4, <1>7
  <2>2. QED
    BY <1>1, <1>4, <2>1, NotIgnored
<1>9. MidTransfer /\ StoredIsTheFile
  BY <1>3, <1>8 DEF FileInv, InOrderInv
<1>10. PICK kept : kept = fileFlag
  OBVIOUS
<1>11. Goes(s, FT!Collected(updata_offset, updatabuffer, updata_addr_cnt, pages, s.data, s.len), kept)
  <2>1. FT!Segment(s)
    BY <1>3, <1>8 DEF FT!AFN_0FH
  <2>2. ~ s.first
    BY <1>1
  <2>3. QED
    BY <1>10, <2>1, <2>2 DEF FT!Segment, Goes
<1>12. n \in 1 .. MaxData
  BY <1>1, <1>8 DEF FT!FileAssumption
<1>13. Held(pages, updatabuffer, updata_offset) = FT!Bytes(0, station.bytes)
  BY <1>8, <1>9, FlattensAlike DEF StoredIsTheFile, FT!StoredIsTheFile, FT!PagesHoldTheFile, Held
<1>14. FT!Fits(updata_offset, s.len) <=> updata_offset + n <= PageSize
  BY <1>1 DEF FT!Fits
<1>15. /\ station'.file = s.file /\ station'.bytes <= station'.size
       /\ (s.last <=> station'.bytes = station'.size)
       /\ kept = [FT!NoFlag EXCEPT !.size = station'.size]
  BY <1>1, <1>3, <1>6, <1>9, <1>10 DEF MidTransfer
<1>16. s.data = FT!Bytes(station.bytes, n)
  BY <1>1
<1>17. PICK passed \in Nat : passed = station.bytes
  BY <1>4 DEF Station
<1>18. PICK off, b, cnt, stored : off = updata_offset /\ b = updatabuffer
                                  /\ cnt = updata_addr_cnt /\ stored = pages
  OBVIOUS
<1>19. /\ off \in 0 .. PageSize /\ b \in [1 .. PageSize -> Int] /\ stored \in Seq(Seq(Int))
       /\ cnt = 2 * Len(stored) /\ passed = Len(stored) * PageSize + off
  BY <1>9, <1>17, <1>18 DEF MidTransfer
<1>20. /\ Held(stored, b, off) = FT!Bytes(0, passed) /\ s.data = FT!Bytes(passed, n)
       /\ (FT!Fits(off, s.len) <=> off + n <= PageSize)
       /\ Goes(s, FT!Collected(off, b, cnt, stored, s.data, s.len), kept)
       /\ station'.bytes = passed + n
  BY <1>6, <1>11, <1>13, <1>14, <1>16, <1>17, <1>18
<1>21. QED
  BY <1>5, <1>8, <1>12, <1>15, <1>19, <1>20, SegmentFollows

LEMMA FileNext ==
  ASSUME FT!FileAssumption, FileInv, [FT!Next]_(FT!vars)
  PROVE  FileInv'
<1>1. ASSUME NEW file \in Sent, NEW size \in 1 .. MaxFile, NEW n \in 1 .. MaxData,
             FT!Begin(file, size, n)
      PROVE  FileInv'
  BY <1>1, BeginKeeps DEF FT!FileAssumption
<1>2. ASSUME NEW n \in 1 .. MaxData + 1, FT!Continue(n)
      PROVE  FileInv'
  BY <1>2, ContinueKeeps
<1>3. ASSUME NEW n \in 1 .. MaxData + 1, FT!Repeat(n)
      PROVE  FileInv'
  <2>1. station' = [station EXCEPT !.inorder = FALSE]
    BY <1>3 DEF FT!Repeat
  <2>2. QED
    BY <2>1 DEF FileInv, Station
<1>4. CASE UNCHANGED FT!vars
  BY <1>4 DEF FT!vars, FileInv, InOrderInv, MidTransfer, StoredIsTheFile, FT!StoredIsTheFile,
              FT!PagesHoldTheFile, FT!AcceptedFits
<1>5. QED
  BY <1>1, <1>2, <1>3, <1>4 DEF FT!Next

LEMMA FileInit == FT!Init => FileInv
BY DEF FT!Init, FileInv, Station

(* As long as a station sends the segments of a file once and in order, what   *)
(* the flash and updatabuffer hold is the file up to the last of them, wherever *)
(* the pages end and whatever an earlier transfer left, and the pages that are *)
(* announced to the boot loader are those the file's size needs.               *)
THEOREM FileIsStored == FT!FileAssumption /\ FT!Spec => []StoredIsTheFile
<1> SUFFICES ASSUME FT!FileAssumption PROVE FT!Spec => []StoredIsTheFile
  OBVIOUS
<1>1. FT!Init => FileInv
  BY FileInit
<1>2. FileInv /\ [FT!Next]_(FT!vars) => FileInv'
  BY FileNext
<1>3. FileInv => StoredIsTheFile
  BY DEF FileInv, InOrderInv, StoredIsTheFile, FT!StoredIsTheFile, FT!PagesHoldTheFile, FT!AcceptedFits
<1>4. QED
  BY <1>1, <1>2, <1>3, PTL DEF FT!Spec
================================================================================
