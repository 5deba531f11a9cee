----------------------------- MODULE FlowStatProofs -----------------------------
(***************************************************************************)
(* What holds of the traffic statistics for any threads, limit, calendar   *)
(* and bounds, when no two calls overlap: no byte is lost or counted       *)
(* twice, the traffic of the day and of the month is what was dealt with   *)
(* in them, the months in the file account for its total wherever the      *)
(* power fails, and the limit event is neither frequent nor missed.        *)
(***************************************************************************)
EXTENDS FlowStat, FiniteSetTheorems, SequenceTheorems, WellFoundedInduction, TLAPS

(* Sums over finite sets.                                                  *)
(* A smallest one of the sets that do not have a property would leave one  *)
(* without it when an element is taken out.                                *)
LEMMA BySubsets ==
  ASSUME NEW S, IsFiniteSet(S), NEW P,
         \A T \in SUBSET S : (\A x \in T : T \ {x} \in P) => T \in P
  PROVE  \A T \in SUBSET S : T \in P
<1> DEFINE R == {p \in Nat \X Nat : p[1] < p[2]}
           Bad == {n \in Nat : \E T \in SUBSET S : T \notin P /\ Cardinality(T) = n}
<1>1. \A T \in SUBSET S : IsFiniteSet(T) /\ Cardinality(T) \in Nat
  BY FS_Subset, FS_CardinalityType
<1>2. SUFFICES ASSUME Bad # {} PROVE FALSE
  BY <1>1
<1>3. PICK n \in Bad : \A y \in Bad : ~(<<y, n>> \in R)
  <2>1. Bad \subseteq Nat
    OBVIOUS
  <2>2. IsWellFoundedOn(R, Nat)
    BY NatLessThanWellFounded DEF OpToRel
  <2> HIDE DEF R, Bad
  <2>3. QED
    BY <1>2, <2>1, <2>2, WFMin
<1>4. PICK T \in SUBSET S : T \notin P /\ Cardinality(T) = n
  OBVIOUS
<1>5. ASSUME NEW x \in T PROVE T \ {x} \in P
  <2>1. T \ {x} \in SUBSET S /\ Cardinality(T \ {x}) = n - 1 /\ n - 1 \in Nat /\ n \in Nat
    <3>1. Cardinality(T \ {x}) = n - 1
      BY <1>1, <1>4, FS_RemoveElement
    <3>2. QED
      BY <1>1, <1>4, <3>1
  <2>2. <<n - 1, n>> \in R
    BY <2>1
  <2>3. n - 1 \notin Bad
    BY <1>3, <2>2
  <2>4. QED
    BY <2>1, <2>3
<1>6. QED
  BY <1>4, <1>5

(* Induction over the numbers, by the set of those that have the property.  *)
LEMMA NatByInduction ==
  ASSUME NEW S, 0 \in S, \A n \in Nat : n \in S => n + 1 \in S
  PROVE  Nat \subseteq S
<1> DEFINE R == {p \in Nat \X Nat : p[1] < p[2]}
           T == Nat \ S
<1>1. IsWellFoundedOn(R, Nat)
  BY NatLessThanWellFounded DEF OpToRel
<1>2. SUFFICES ASSUME T # {} PROVE FALSE
  OBVIOUS
<1>3. PICK x \in T : \A y \in T : ~ (<<y, x>> \in R)
  BY <1>1, <1>2, WFMin
<1>4. x \in Nat /\ x # 0 /\ x - 1 \in Nat /\ x - 1 + 1 = x
  BY <1>3
<1>5. x - 1 \notin T
  <2>1. <<x - 1, x>> \in R
    BY <1>4
  <2>2. QED
    BY <1>3, <2>1
<1>6. QED
  BY <1>3, <1>4, <1>5

(* The recursion that MapThenSumSet stands for.                            *)
Unfold(f, D, it) ==
  [s \in D |-> IF s = {} THEN 0
               ELSE f[CHOOSE x \in s : TRUE] + it[s \ {CHOOSE x \in s : TRUE}]]
Iter(f, S) == CHOOSE it : it = Unfold(f, SUBSET S, it)
SumMap(f, S) == MapThenSumSet(LAMBDA x : f[x], S)

LEMMA SumIsIter == ASSUME NEW f, NEW S PROVE SumMap(f, S) = Iter(f, S)[S]
BY DEF SumMap, MapThenSumSet, MapThenFoldSet, Iter, Unfold

Small(S, n) == {s \in SUBSET S : Cardinality(s) <= n}

LEMMA UnfoldStep ==
  ASSUME NEW f, NEW S, IsFiniteSet(S), NEW n \in Nat, NEW it, it = Unfold(f, Small(S, n), it)
  PROVE  LET jt == Unfold(f, Small(S, n + 1), it)
         IN  jt = Unfold(f, Small(S, n + 1), jt)
<1> DEFINE jt == Unfold(f, Small(S, n + 1), it)
<1>1. \A T \in SUBSET S : IsFiniteSet(T) /\ Cardinality(T) \in Nat
  BY FS_Subset, FS_CardinalityType
<1>2. Small(S, n) \subseteq Small(S, n + 1)
  BY <1>1 DEF Small
<1>3. \A s \in Small(S, n) : jt[s] = it[s]
  BY <1>2 DEF Unfold
<1>4. ASSUME NEW s \in Small(S, n + 1), s # {}
      PROVE  s \ {CHOOSE x \in s : TRUE} \in Small(S, n)
  <2>1. s \in SUBSET S /\ IsFiniteSet(s) /\ Cardinality(s) \in Nat /\ Cardinality(s) <= n + 1
    BY <1>1, <1>4 DEF Small
  <2>2. (CHOOSE x \in s : TRUE) \in s
    BY <1>4
  <2>3. Cardinality(s \ {CHOOSE x \in s : TRUE}) = Cardinality(s) - 1
    BY <2>1, <2>2, FS_RemoveElement
  <2>4. QED
    BY <2>1, <2>3 DEF Small
<1>5. \A s \in Small(S, n + 1) :
        jt[s] = IF s = {} THEN 0
                ELSE f[CHOOSE x \in s : TRUE] + jt[s \ {CHOOSE x \in s : TRUE}]
  <2>1. TAKE s \in Small(S, n + 1)
  <2>2. jt[s] = IF s = {} THEN 0
                ELSE f[CHOOSE x \in s : TRUE] + it[s \ {CHOOSE x \in s : TRUE}]
    BY DEF Unfold
  <2>3. QED
    BY <1>3, <1>4, <2>2, Zenon
<1>6. jt = [s \in Small(S, n + 1) |-> jt[s]]
  BY DEF Unfold
<1> HIDE DEF jt
<1>7. jt = Unfold(f, Small(S, n + 1), jt)
  BY <1>5, <1>6 DEF Unfold
<1>8. QED
  BY <1>7 DEF jt

LEMMA IterExists ==
  ASSUME NEW f, NEW S, IsFiniteSet(S)
  PROVE  \E it : it = Unfold(f, SUBSET S, it)
<1> DEFINE P == {n \in Nat : \E it : it = Unfold(f, Small(S, n), it)}
<1>1. \A T \in SUBSET S : IsFiniteSet(T) /\ Cardinality(T) \in Nat /\ Cardinality(T) <= Cardinality(S)
  BY FS_Subset, FS_CardinalityType
<1>2. Small(S, 0) = {{}}
  BY <1>1, FS_EmptySet DEF Small
<1>3. 0 \in P
  <2>1. [s \in {{}} |-> 0] = Unfold(f, {{}}, [s \in {{}} |-> 0])
    BY DEF Unfold
  <2>2. QED
    BY <1>2, <2>1
<1>4. \A n \in Nat : n \in P => n + 1 \in P
  BY UnfoldStep
<1>5. Nat \subseteq P
  BY <1>3, <1>4, NatByInduction
<1>6. Cardinality(S) \in P
  BY <1>1, <1>5
<1>7. Small(S, Cardinality(S)) = SUBSET S
  BY <1>1 DEF Small
<1>8. QED
  BY <1>6, <1>7

LEMMA IterUnfolds ==
  ASSUME NEW f, NEW S, IsFiniteSet(S)
  PROVE  /\ Iter(f, S)[{}] = 0
         /\ \A T \in SUBSET S : T # {} =>
              Iter(f, S)[T] = f[CHOOSE x \in T : TRUE] + Iter(f, S)[T \ {CHOOSE x \in T : TRUE}]
<1>1. Iter(f, S) = Unfold(f, SUBSET S, Iter(f, S))
  BY IterExists, Zenon DEF Iter
<1> DEFINE it == Iter(f, S)
<1>2. it = Unfold(f, SUBSET S, it)
  BY <1>1
<1> HIDE DEF it
<1>3. /\ it[{}] = 0
      /\ \A T \in SUBSET S : T # {} =>
           it[T] = f[CHOOSE x \in T : TRUE] + it[T \ {CHOOSE x \in T : TRUE}]
  <2>1. \A T \in SUBSET S : Unfold(f, SUBSET S, it)[T] =
          IF T = {} THEN 0 ELSE f[CHOOSE x \in T : TRUE] + it[T \ {CHOOSE x \in T : TRUE}]
    BY DEF Unfold
  <2>2. QED
    BY <1>2, <2>1, Zenon
<1>4. QED
  BY <1>3 DEF it

(* The sum over a part does not depend on what else could be summed.       *)
LEMMA IterOfPart ==
  ASSUME NEW f, NEW S, IsFiniteSet(S), NEW T \in SUBSET S
  PROVE  Iter(f, S)[T] = SumMap(f, T)
<1> DEFINE P == {U \in SUBSET T : Iter(f, S)[U] = Iter(f, T)[U]}
<1>1. IsFiniteSet(T)
  BY FS_Subset
<1>2. ASSUME NEW U \in SUBSET T, \A x \in U : U \ {x} \in P PROVE U \in P
  <2>1. CASE U = {}
    BY <1>1, <2>1, IterUnfolds
  <2>2. CASE U # {}
    <3> DEFINE c == CHOOSE x \in U : TRUE
    <3>1. c \in U
      BY <2>2
    <3>2. Iter(f, S)[U] = f[c] + Iter(f, S)[U \ {c}]
      BY <2>2, IterUnfolds
    <3>3. Iter(f, T)[U] = f[c] + Iter(f, T)[U \ {c}]
      BY <1>1, <2>2, IterUnfolds
    <3>4. QED
      BY <1>2, <3>1, <3>2, <3>3
  <2>3. QED
    BY <2>1, <2>2
<1>3. T \in P
  <2> HIDE DEF P
  <2>1. QED
    BY <1>1, <1>2, BySubsets
<1>4. QED
  BY <1>3, SumIsIter

LEMMA SumUnfolds ==
  ASSUME NEW f, NEW S, IsFiniteSet(S)
  PROVE  /\ SumMap(f, {}) = 0
         /\ \A T \in SUBSET S : T # {} =>
              SumMap(f, T) = f[CHOOSE x \in T : TRUE] + SumMap(f, T \ {CHOOSE x \in T : TRUE})
<1>1. \A T \in SUBSET S : Iter(f, S)[T] = SumMap(f, T)
  BY IterOfPart
<1>2. {} \in SUBSET S
  OBVIOUS
<1>3. QED
  BY <1>1, <1>2, IterUnfolds

(* The sum over a finite set is an integer, does not depend on the order,  *)
(* and is that of any function with the same values.                       *)
LEMMA SumType ==
  ASSUME NEW S, IsFiniteSet(S), NEW f, \A x \in S : f[x] \in Int
  PROVE  SumMap(f, S) \in Int
<1> DEFINE P == {T \in SUBSET S : SumMap(f, T) \in Int}
<1>1. ASSUME NEW T \in SUBSET S, \A x \in T : T \ {x} \in P PROVE T \in P
  <2>1. CASE T = {}
    BY <2>1, SumUnfolds
  <2>2. CASE T # {}
    <3> DEFINE c == CHOOSE x \in T : TRUE
    <3>1. c \in T
      BY <2>2
    <3>2. SumMap(f, T) = f[c] + SumMap(f, T \ {c})
      BY <2>2, SumUnfolds
    <3>3. f[c] \in Int /\ SumMap(f, T \ {c}) \in Int
      BY <1>1, <3>1
    <3> HIDE DEF c
    <3>4. QED
      BY <3>2, <3>3
  <2>3. QED
    BY <2>1, <2>2
<1>2. S \in P
  <2> HIDE DEF P
  <2>1. \A T \in SUBSET S : T \in P
    BY <1>1, BySubsets
  <2>2. QED
    BY <2>1
<1>3. QED
  BY <1>2

LEMMA SumTakes ==
  ASSUME NEW S, IsFiniteSet(S), NEW f, \A x \in S : f[x] \in Int, NEW a \in S
  PROVE  SumMap(f, S) = f[a] + SumMap(f, S \ {a})
<1> DEFINE P == {T \in SUBSET S : \A x \in T : SumMap(f, T) = f[x] + SumMap(f, T \ {x})}
<1>1. \A T \in SUBSET S : SumMap(f, T) \in Int
  <2>1. TAKE T \in SUBSET S
  <2>2. IsFiniteSet(T) /\ \A x \in T : f[x] \in Int
    BY FS_Subset
  <2>3. QED
    BY <2>2, SumType
<1>2. ASSUME NEW T \in SUBSET S, \A x \in T : T \ {x} \in P PROVE T \in P
  <2>1. SUFFICES ASSUME NEW x \in T PROVE SumMap(f, T) = f[x] + SumMap(f, T \ {x})
    OBVIOUS
  <2> DEFINE c == CHOOSE y \in T : TRUE
  <2>2. c \in T
    OBVIOUS
  <2>3. SumMap(f, T) = f[c] + SumMap(f, T \ {c})
    BY SumUnfolds
  <2> HIDE DEF c
  <2>4. CASE x = c
    BY <2>3, <2>4
  <2>5. CASE x # c
    <3> DEFINE U == (T \ {x}) \ {c}
               u == SumMap(f, U)
    <3>1. (T \ {c}) \ {x} = U
      OBVIOUS
    <3>2. SumMap(f, T \ {c}) = f[x] + SumMap(f, (T \ {c}) \ {x})
      BY <1>2, <2>2, <2>5
    <3>3. SumMap(f, T \ {c}) = f[x] + u
      BY <3>1, <3>2, Zenon
    <3>4. SumMap(f, T \ {x}) = f[c] + u
      BY <1>2, <2>2, <2>5
    <3>5. f[x] \in Int /\ f[c] \in Int /\ u \in Int
      BY <1>1, <2>2
    <3> HIDE DEF u
    <3>6. QED
      BY <2>3, <3>3, <3>4, <3>5
  <2>6. QED
    BY <2>4, <2>5
<1>3. S \in P
  <2> HIDE DEF P
  <2>1. \A T \in SUBSET S : T \in P
    BY <1>2, BySubsets
  <2>2. QED
    BY <2>1
<1>4. QED
  BY <1>3

LEMMA SumSame ==
  ASSUME NEW S, IsFiniteSet(S), NEW f, NEW g, \A x \in S : f[x] = g[x]
  PROVE  SumMap(f, S) = SumMap(g, S)
<1> DEFINE P == {T \in SUBSET S : SumMap(f, T) = SumMap(g, T)}
<1>1. ASSUME NEW T \in SUBSET S, \A x \in T : T \ {x} \in P PROVE T \in P
  <2>1. CASE T = {}
    BY <2>1, SumUnfolds
  <2>2. CASE T # {}
    <3> DEFINE c == CHOOSE x \in T : TRUE
    <3>1. c \in T
      BY <2>2
    <3>2. SumMap(f, T) = f[c] + SumMap(f, T \ {c})
      BY <2>2, SumUnfolds
    <3>3. SumMap(g, T) = g[c] + SumMap(g, T \ {c})
      BY <2>2, SumUnfolds
    <3> HIDE DEF c
    <3>4. QED
      BY <1>1, <3>1, <3>2, <3>3
  <2>3. QED
    BY <2>1, <2>2
<1>2. S \in P
  <2> HIDE DEF P
  <2>1. \A T \in SUBSET S : T \in P
    BY <1>1, BySubsets
  <2>2. QED
    BY <2>1
<1>3. QED
  BY <1>2

(* The sum when the value of one element changes.                          *)
LEMMA SumChanges ==
  ASSUME NEW S, IsFiniteSet(S), NEW f, NEW g, NEW a \in S,
         \A x \in S : f[x] \in Int, g[a] \in Int, \A x \in S \ {a} : g[x] = f[x]
  PROVE  SumMap(g, S) = SumMap(f, S) - f[a] + g[a]
<1>1. SumMap(f, S) = f[a] + SumMap(f, S \ {a})
  BY SumTakes
<1>2. SumMap(g, S) = g[a] + SumMap(g, S \ {a})
  <2>1. \A x \in S : g[x] \in Int
    OBVIOUS
  <2>2. QED
    BY <2>1, SumTakes
<1>3. IsFiniteSet(S \ {a})
  BY FS_Subset
<1>4. SumMap(f, S \ {a}) = SumMap(g, S \ {a})
  BY <1>3, SumSame
<1>5. SumMap(f, S \ {a}) \in Int
  BY <1>3, SumType
<1>6. f[a] \in Int
  OBVIOUS
<1>7. QED
  BY <1>1, <1>2, <1>4, <1>5, <1>6
-----------------------------------------------------------------------------

(* Where the one thread that is in a call is: before task i of a plan,     *)
(* with the tasks of an unfinished save, or a mark, in front; f is the     *)
(* file as it is when that save is done.  Behind the last task no call is  *)
(* under way.                                                              *)
Plans == {"piece", "deal", "load", "boot"}
Plan(p) == CASE p = "piece" -> <<"store_piece">>
             [] p = "deal" -> DealTasks
             [] p = "load" -> LoadTasks \o SaveTasks
             [] p = "boot" -> BootTasks
Size(p) == CASE p = "piece" -> 1 [] p = "deal" -> 16 [] p = "load" -> 9 [] p = "boot" -> 8
Rest(p, i) == SubSeq(Plan(p), i, Size(p))

Place(t, p, i, f, m) ==
  \/ todo[t] = Rest(p, i) /\ f = file /\ ~m
  \/ todo[t] = <<"mark">> \o Rest(p, i) /\ f = file /\ m
  \/ todo[t] = <<"truncate", "write">> \o Rest(p, i) /\ f = locals[t].copy /\ ~m
  \/ todo[t] = <<"write">> \o Rest(p, i) /\ f = locals[t].copy /\ file = EmptyFile /\ ~m

Only(t) == \A u \in Threads \ {t} : todo[u] = <<>> /\ ~locals[u].over

Deal_(p, i, a, b) == p = "deal" /\ a <= i /\ i <= b
Load_(p, i, a, b) == p = "load" /\ a <= i /\ i <= b
Boot_(p, i, a, b) == p = "boot" /\ a <= i /\ i <= b
Started(p, i) == p # "boot" \/ i > 4

Keys == {"month", "day", "read", "write"} \X (-1 .. LastDate)
IsFile(f) == DOMAIN f \subseteq Keys /\ f \in [DOMAIN f -> Nat]

Numbers ==
  /\ to_read_ \in Nat /\ comm_read_flow_ \in Nat
  /\ comm_curr_month_flow_ \in Nat /\ comm_last_day_flow_ \in Nat
  /\ current_day_ \in Date \union {-1} /\ flow_event_reported_ \in {0, 1}
  /\ IsFile(file) /\ date \in Date
  /\ dealt \in [Date -> Nat] /\ raised \in [Date -> Nat]
  /\ received \in Int /\ torn \in BOOLEAN
  /\ used \in [{"pieces", "cuts", "inits", "sets"} -> Nat]

Locals(v, s, o, c) == [value |-> v, sum |-> s, over |-> o, copy |-> c]
IsLocals(l) ==
  /\ l.value \in Nat /\ l.sum \in Nat /\ l.over \in BOOLEAN /\ IsFile(l.copy)
  /\ l = Locals(l.value, l.sum, l.over, l.copy)
Frames ==
  /\ todo = [u \in Threads |-> todo[u]]
  /\ locals = [u \in Threads |-> locals[u]] /\ \A u \in Threads : IsLocals(locals[u])

(* What a call has loaded, and which of the rare things have happened.     *)
Registers(p, i, v, s) ==
  /\ p = "piece" /\ i = 1 => s = to_read_ + 1
  /\ Deal_(p, i, 2, 2) => v = to_read_
  /\ Deal_(p, i, 3, 4) \/ Boot_(p, i, 1, 8) => to_read_ = 0
  /\ Deal_(p, i, 4, 4) => s = comm_read_flow_ + v
  /\ Deal_(p, i, 6, 6) => s = comm_curr_month_flow_ + v
  /\ Deal_(p, i, 9, 9) => s = comm_curr_month_flow_

Calendar(p, i) ==
  /\ Started(p, i) <=> current_day_ \in Date
  /\ used["inits"] > 0 => used["cuts"] = 0 /\ used["sets"] = 0 /\ p # "boot"
  /\ used["sets"] = 0 => current_day_ <= date
  /\ Load_(p, i, 1, 1) /\ used["sets"] = 0 => current_day_ < date
  /\ (Load_(p, i, 2, 9) \/ Boot_(p, i, 5, 8)) /\ used["sets"] = 0 =>
       date \in {current_day_, current_day_ + 1}

Traffic(p, i, f, v, s) ==
  ~torn =>
    /\ received = to_read_ + (IF Deal_(p, i, 3, 3) THEN comm_read_flow_ + v
                              ELSE IF Deal_(p, i, 4, 4) THEN s
                              ELSE IF Boot_(p, i, 1, 1) THEN Saved(f, ReadKey)
                              ELSE IF Boot_(p, i, 2, 2) THEN v
                              ELSE comm_read_flow_)
    /\ used["inits"] = 0 /\ ~Deal_(p, i, 5, 14) =>
         Saved(f, ReadKey) = IF Boot_(p, i, 1, 2) THEN received ELSE comm_read_flow_

Months == {Month(d) : d \in Date}
Now == Month(current_day_)
DealtIn(m) == SumOver(InMonth(m))
SavedIn(f, m) == Saved(f, <<"month", m>>)

MonthKept(p, i, f, v, s) ==
  ~torn =>
    /\ Deal_(p, i, 5, 5) => comm_curr_month_flow_ + v = DealtIn(Now)
    /\ Deal_(p, i, 6, 6) => s = DealtIn(Now)
    /\ Load_(p, i, 3, 3) \/ Boot_(p, i, 6, 6) => v = DealtIn(Now)
    /\ ~(Deal_(p, i, 5, 6) \/ Load_(p, i, 1, 3) \/ Boot_(p, i, 1, 6)) => comm_curr_month_flow_ = DealtIn(Now)
    /\ (used["inits"] = 0 /\ ~Deal_(p, i, 5, 12) /\ Started(p, i))
         \/ Deal_(p, i, 13, 16) \/ p = "load" => SavedIn(f, Now) = DealtIn(Now)
    /\ \A m \in Months :
         (used["inits"] = 0 \/ m > Now) /\ (m # Now \/ ~Started(p, i)) =>
            SavedIn(f, m) = DealtIn(m)

Covers(f) == MonthSum(f) >= Saved(f, ReadKey)
Cover(p, i, f, v, s) ==
  used["inits"] = 0 =>
    /\ Covers(file) /\ Covers(f)
    /\ IF Boot_(p, i, 1, 2) THEN i = 2 => v = Saved(f, ReadKey)
       ELSE Saved(f, ReadKey) <= comm_read_flow_
    /\ Deal_(p, i, 5, 5) =>
         comm_curr_month_flow_ = SavedIn(f, Now) /\ MonthSum(f) + v >= comm_read_flow_
    /\ Deal_(p, i, 6, 6) => MonthSum(f) - SavedIn(f, Now) + s >= comm_read_flow_
    /\ Deal_(p, i, 7, 12) =>
         MonthSum(f) - SavedIn(f, Now) + comm_curr_month_flow_ >= comm_read_flow_
    /\ Load_(p, i, 3, 3) \/ Boot_(p, i, 6, 6) => v = SavedIn(f, Now)
    /\ ~(Deal_(p, i, 5, 12) \/ Boot_(p, i, 1, 2)) => MonthSum(f) >= comm_read_flow_
    /\ ~(Deal_(p, i, 5, 12) \/ Load_(p, i, 1, 3) \/ Boot_(p, i, 1, 6)) =>
         comm_curr_month_flow_ = SavedIn(f, Now)

Over == FluxLimitor > 0 /\ comm_curr_month_flow_ > FluxLimitor
Limit(p, i, m, o) ==
  /\ m => p = "deal" /\ i \in {8, 11} /\ flow_event_reported_ = 0
  /\ o => Deal_(p, i, 8, 16) /\ flow_event_reported_ = 1
  /\ flow_event_reported_ = 1 =>
       current_day_ \in Date /\ (raised[current_day_] > 0 \/ (o /\ Deal_(p, i, 8, 11)))
  /\ Deal_(p, i, 11, 12) /\ Over => flow_event_reported_ = 1 \/ m
  /\ used["cuts"] = 0 /\ used["sets"] = 0 =>
       \A d \in Date :
         /\ raised[d] <= 1
         /\ d > current_day_ => raised[d] = 0
         /\ d = current_day_ /\ (flow_event_reported_ = 0 \/ (o /\ Deal_(p, i, 8, 11))) =>
              raised[d] = 0

Days(c, f) ==
  \A d \in Date : d > c => DayKey(d) \notin DOMAIN f /\ dealt[d] = 0
Boot(c, f) ==
  /\ c <= date /\ Days(c, f)
  /\ DayKey(c) \in DOMAIN f => f[DayKey(c)] = received
  /\ c \in Date /\ DayKey(c - 1) \in DOMAIN f => f[DayKey(c - 1)] = received - dealt[c]
  /\ c \in Date /\ date = c /\ DayKey(c - 1) \notin DOMAIN f => dealt[c] = 0
DayKept(p, i, f, v) ==
  ~torn /\ used["sets"] = 0 =>
    /\ Boot_(p, i, 1, 4) => \E c \in Date \union {-1} : Boot(c, f)
    /\ Started(p, i) =>
         /\ Days(current_day_, f)
         /\ DayKey(current_day_) \in DOMAIN f /\ ~Deal_(p, i, 5, 13) =>
              f[DayKey(current_day_)] = comm_read_flow_
         /\ DayKey(current_day_ - 1) \in DOMAIN f =>
              f[DayKey(current_day_ - 1)] = comm_read_flow_ - dealt[current_day_]
    /\ Load_(p, i, 2, 4) => dealt[current_day_] = 0
    /\ Boot_(p, i, 5, 7) /\ date = current_day_ /\ DayKey(current_day_ - 1) \notin DOMAIN f =>
         dealt[current_day_] = 0
    /\ (Load_(p, i, 5, 5) \/ Boot_(p, i, 8, 8)) /\ date = current_day_ =>
         v = comm_read_flow_ - dealt[current_day_]
    /\ ~(Load_(p, i, 1, 5) \/ Boot_(p, i, 1, 8)) /\ date = current_day_ =>
         comm_read_flow_ - comm_last_day_flow_ = dealt[current_day_]
    /\ ~(Load_(p, i, 1, 4) \/ Boot_(p, i, 1, 7)) /\ date = current_day_ /\ used["inits"] = 0 =>
         DayKey(current_day_ - 1) \in DOMAIN f

Facts(p, i, f, m, v, s, o) ==
  /\ Registers(p, i, v, s) /\ Calendar(p, i) /\ Traffic(p, i, f, v, s)
  /\ MonthKept(p, i, f, v, s) /\ Cover(p, i, f, v, s) /\ Limit(p, i, m, o)
  /\ DayKept(p, i, f, v)

Here(t, p, i, f, m) ==
  /\ Only(t) /\ Place(t, p, i, f, m)
  /\ Facts(p, i, f, m, locals[t].value, locals[t].sum, locals[t].over)

FlowInv ==
  /\ Numbers /\ Frames
  /\ \E t \in Threads, p \in Plans, m \in BOOLEAN :
       \E i \in 1 .. Size(p) + 1, f \in {file, locals[t].copy} : Here(t, p, i, f, m)
-----------------------------------------------------------------------------
(* The keys of the file, and what a save does to the file.                 *)
LEMMA KeysDiffer ==
  /\ \A m, n : <<"month", m>> = <<"month", n>> <=> m = n
  /\ \A m, n : DayKey(m) = DayKey(n) <=> m = n
  /\ \A m, n : <<"month", m>> # DayKey(n)
  /\ \A m : <<"month", m>> # ReadKey /\ <<"month", m>> # WriteKey
  /\ \A m : DayKey(m) # ReadKey /\ DayKey(m) # WriteKey
  /\ ReadKey # WriteKey
BY DEF DayKey, ReadKey, WriteKey

LEMMA PutSaves ==
  ASSUME NEW f, NEW k, NEW v
  PROVE  /\ DOMAIN Put(f, k, v) = DOMAIN f \union {k}
         /\ Saved(Put(f, k, v), k) = v /\ Put(f, k, v)[k] = v
         /\ \A j : j # k => Saved(Put(f, k, v), j) = Saved(f, j)
         /\ \A j \in DOMAIN f : j # k => Put(f, k, v)[j] = f[j]
BY DEF Put, Saved

LEMMA PutIsFile ==
  ASSUME NEW f, IsFile(f), NEW k \in Keys, NEW v \in Nat
  PROVE  IsFile(Put(f, k, v))
BY DEF Put, IsFile

LEMMA SavedType == ASSUME NEW f, IsFile(f), NEW k PROVE Saved(f, k) \in Nat
BY DEF IsFile, Saved

LEMMA FileIsFinite ==
  ASSUME FlowAssumption, NEW f, IsFile(f)
  PROVE  IsFiniteSet(DOMAIN f) /\ \A k \in DOMAIN f : f[k] \in Nat
<1>1. IsFiniteSet({"month", "day", "read", "write"})
  <2>1. IsFiniteSet({"month"})
    BY FS_Singleton
  <2>2. IsFiniteSet({"month"} \cup {"day"})
    BY <2>1, FS_AddElement
  <2>3. IsFiniteSet(({"month"} \cup {"day"}) \cup {"read"})
    BY <2>2, FS_AddElement
  <2>4. IsFiniteSet((({"month"} \cup {"day"}) \cup {"read"}) \cup {"write"})
    BY <2>3, FS_AddElement
  <2>5. {"month", "day", "read", "write"} = (({"month"} \cup {"day"}) \cup {"read"}) \cup {"write"}
    OBVIOUS
  <2>6. QED
    BY <2>4, <2>5
<1>2. IsFiniteSet(-1 .. LastDate)
  <2>1. -1 \in Int /\ LastDate \in Int
    BY DEF FlowAssumption
  <2>2. QED
    BY <2>1, FS_Interval
<1>3. IsFiniteSet(Keys)
  BY <1>1, <1>2, FS_Product DEF Keys
<1>4. QED
  BY <1>3, FS_Subset DEF IsFile

MonthKeys(f) == {k \in DOMAIN f : k[1] = "month"}

LEMMA MonthSumIs ==
  ASSUME FlowAssumption, NEW f, IsFile(f)
  PROVE  /\ MonthSum(f) = SumMap(f, MonthKeys(f)) /\ MonthSum(f) \in Int
         /\ IsFiniteSet(MonthKeys(f)) /\ \A k \in MonthKeys(f) : f[k] \in Int
<1>1. MonthSum(f) = SumMap(f, MonthKeys(f))
  BY DEF MonthSum, SumMap, MonthKeys
<1>2. IsFiniteSet(MonthKeys(f)) /\ \A k \in MonthKeys(f) : f[k] \in Int
  BY FileIsFinite, FS_Subset DEF MonthKeys
<1>3. QED
  BY <1>1, <1>2, SumType

LEMMA MonthSumEmpty == MonthSum(EmptyFile) = 0
<1>1. MonthSum(EmptyFile) = SumMap(EmptyFile, MonthKeys(EmptyFile))
  BY DEF MonthSum, SumMap, MonthKeys
<1>2. MonthKeys(EmptyFile) = {}
  BY DEF MonthKeys, EmptyFile
<1>3. QED
  BY <1>1, <1>2, SumUnfolds, FS_EmptySet

LEMMA PutOther ==
  ASSUME FlowAssumption, NEW f, IsFile(f), NEW k \in Keys, k[1] # "month", NEW v \in Nat
  PROVE  MonthSum(Put(f, k, v)) = MonthSum(f)
<1> DEFINE g == Put(f, k, v)
<1>1. IsFile(g)
  BY PutIsFile
<1>2. MonthKeys(g) = MonthKeys(f) /\ \A j \in MonthKeys(f) : g[j] = f[j]
  <2>1. DOMAIN g = DOMAIN f \union {k} /\ \A j \in DOMAIN f : j # k => g[j] = f[j]
    BY DEF Put
  <2> HIDE DEF g
  <2>2. QED
    BY <2>1 DEF MonthKeys
<1> HIDE DEF g
<1>3. MonthSum(g) = SumMap(g, MonthKeys(f)) /\ MonthSum(f) = SumMap(f, MonthKeys(f))
      /\ IsFiniteSet(MonthKeys(f))
  BY <1>1, <1>2, MonthSumIs
<1>4. MonthSum(g) = MonthSum(f)
  BY <1>2, <1>3, SumSame
<1>5. QED
  BY <1>4 DEF g

LEMMA PutMonth ==
  ASSUME FlowAssumption, NEW f, IsFile(f), NEW m, <<"month", m>> \in Keys, NEW v \in Nat
  PROVE  MonthSum(Put(f, <<"month", m>>, v)) = MonthSum(f) - Saved(f, <<"month", m>>) + v
<1> DEFINE k == <<"month", m>>
           g == Put(f, k, v)
<1>1. IsFile(g) /\ k[1] = "month"
  BY PutIsFile
<1>2. MonthKeys(g) = MonthKeys(f) \union {k}
      /\ (\A j \in MonthKeys(f) \ {k} : g[j] = f[j]) /\ g[k] = v
  <2>1. DOMAIN g = DOMAIN f \union {k} /\ g[k] = v /\ \A j \in DOMAIN f : j # k => g[j] = f[j]
    BY DEF Put
  <2> HIDE DEF g, k
  <2>2. QED
    BY <1>1, <2>1 DEF MonthKeys
<1> HIDE DEF g, k
<1>3. MonthSum(g) = SumMap(g, MonthKeys(f) \union {k}) /\ MonthSum(f) = SumMap(f, MonthKeys(f))
      /\ IsFiniteSet(MonthKeys(f) \union {k}) /\ IsFiniteSet(MonthKeys(f))
      /\ \A j \in MonthKeys(f) : f[j] \in Int
  BY <1>1, <1>2, MonthSumIs
<1>4. CASE k \in MonthKeys(f)
  <2>1. SumMap(g, MonthKeys(f)) = SumMap(f, MonthKeys(f)) - f[k] + g[k]
    <3>1. g[k] \in Int
      BY <1>2
    <3>2. QED
      <4>1. \A j \in MonthKeys(f) : f[j] \in Int
        BY <1>3
      <4>2. \A j \in MonthKeys(f) \ {k} : g[j] = f[j]
        BY <1>2
      <4>3. IsFiniteSet(MonthKeys(f))
        BY <1>3
      <4>4. QED
        BY <1>4, <3>1, <4>1, <4>2, <4>3, SumChanges
  <2>2. MonthKeys(f) \union {k} = MonthKeys(f) /\ Saved(f, k) = f[k]
    BY <1>4 DEF MonthKeys, Saved
  <2>3. MonthSum(g) = MonthSum(f) - Saved(f, k) + v
    BY <1>2, <1>3, <2>1, <2>2
  <2>4. QED
    BY <2>3 DEF g, k
<1>5. CASE k \notin MonthKeys(f)
  <2>1. \A j \in MonthKeys(f) \union {k} : g[j] \in Int
    BY <1>2, <1>3, <1>5
  <2>2. SumMap(g, MonthKeys(f) \union {k}) = g[k] + SumMap(g, (MonthKeys(f) \union {k}) \ {k})
    BY <1>3, <2>1, SumTakes
  <2>3. (MonthKeys(f) \union {k}) \ {k} = MonthKeys(f)
    BY <1>5
  <2>4. SumMap(g, MonthKeys(f)) = SumMap(f, MonthKeys(f))
    BY <1>2, <1>3, <1>5, SumSame
  <2>5. Saved(f, k) = 0
    BY <1>1, <1>5 DEF MonthKeys, Saved
  <2>6. MonthSum(f) \in Int
    BY MonthSumIs
  <2>7. MonthSum(g) = MonthSum(f) - Saved(f, k) + v
    <3>1. MonthSum(g) = v + MonthSum(f)
      BY <1>2, <1>3, <2>2, <2>3, <2>4, Zenon
    <3>2. QED
      BY <2>5, <2>6, <3>1
  <2>8. QED
    BY <2>7 DEF g, k
<1>6. QED
  BY <1>4, <1>5
-----------------------------------------------------------------------------
(* Dates and months.                                                       *)
LEMMA MonthType ==
  ASSUME FlowAssumption, NEW d \in Date
  PROVE  Month(d) \in 0 .. LastDate /\ <<"month", Month(d)>> \in Keys
<1>1. d \in Int /\ 0 <= d /\ d <= LastDate /\ DaysPerMonth \in Int /\ DaysPerMonth > 0
      /\ LastDate \in Int
  BY DEF Date, FlowAssumption
<1>2. d \div DaysPerMonth \in Int
  BY <1>1
<1>3. 0 <= d \div DaysPerMonth /\ d \div DaysPerMonth <= d
  BY <1>1, SMTT(60)
<1>4. QED
  BY <1>1, <1>2, <1>3 DEF Month, Keys

LEMMA MonthGrows ==
  ASSUME FlowAssumption, NEW a \in Date, NEW b \in Date, a <= b
  PROVE  Month(a) <= Month(b)
<1>1. a \in Int /\ b \in Int /\ DaysPerMonth \in Int /\ DaysPerMonth > 0
  BY DEF Date, FlowAssumption
<1>2. a \div DaysPerMonth <= b \div DaysPerMonth
  BY <1>1, SMTT(60)
<1>3. QED
  BY <1>2 DEF Month

LEMMA DealtInSum == \A m : DealtIn(m) = SumMap(dealt, InMonth(m))
BY DEF DealtIn, SumOver, SumMap

LEMMA DealtInSumNext == \A m : DealtIn(m)' = SumMap(dealt', InMonth(m))
<1>1. (\A m : DealtIn(m) = SumMap(dealt, InMonth(m)))'
  BY DealtInSum, PTL
<1>2. QED
  BY <1>1

LEMMA DealtInIs ==
  ASSUME FlowAssumption, dealt \in [Date -> Nat], NEW m
  PROVE  /\ DealtIn(m) = SumMap(dealt, InMonth(m)) /\ DealtIn(m) \in Int
         /\ IsFiniteSet(InMonth(m))
<1>1. IsFiniteSet(Date)
  <2>1. 0 \in Int /\ LastDate \in Int
    BY DEF FlowAssumption
  <2>2. QED
    BY <2>1, FS_Interval DEF Date
<1>2. IsFiniteSet(InMonth(m)) /\ \A d \in InMonth(m) : dealt[d] \in Int
  BY <1>1, FS_Subset DEF InMonth
<1>3. DealtIn(m) = SumMap(dealt, InMonth(m))
  BY DealtInSum
<1>4. QED
  BY <1>2, <1>3, SumType

LEMMA DealtGrows ==
  ASSUME FlowAssumption, dealt \in [Date -> Nat], NEW c \in Date, NEW v \in Nat,
         dealt' = [dealt EXCEPT ![c] = dealt[c] + v], NEW m
  PROVE  DealtIn(m)' = IF m = Month(c) THEN DealtIn(m) + v ELSE DealtIn(m)
<1>1. DealtIn(m)' = SumMap(dealt', InMonth(m))
  BY DealtInSumNext
<1>2. DealtIn(m) = SumMap(dealt, InMonth(m)) /\ DealtIn(m) \in Int /\ IsFiniteSet(InMonth(m))
  BY DealtInIs
<1>3. /\ \A d \in InMonth(m) : dealt[d] \in Int
      /\ \A d \in InMonth(m) \ {c} : dealt'[d] = dealt[d]
      /\ dealt[c] \in Int /\ dealt'[c] = dealt[c] + v /\ dealt'[c] \in Int
  BY DEF InMonth
<1>4. CASE m = Month(c)
  <2>1. c \in InMonth(m)
    BY <1>4 DEF InMonth
  <2>2. SumMap(dealt', InMonth(m)) = SumMap(dealt, InMonth(m)) - dealt[c] + dealt'[c]
    <3> DEFINE g == dealt
               h == dealt'
    <3>1. /\ \A d \in InMonth(m) : g[d] \in Int
          /\ \A d \in InMonth(m) \ {c} : h[d] = g[d]
          /\ h[c] \in Int
      BY <1>3
    <3> HIDE DEF g, h
    <3>2. SumMap(h, InMonth(m)) = SumMap(g, InMonth(m)) - g[c] + h[c]
      BY <1>2, <2>1, <3>1, SumChanges
    <3>3. QED
      BY <3>2 DEF g, h
  <2>3. QED
    BY <1>1, <1>2, <1>3, <1>4, <2>2
<1>5. CASE m # Month(c)
  <2>1. \A d \in InMonth(m) : dealt'[d] = dealt[d]
    BY <1>3, <1>5 DEF InMonth
  <2>2. SumMap(dealt', InMonth(m)) = SumMap(dealt, InMonth(m))
    BY <1>2, <2>1, SumSame
  <2>3. QED
    BY <1>1, <1>2, <1>5, <2>2
<1>6. QED
  BY <1>4, <1>5
-----------------------------------------------------------------------------
(* The plans, task by task.                                                *)
Task_ == {"store_piece", "copy", "clear", "add_read", "store_read", "add_month", "store_month",
          "limit", "add_nothing", "event", "save_month", "save_day", "save_read", "save_write",
          "check", "reset", "get_month", "set_month", "get_day", "set_day",
          "get_read", "set_read", "get_write"}

LEMMA Joined ==
  ASSUME NEW s \in Seq(Task_), NEW t \in Seq(Task_), NEW r \in Seq(Task_), NEW m \in Nat, NEW n \in Nat,
         Len(s) = m, Len(t) = n, Len(r) = m + n,
         \A i \in 1 .. m : r[i] = s[i], \A i \in 1 .. n : r[m + i] = t[i]
  PROVE  s \o t = r
<1>1. s \o t \in Seq(Task_) /\ Len(s \o t) = m + n
  BY ConcatProperties
<1>2. \A i \in 1 .. m + n : (s \o t)[i] = r[i]
  <2>1. TAKE i \in 1 .. m + n
  <2>2. (s \o t)[i] = IF i <= m THEN s[i] ELSE t[i - m]
    BY ConcatProperties
  <2>3. CASE i <= m
    BY <2>2, <2>3
  <2>4. CASE ~(i <= m)
    <3>1. i - m \in 1 .. n /\ m + (i - m) = i
      BY <2>4
    <3>2. QED
      BY <2>2, <2>4, <3>1
  <2>5. QED
    BY <2>3, <2>4
<1>3. QED
  BY <1>1, <1>2, SeqEqual

LEMMA PlanIs ==
  /\ Plan("piece") = <<"store_piece">>
  /\ Plan("deal") = <<"copy", "clear", "add_read", "store_read", "add_month", "store_month",
                      "limit", "add_nothing", "store_month", "limit", "event",
                      "save_month", "save_day", "save_read", "save_write", "check">>
  /\ Plan("load") = <<"reset", "get_month", "set_month", "get_day", "set_day",
                      "save_month", "save_day", "save_read", "save_write">>
  /\ Plan("boot") = <<"get_read", "set_read", "get_write", "reset", "get_month", "set_month",
                      "get_day", "set_day">>
<1> DEFINE save == <<"save_month", "save_day", "save_read", "save_write">>
           check == <<"check">>
           load == <<"reset", "get_month", "set_month", "get_day", "set_day">>
           load_save == <<"reset", "get_month", "set_month", "get_day", "set_day",
                          "save_month", "save_day", "save_read", "save_write">>
           deal == <<"copy", "clear", "add_read", "store_read", "add_month", "store_month",
                     "limit", "add_nothing", "store_month", "limit", "event">>
           deal_save == <<"copy", "clear", "add_read", "store_read", "add_month", "store_month",
                          "limit", "add_nothing", "store_month", "limit", "event",
                          "save_month", "save_day", "save_read", "save_write">>
           deal_check == <<"copy", "clear", "add_read", "store_read", "add_month", "store_month",
                          "limit", "add_nothing", "store_month", "limit", "event",
                          "save_month", "save_day", "save_read", "save_write", "check">>
<1>0. save \in Seq(Task_) /\ Len(save) = 4
  BY SMTT(60) DEF Task_
<1>1. check \in Seq(Task_) /\ Len(check) = 1
  BY SMTT(60) DEF Task_
<1>2. deal \in Seq(Task_) /\ Len(deal) = 11
  BY SMTT(60) DEF Task_
<1>3. deal_save \in Seq(Task_) /\ Len(deal_save) = 15
  BY SMTT(60) DEF Task_
<1>4. deal_check \in Seq(Task_) /\ Len(deal_check) = 16
  BY SMTT(60) DEF Task_
<1>5. load \in Seq(Task_) /\ Len(load) = 5 /\ load_save \in Seq(Task_) /\ Len(load_save) = 9
  BY SMTT(60) DEF Task_
<1>6. (\A i \in 1 .. 11 : deal_save[i] = deal[i]) /\ \A i \in 1 .. 4 : deal_save[11 + i] = save[i]
  BY SMTT(60)
<1>7. /\ \A i \in 1 .. 15 : deal_check[i] = deal_save[i]
      /\ \A i \in 1 .. 1 : deal_check[15 + i] = check[i]
  BY SMTT(60)
<1>8. (\A i \in 1 .. 5 : load_save[i] = load[i]) /\ \A i \in 1 .. 4 : load_save[5 + i] = save[i]
  BY SMTT(60)
<1>9. deal \o save = deal_save /\ deal_save \o check = deal_check /\ load \o save = load_save
  <2> HIDE DEF deal, save, deal_save, check, deal_check, load, load_save
  <2>1. deal \o save = deal_save
    <3>1. Len(deal_save) = 11 + 4
      BY <1>3
    <3>2. 11 \in Nat /\ 4 \in Nat
      OBVIOUS
    <3>3. QED
      BY <1>0, <1>2, <1>3, <1>6, <3>1, <3>2, Joined, Zenon
  <2>2. deal_save \o check = deal_check
    <3>1. Len(deal_check) = 15 + 1
      BY <1>4
    <3>2. 15 \in Nat /\ 1 \in Nat
      OBVIOUS
    <3>3. QED
      BY <1>1, <1>3, <1>4, <1>7, <3>1, <3>2, Joined, Zenon
  <2>3. load \o save = load_save
    <3>1. Len(load_save) = 5 + 4
      BY <1>5
    <3>2. 5 \in Nat /\ 4 \in Nat
      OBVIOUS
    <3>3. QED
      BY <1>0, <1>5, <1>8, <3>1, <3>2, Joined, Zenon
  <2>4. QED
    BY <2>1, <2>2, <2>3
<1>10. Plan("deal") = (deal \o save) \o check /\ Plan("load") = load \o save
  BY DEF Plan, DealTasks, LoadTasks, SaveTasks
<1>11. Plan("deal") = deal_check /\ Plan("load") = load_save
  BY <1>9, <1>10, Zenon
<1>12. Plan("piece") = <<"store_piece">>
  BY DEF Plan
<1>13. Plan("boot") = BootTasks
  BY DEF Plan
<1>14. BootTasks = <<"get_read", "set_read", "get_write", "reset", "get_month", "set_month",
                     "get_day", "set_day">>
  <2>1. <<"get_read", "set_read", "get_write">> \o LoadTasks
          = <<"get_read", "set_read", "get_write", "reset", "get_month", "set_month",
              "get_day", "set_day">>
    <3> DEFINE a == <<"get_read", "set_read", "get_write">>
               b == <<"reset", "get_month", "set_month", "get_day", "set_day">>
               c == <<"get_read", "set_read", "get_write", "reset", "get_month", "set_month",
                      "get_day", "set_day">>
    <3>1. a \in Seq(Task_) /\ Len(a) = 3 /\ c \in Seq(Task_) /\ Len(c) = 3 + 5
      BY SMTT(60) DEF Task_
    <3>2. (\A i \in 1 .. 3 : c[i] = a[i]) /\ \A i \in 1 .. 5 : c[3 + i] = b[i]
      BY SMTT(60)
    <3>3. b \in Seq(Task_) /\ Len(b) = 5
      BY <1>5
    <3> HIDE DEF a, b, c
    <3>4. 3 \in Nat /\ 5 \in Nat
      OBVIOUS
    <3>5. a \o b = c
      BY <3>1, <3>2, <3>3, <3>4, Joined, Zenon
    <3>6. QED
      BY <3>5, Zenon DEF a, b, c, LoadTasks
  <2>2. QED
    BY <2>1 DEF BootTasks
<1>15. QED
  BY <1>11, <1>12, <1>13, <1>14

LEMMA PlanIsSeq ==
  ASSUME NEW p \in Plans
  PROVE  Plan(p) \in Seq(Task_) /\ Len(Plan(p)) = Size(p) /\ Size(p) \in 1 .. 16
<1>1. CASE p = "piece"
  <2> DEFINE s == Plan("piece")
  <2>1. s = <<"store_piece">>
    BY PlanIs
  <2>2. Size("piece") = 1
    BY DEF Size
  <2> HIDE DEF s
  <2>3. s \in Seq(Task_)
    BY <2>1, SMTT(60) DEF Task_
  <2>4. Len(s) = 1
    BY <2>1, SMTT(60)
  <2>5. Size("piece") \in 1 .. 16
    BY <2>2
  <2>6. QED
    BY <1>1, <2>2, <2>3, <2>4, <2>5, Zenon DEF s
<1>2. CASE p = "deal"
  <2> DEFINE s == Plan("deal")
  <2>1. s = <<"copy", "clear", "add_read", "store_read", "add_month", "store_month",
              "limit", "add_nothing", "store_month", "limit", "event",
              "save_month", "save_day", "save_read", "save_write", "check">>
    BY PlanIs
  <2>2. Size("deal") = 16
    BY DEF Size
  <2> HIDE DEF s
  <2>3. s \in Seq(Task_)
    BY <2>1, SMTT(60) DEF Task_
  <2>4. Len(s) = 16
    BY <2>1, SMTT(60)
  <2>5. Size("deal") \in 1 .. 16
    BY <2>2
  <2>6. QED
    BY <1>2, <2>2, <2>3, <2>4, <2>5, Zenon DEF s
<1>3. CASE p = "load"
  <2> DEFINE s == Plan("load")
  <2>1. s = <<"reset", "get_month", "set_month", "get_day", "set_day",
              "save_month", "save_day", "save_read", "save_write">>
    BY PlanIs
  <2>2. Size("load") = 9
    BY DEF Size
  <2> HIDE DEF s
  <2>3. s \in Seq(Task_)
    BY <2>1, SMTT(60) DEF Task_
  <2>4. Len(s) = 9
    BY <2>1, SMTT(60)
  <2>5. Size("load") \in 1 .. 16
    BY <2>2
  <2>6. QED
    BY <1>3, <2>2, <2>3, <2>4, <2>5, Zenon DEF s
<1>4. CASE p = "boot"
  <2> DEFINE s == Plan("boot")
  <2>1. s = <<"get_read", "set_read", "get_write", "reset", "get_month", "set_month",
              "get_day", "set_day">>
    BY PlanIs
  <2>2. Size("boot") = 8
    BY DEF Size
  <2> HIDE DEF s
  <2>3. s \in Seq(Task_)
    BY <2>1, SMTT(60) DEF Task_
  <2>4. Len(s) = 8
    BY <2>1, SMTT(60)
  <2>5. Size("boot") \in 1 .. 16
    BY <2>2
  <2>6. QED
    BY <1>4, <2>2, <2>3, <2>4, <2>5, Zenon DEF s
<1>5. QED
  BY <1>1, <1>2, <1>3, <1>4, Zenon DEF Plans

LEMMA RestIs ==
  ASSUME NEW p \in Plans
  PROVE  /\ \A i \in 1 .. Size(p) + 1 : Rest(p, i) \in Seq(Task_) /\ Len(Rest(p, i)) = Size(p) + 1 - i
         /\ \A i \in 1 .. Size(p) : /\ Rest(p, i) # <<>> /\ Head(Rest(p, i)) = Plan(p)[i]
                                    /\ Tail(Rest(p, i)) = Rest(p, i + 1)
         /\ Rest(p, Size(p) + 1) = <<>>
         /\ Rest(p, 1) = Plan(p)
<1> DEFINE s == Plan(p)
           n == Size(p)
<1>1. s \in Seq(Task_) /\ Len(s) = n /\ n \in 1 .. 16
  BY PlanIsSeq
<1> HIDE DEF s, n
<1>2. /\ \A i \in 1 .. n + 1 : SubSeq(s, i, n) \in Seq(Task_) /\ Len(SubSeq(s, i, n)) = n + 1 - i
      /\ \A i \in 1 .. n + 1 : \A j \in 1 .. n + 1 - i : SubSeq(s, i, n)[j] = s[i + j - 1]
  BY <1>1, SubSeqProperties
<1>3. \A i \in 1 .. n : SubSeq(s, i, n) # <<>> /\ Head(SubSeq(s, i, n)) = s[i]
  BY <1>1, <1>2
<1>4. ASSUME NEW i \in 1 .. n PROVE Tail(SubSeq(s, i, n)) = SubSeq(s, i + 1, n)
  <2> DEFINE a == Tail(SubSeq(s, i, n))
             b == SubSeq(s, i + 1, n)
  <2>1. a \in Seq(Task_) /\ Len(a) = n - i /\ \A j \in 1 .. n - i : a[j] = SubSeq(s, i, n)[j + 1]
    BY <1>1, <1>2, <1>3, HeadTailProperties
  <2>2. b \in Seq(Task_) /\ Len(b) = n - i /\ \A j \in 1 .. n - i : b[j] = s[i + j]
    BY <1>1, <1>2
  <2>3. \A j \in 1 .. n - i : a[j] = b[j]
    BY <1>1, <1>2, <2>1, <2>2
  <2> HIDE DEF a, b
  <2>4. a = b
    BY <2>1, <2>2, <2>3, SeqEqual
  <2>5. QED
    BY <2>4 DEF a, b
<1>5. SubSeq(s, n + 1, n) = <<>>
  BY <1>1, <1>2, EmptySeq
<1>6. SubSeq(s, 1, n) = s
  <2>1. SubSeq(s, 1, n) \in Seq(Task_) /\ Len(SubSeq(s, 1, n)) = n
        /\ \A j \in 1 .. n : SubSeq(s, 1, n)[j] = s[j]
    BY <1>1, <1>2
  <2>2. QED
    BY <1>1, <2>1, SeqEqual
<1>7. QED
  BY <1>2, <1>3, <1>4, <1>5, <1>6 DEF Rest, s, n

LEMMA Lookup ==
  ASSUME NEW p \in Plans, NEW i \in 1 .. Size(p), NEW x, Plan(p)[i] = x
  PROVE  /\ x = "store_piece" => p = "piece" /\ i = 1
         /\ x = "copy" => p = "deal" /\ i = 1
         /\ x = "clear" => p = "deal" /\ i = 2
         /\ x = "add_read" => p = "deal" /\ i = 3
         /\ x = "store_read" => p = "deal" /\ i = 4
         /\ x = "add_month" => p = "deal" /\ i = 5
         /\ x = "store_month" => p = "deal" /\ i \in {6, 9}
         /\ x = "limit" => p = "deal" /\ i \in {7, 10}
         /\ x = "add_nothing" => p = "deal" /\ i = 8
         /\ x = "event" => p = "deal" /\ i = 11
         /\ x = "save_month" => (p = "deal" /\ i = 12) \/ (p = "load" /\ i = 6)
         /\ x = "save_day" => (p = "deal" /\ i = 13) \/ (p = "load" /\ i = 7)
         /\ x = "save_read" => (p = "deal" /\ i = 14) \/ (p = "load" /\ i = 8)
         /\ x = "save_write" => (p = "deal" /\ i = 15) \/ (p = "load" /\ i = 9)
         /\ x = "check" => p = "deal" /\ i = 16
         /\ x = "reset" => (p = "load" /\ i = 1) \/ (p = "boot" /\ i = 4)
         /\ x = "get_month" => (p = "load" /\ i = 2) \/ (p = "boot" /\ i = 5)
         /\ x = "set_month" => (p = "load" /\ i = 3) \/ (p = "boot" /\ i = 6)
         /\ x = "get_day" => (p = "load" /\ i = 4) \/ (p = "boot" /\ i = 7)
         /\ x = "set_day" => (p = "load" /\ i = 5) \/ (p = "boot" /\ i = 8)
         /\ x = "get_read" => p = "boot" /\ i = 1
         /\ x = "set_read" => p = "boot" /\ i = 2
         /\ x = "get_write" => p = "boot" /\ i = 3
         /\ x \notin {"mark", "truncate", "write"}
<1>1. CASE p = "piece"
  BY <1>1, PlanIs DEF Size
<1>2. CASE p = "deal"
  BY <1>2, PlanIs DEF Size
<1>3. CASE p = "load"
  BY <1>3, PlanIs DEF Size
<1>4. CASE p = "boot"
  BY <1>4, PlanIs DEF Size
<1>5. QED
  BY <1>1, <1>2, <1>3, <1>4, Zenon DEF Plans

(* A task or two in front of others.                                       *)
LEMMA InFront ==
  ASSUME NEW S, NEW r \in Seq(S), NEW a \in S, NEW b \in S
  PROVE  /\ <<a>> \o r # <<>> /\ Head(<<a>> \o r) = a /\ Tail(<<a>> \o r) = r
         /\ <<a, b>> \o r # <<>> /\ Head(<<a, b>> \o r) = a
         /\ Tail(<<a, b>> \o r) = <<b>> \o r
<1> DEFINE x == <<a>>
           y == <<b>>
           z == <<a, b>>
<1>1. /\ x \in Seq(S) /\ Len(x) = 1 /\ x[1] = a /\ y \in Seq(S) /\ Len(y) = 1 /\ y[1] = b
      /\ z \in Seq(S) /\ Len(z) = 2 /\ z[1] = a /\ z[2] = b
  OBVIOUS
<1>0. Len(r) \in Nat
  BY LenProperties
<1> HIDE DEF x, y, z
<1>2. /\ x \o r \in Seq(S) /\ Len(x \o r) = 1 + Len(r)
      /\ \A i \in 1 .. 1 + Len(r) : (x \o r)[i] = IF i <= 1 THEN a ELSE r[i - 1]
  <2>1. /\ x \o r \in Seq(S) /\ Len(x \o r) = Len(x) + Len(r)
        /\ \A i \in 1 .. Len(x) + Len(r) :
             (x \o r)[i] = IF i <= Len(x) THEN x[i] ELSE r[i - Len(x)]
    BY <1>1, ConcatProperties
  <2>2. QED
    BY <1>0, <1>1, <2>1
<1>3. /\ y \o r \in Seq(S) /\ Len(y \o r) = 1 + Len(r)
      /\ \A i \in 1 .. 1 + Len(r) : (y \o r)[i] = IF i <= 1 THEN b ELSE r[i - 1]
  <2>1. /\ y \o r \in Seq(S) /\ Len(y \o r) = Len(y) + Len(r)
        /\ \A i \in 1 .. Len(y) + Len(r) :
             (y \o r)[i] = IF i <= Len(y) THEN y[i] ELSE r[i - Len(y)]
    BY <1>1, ConcatProperties
  <2>2. QED
    BY <1>0, <1>1, <2>1
<1>4. /\ z \o r \in Seq(S) /\ Len(z \o r) = 2 + Len(r)
      /\ \A i \in 1 .. 2 + Len(r) : (z \o r)[i] = IF i <= 2 THEN z[i] ELSE r[i - 2]
  <2>1. /\ z \o r \in Seq(S) /\ Len(z \o r) = Len(z) + Len(r)
        /\ \A i \in 1 .. Len(z) + Len(r) :
             (z \o r)[i] = IF i <= Len(z) THEN z[i] ELSE r[i - Len(z)]
    BY <1>1, ConcatProperties
  <2>2. QED
    BY <1>0, <1>1, <2>1
<1>6. x \o r # <<>> /\ Head(x \o r) = a /\ Tail(x \o r) = r
  <2> DEFINE w == x \o r
  <2>1. w \in Seq(S) /\ Len(w) = 1 + Len(r) /\ \A i \in 1 .. Len(r) : w[i + 1] = r[i]
    BY <1>2, <1>0
  <2>2. w # <<>> /\ w[1] = a
    BY <1>2, <1>0
  <2> HIDE DEF w
  <2>3. Head(w) = a /\ Tail(w) \in Seq(S) /\ Len(Tail(w)) = Len(r)
        /\ \A i \in 1 .. Len(r) : Tail(w)[i] = r[i]
    BY <1>0, <2>1, <2>2, HeadTailProperties
  <2>4. Tail(w) = r
    BY <2>3, SeqEqual
  <2>5. QED
    BY <2>2, <2>3, <2>4 DEF w
<1>7. z \o r # <<>> /\ Head(z \o r) = a /\ Tail(z \o r) = y \o r
  <2> DEFINE w == z \o r
             q == y \o r
  <2>1. w \in Seq(S) /\ Len(w) = 2 + Len(r) /\ q \in Seq(S) /\ Len(q) = 1 + Len(r)
        /\ \A i \in 1 .. 1 + Len(r) : w[i + 1] = q[i]
    BY <1>1, <1>3, <1>4, <1>0
  <2>2. w # <<>> /\ w[1] = a
    BY <1>1, <1>4, <1>0
  <2> HIDE DEF w, q
  <2>3. Head(w) = a /\ Tail(w) \in Seq(S) /\ Len(Tail(w)) = 1 + Len(r)
        /\ \A i \in 1 .. 1 + Len(r) : Tail(w)[i] = q[i]
    BY <1>0, <2>1, <2>2, HeadTailProperties
  <2>4. Tail(w) = q
    BY <2>1, <2>3, SeqEqual
  <2>5. QED
    BY <2>2, <2>3, <2>4 DEF w, q
<1>8. QED
  BY <1>6, <1>7 DEF x, y, z
-----------------------------------------------------------------------------
(* Where the thread in a call is, and what it holds, by name.              *)
Stands(t, p, i, f, m, v, s, o, c) ==
  /\ Numbers /\ Frames /\ t \in Threads /\ p \in Plans /\ i \in 1 .. Size(p) + 1
  /\ m \in BOOLEAN /\ v \in Nat /\ s \in Nat /\ o \in BOOLEAN /\ IsFile(c) /\ IsFile(f)
  /\ locals[t] = Locals(v, s, o, c) /\ f \in {file, c}
  /\ Only(t) /\ Place(t, p, i, f, m) /\ Facts(p, i, f, m, v, s, o)

(* The truth values, as names a prover may pass on.                        *)
No == FALSE
Yes == TRUE

LEMMA Naming ==
  /\ No \in BOOLEAN /\ Yes \in BOOLEAN /\ ~No /\ Yes
  /\ \A b \in BOOLEAN : (~b <=> b = No) /\ (b <=> b = Yes)
<1>1. No \in BOOLEAN /\ Yes \in BOOLEAN /\ ~No /\ Yes
  BY DEF No, Yes
<1>2. ASSUME NEW b \in BOOLEAN PROVE (~b <=> b = No) /\ (b <=> b = Yes)
  BY Zenon DEF No, Yes
<1>3. QED
  BY <1>1, <1>2

LEMMA Standing ==
  ASSUME FlowInv
  PROVE  \E t, p, i, f, m, v, s, o, c : Stands(t, p, i, f, m, v, s, o, c)
<1>1. PICK t \in Threads, p \in Plans, m \in BOOLEAN :
        \E i \in 1 .. Size(p) + 1, f \in {file, locals[t].copy} : Here(t, p, i, f, m)
  BY DEF FlowInv
<1>2. PICK i \in 1 .. Size(p) + 1, f \in {file, locals[t].copy} : Here(t, p, i, f, m)
  BY <1>1
<1>3. PICK v, s, o, c : /\ v = locals[t].value /\ s = locals[t].sum
                        /\ o = locals[t].over /\ c = locals[t].copy
  OBVIOUS
<1>4. Numbers /\ Frames /\ IsLocals(locals[t]) /\ IsFile(file)
  BY DEF FlowInv, Frames, Numbers
<1>5. /\ v \in Nat /\ s \in Nat /\ o \in BOOLEAN /\ IsFile(c)
      /\ locals[t] = Locals(v, s, o, c) /\ f \in {file, c} /\ IsFile(f)
  BY <1>2, <1>3, <1>4 DEF IsLocals
<1>6. Only(t) /\ Place(t, p, i, f, m) /\ Facts(p, i, f, m, v, s, o)
  BY <1>2, <1>3 DEF Here
<1>7. QED
  BY <1>1, <1>2, <1>4, <1>5, <1>6 DEF Stands

(* What a step makes of the thread's call and of its local variables.      *)
Goes(t, r) == todo' = [todo EXCEPT ![t] = r]
Holds(t, v, s, o, c) == locals' = [locals EXCEPT ![t] = Locals(v, s, o, c)]
Leads(r, p, i, f, m, c) ==
  \/ r = Rest(p, i) /\ f = file' /\ ~m
  \/ r = <<"mark">> \o Rest(p, i) /\ f = file' /\ m
  \/ r = <<"truncate", "write">> \o Rest(p, i) /\ f = c /\ ~m
  \/ r = <<"write">> \o Rest(p, i) /\ f = c /\ file' = EmptyFile /\ ~m

(* A step of thread t leads to the next place.                             *)
LEMMA Arriving ==
  ASSUME Frames, NEW t \in Threads, Only(t), Numbers', NEW r, Goes(t, r),
         NEW v \in Nat, NEW s \in Nat, NEW o \in BOOLEAN, NEW c, IsFile(c),
         Holds(t, v, s, o, c),
         NEW p \in Plans, NEW i \in 1 .. Size(p) + 1, NEW m \in BOOLEAN, NEW f,
         Leads(r, p, i, f, m, c), Facts(p, i, f, m, v, s, o)'
  PROVE  FlowInv'
<1> DEFINE l == Locals(v, s, o, c)
<1>1. l.value = v /\ l.sum = s /\ l.over = o /\ l.copy = c
  BY DEF Locals
<1>2. IsLocals(l)
  BY <1>1 DEF IsLocals
<1> HIDE DEF l
<1>3. todo'[t] = r /\ locals'[t] = l
      /\ \A u \in Threads \ {t} : todo'[u] = todo[u] /\ locals'[u] = locals[u]
  BY DEF Frames, l, Goes, Holds
<1>4. Frames'
  <2>1. todo' = [u \in Threads |-> todo'[u]] /\ locals' = [u \in Threads |-> locals'[u]]
    BY DEF Frames, Goes, Holds
  <2>2. \A u \in Threads : IsLocals(locals'[u])
    BY <1>2, <1>3 DEF Frames
  <2>3. QED
    BY <2>1, <2>2 DEF Frames
<1>5. Only(t)'
  BY <1>3 DEF Only
<1>6. Place(t, p, i, f, m)'
  BY <1>1, <1>3 DEF Place, Leads
<1>7. f \in {file', locals'[t].copy}
  BY <1>1, <1>3 DEF Leads
<1>8. Facts(p, i, f, m, locals[t].value, locals[t].sum, locals[t].over)'
  <2>1. locals'[t].value = v /\ locals'[t].sum = s /\ locals'[t].over = o
    BY <1>1, <1>3
  <2>2. QED
    BY <2>1
<1>9. Here(t, p, i, f, m)'
  BY <1>5, <1>6, <1>8 DEF Here
<1>10. QED
  BY <1>4, <1>7, <1>9 DEF FlowInv

(* The steps of a thread are those of the thread in a call.                *)
LEMMA AtIsHere ==
  ASSUME NEW t, NEW p, NEW i, NEW f, NEW m, NEW v, NEW s, NEW o, NEW c,
         Stands(t, p, i, f, m, v, s, o, c), NEW u \in Threads, NEW x, At(u, x)
  PROVE  u = t
BY DEF Stands, Only, At

LEMMA Places ==
  ASSUME NEW t, NEW p, NEW i, NEW f, NEW m, NEW v, NEW s, NEW o, NEW c,
         Stands(t, p, i, f, m, v, s, o, c)
  PROVE  /\ \A x : At(t, x) /\ x \notin {"mark", "truncate", "write"} =>
              /\ i \in 1 .. Size(p) /\ Plan(p)[i] = x /\ f = file /\ ~m
              /\ todo[t] = Rest(p, i) /\ Tail(todo[t]) = Rest(p, i + 1)
              /\ i + 1 \in 1 .. Size(p) + 1
         /\ At(t, "mark") => m /\ f = file /\ Tail(todo[t]) = Rest(p, i)
         /\ At(t, "truncate") =>
              f = c /\ ~m /\ Tail(todo[t]) = <<"write">> \o Rest(p, i)
         /\ At(t, "write") =>
              f = c /\ ~m /\ file = EmptyFile /\ Tail(todo[t]) = Rest(p, i)
         /\ todo[t] = <<>> => i = Size(p) + 1 /\ f = file /\ ~m
<1> DEFINE r == Rest(p, i)
           S == Task_ \union {"mark", "truncate", "write"}
<1>1. p \in Plans /\ i \in 1 .. Size(p) + 1 /\ locals[t].copy = c
  BY DEF Stands, Locals
<1>2. Size(p) \in 1 .. 16 /\ r \in Seq(Task_) /\ Len(r) = Size(p) + 1 - i
  BY <1>1, PlanIsSeq, RestIs
<1>3. i \in 1 .. Size(p) => /\ r # <<>> /\ Head(r) = Plan(p)[i] /\ Tail(r) = Rest(p, i + 1)
                            /\ i + 1 \in 1 .. Size(p) + 1
  <2>1. \A j \in 1 .. Size(p) : /\ Rest(p, j) # <<>> /\ Head(Rest(p, j)) = Plan(p)[j]
                                /\ Tail(Rest(p, j)) = Rest(p, j + 1)
    BY <1>1, RestIs
  <2>2. i \in 1 .. Size(p) => i + 1 \in 1 .. Size(p) + 1
    <3> DEFINE n == Size(p)
    <3>1. n \in 1 .. 16
      BY <1>2
    <3> HIDE DEF n
    <3>2. i \in 1 .. n => i + 1 \in 1 .. n + 1
      BY <3>1
    <3>3. QED
      BY <3>2 DEF n
  <2>3. QED
    BY <2>1, <2>2, Zenon
<1>4. i = Size(p) + 1 => r = <<>>
  BY <1>1, RestIs
<1>5. i \in 1 .. Size(p) => Plan(p)[i] \notin {"mark", "truncate", "write"}
  BY <1>1, Lookup
<1>6. i \in 1 .. Size(p) \/ i = Size(p) + 1
  <2> DEFINE n == Size(p)
  <2>1. n \in 1 .. 16 /\ i \in 1 .. n + 1
    BY <1>1, <1>2
  <2> HIDE DEF n
  <2>2. i \in 1 .. n \/ i = n + 1
    BY <2>1
  <2>3. QED
    BY <2>2 DEF n
<1>7. Place(t, p, i, f, m)
  BY DEF Stands
<1> HIDE DEF r
<1>8. r \in Seq(S)
  BY <1>2
<1>9. /\ <<"mark">> \o r # <<>> /\ Head(<<"mark">> \o r) = "mark" /\ Tail(<<"mark">> \o r) = r
      /\ <<"write">> \o r # <<>> /\ Head(<<"write">> \o r) = "write"
      /\ Tail(<<"write">> \o r) = r
  BY <1>8, InFront
<1>10. /\ <<"truncate", "write">> \o r # <<>>
       /\ Head(<<"truncate", "write">> \o r) = "truncate"
       /\ Tail(<<"truncate", "write">> \o r) = <<"write">> \o r
  BY <1>8, InFront
<1>11. CASE todo[t] = r /\ f = file /\ ~m
  BY <1>3, <1>4, <1>5, <1>6, <1>11 DEF At, r
<1>12. CASE todo[t] = <<"mark">> \o r /\ f = file /\ m
  BY <1>9, <1>12 DEF At, r
<1>13. CASE todo[t] = <<"truncate", "write">> \o r /\ f = locals[t].copy /\ ~m
  BY <1>1, <1>10, <1>13 DEF At, r
<1>14. CASE todo[t] = <<"write">> \o r /\ f = locals[t].copy /\ file = EmptyFile /\ ~m
  BY <1>1, <1>9, <1>14 DEF At, r
<1>15. QED
  BY <1>7, <1>11, <1>12, <1>13, <1>14 DEF Place, r
-----------------------------------------------------------------------------
(* What the steps do to the facts: first the steps that change nothing but *)
(* the thread's own variables.                                             *)
LEMMA Values ==
  ASSUME FlowAssumption, Numbers, NEW f, IsFile(f)
  PROVE  /\ \A m : DealtIn(m) \in Int /\ SavedIn(f, m) \in Nat
         /\ Saved(f, ReadKey) \in Nat /\ MonthSum(f) \in Int /\ MonthSum(file) \in Int
         /\ Saved(file, ReadKey) \in Nat
         /\ \A d \in Date : d \in Int /\ dealt[d] \in Nat /\ raised[d] \in Nat
         /\ \A k \in DOMAIN f : f[k] \in Nat
<1>1. dealt \in [Date -> Nat] /\ raised \in [Date -> Nat] /\ IsFile(file)
  BY DEF Numbers
<1>2. \A m : DealtIn(m) \in Int
  BY <1>1, DealtInIs
<1>3. \A k : Saved(f, k) \in Nat /\ Saved(file, k) \in Nat
  BY <1>1, SavedType
<1>4. MonthSum(f) \in Int /\ MonthSum(file) \in Int
  BY <1>1, MonthSumIs
<1>5. \A k \in DOMAIN f : f[k] \in Nat
  BY DEF IsFile
<1>6. \A d \in Date : d \in Int
  BY DEF Date, FlowAssumption
<1>7. QED
  BY <1>1, <1>2, <1>3, <1>4, <1>5, <1>6 DEF SavedIn

LEMMA Resting ==
  ASSUME FlowAssumption, Numbers, NEW p \in Plans, NEW m, NEW v \in Nat, NEW s \in Nat, NEW o \in BOOLEAN,
         Facts(p, Size(p) + 1, file, m, v, s, o)
  PROVE  /\ ~o
         /\ \A w \in Nat, r \in Nat : Facts("piece", 2, file, No, w, r, No)
<1> USE DEF Facts, Registers, Calendar, Traffic, MonthKept, Cover, Limit, DayKept,
            Deal_, Load_, Boot_, Started, No, Yes
<1>1. CASE p = "piece"
  BY <1>1 DEF Size
<1>2. CASE p = "deal"
  BY <1>2 DEF Size
<1>3. CASE p = "load"
  BY <1>3 DEF Size
<1>4. CASE p = "boot"
  BY <1>4 DEF Size
<1>5. QED
  BY <1>1, <1>2, <1>3, <1>4, Zenon DEF Plans

LEMMA Calling ==
  ASSUME FlowAssumption, Numbers, NEW v \in Nat, NEW s \in Nat,
         Facts("piece", 2, file, No, v, s, No)
  PROVE  /\ Facts("deal", 1, file, No, v, s, No)
         /\ s = to_read_ + 1 => Facts("piece", 1, file, No, v, s, No)
<1> USE DEF Facts, Registers, Calendar, Traffic, MonthKept, Cover, Limit, DayKept,
            Deal_, Load_, Boot_, Started, No, Yes
<1>1. Facts("deal", 1, file, No, v, s, No)
  OBVIOUS
<1>2. s = to_read_ + 1 => Facts("piece", 1, file, No, v, s, No)
  OBVIOUS
<1>3. QED
  BY <1>1, <1>2

LEMMA Adding ==
  ASSUME FlowAssumption, Numbers, NEW f, IsFile(f), NEW v \in Nat, NEW s \in Nat, NEW o \in BOOLEAN
  PROVE  /\ Facts("deal", 1, f, No, v, s, o) => Facts("deal", 2, f, No, to_read_, s, o)
         /\ Facts("deal", 3, f, No, v, s, o) =>
              Facts("deal", 4, f, No, v, comm_read_flow_ + v, o)
         /\ Facts("deal", 5, f, No, v, s, o) =>
              Facts("deal", 6, f, No, v, comm_curr_month_flow_ + v, o)
         /\ Facts("deal", 8, f, No, v, s, o) =>
              Facts("deal", 9, f, No, v, comm_curr_month_flow_, o)
<1> USE DEF Facts, Registers, Calendar, Traffic, MonthKept, Cover, Limit, DayKept,
            Deal_, Load_, Boot_, Started, No, Yes
<1>0. DealtIn(Now) \in Int /\ SavedIn(f, Now) \in Int /\ Saved(f, ReadKey) \in Int /\ MonthSum(f) \in Int
  BY Values
<1>1. Facts("deal", 1, f, No, v, s, o) => Facts("deal", 2, f, No, to_read_, s, o)
  OBVIOUS
<1>2. Facts("deal", 3, f, No, v, s, o) => Facts("deal", 4, f, No, v, comm_read_flow_ + v, o)
  OBVIOUS
<1>3. Facts("deal", 5, f, No, v, s, o) =>
        Facts("deal", 6, f, No, v, comm_curr_month_flow_ + v, o)
  BY <1>0 DEF Numbers
<1>4. Facts("deal", 8, f, No, v, s, o) =>
        Facts("deal", 9, f, No, v, comm_curr_month_flow_, o)
  BY DEF Numbers
<1>5. QED
  BY <1>1, <1>2, <1>3, <1>4

LEMMA Testing ==
  ASSUME FlowAssumption, Numbers, NEW f, IsFile(f), NEW v \in Nat, NEW s \in Nat, NEW o \in BOOLEAN,
         NEW i \in {7, 10}, Facts("deal", i, f, No, v, s, o)
  PROVE  /\ ~OverLimit => Facts("deal", i + 1, f, No, v, s, o)
         /\ OverLimit => Facts("deal", i + 1, f, Yes, v, s, o)
<1> USE DEF Facts, Registers, Calendar, Traffic, MonthKept, Cover, Limit, DayKept,
            Deal_, Load_, Boot_, Started, No, Yes, OverLimit, Over
<1>1. ~OverLimit => Facts("deal", i + 1, f, No, v, s, o)
  BY DEF Numbers
<1>2. OverLimit => Facts("deal", i + 1, f, Yes, v, s, o)
  BY DEF Numbers
<1>3. QED
  BY <1>1, <1>2

LEMMA Leaving ==
  ASSUME FlowAssumption, Numbers, NEW f, IsFile(f), NEW v \in Nat, NEW s \in Nat, NEW o \in BOOLEAN
  PROVE  /\ Facts("deal", 11, f, No, v, s, No) => Facts("deal", 12, f, No, v, s, No)
         /\ Facts("deal", 16, f, No, v, s, o) =>
              IF date # current_day_ THEN Facts("load", 1, f, No, 0, 0, No)
                                     ELSE Facts("deal", 17, f, No, 0, 0, No)
<1> USE DEF Facts, Registers, Calendar, Traffic, MonthKept, Cover, Limit, DayKept,
            Deal_, Load_, Boot_, Started, No, Yes
<1>1. Facts("deal", 11, f, No, v, s, No) => Facts("deal", 12, f, No, v, s, No)
  OBVIOUS
<1>2. Facts("deal", 16, f, No, v, s, o) =>
              IF date # current_day_ THEN Facts("load", 1, f, No, 0, 0, No)
                                     ELSE Facts("deal", 17, f, No, 0, 0, No)
  BY Values DEF Numbers
<1>3. QED
  BY <1>1, <1>2

LEMMA FileKeys ==
  ASSUME FlowAssumption, Numbers
  PROVE  /\ current_day_ \in Date => MonthKey(current_day_) \in Keys /\ DayKey(current_day_) \in Keys
         /\ DayKey(date - 1) \in Keys /\ ReadKey \in Keys /\ WriteKey \in Keys
         /\ MonthKey(current_day_) = <<"month", Now>>
         /\ DayKey(current_day_)[1] # "month" /\ DayKey(date - 1)[1] # "month"
         /\ ReadKey[1] # "month" /\ WriteKey[1] # "month"
<1>1. LastDate \in Nat /\ date \in 0 .. LastDate /\ Date = 0 .. LastDate
  BY DEF FlowAssumption, Numbers, Date
<1>2. current_day_ \in Date => MonthKey(current_day_) \in Keys
  BY MonthType DEF MonthKey
<1>3. current_day_ \in Date => DayKey(current_day_) \in Keys
  BY <1>1 DEF DayKey, Keys
<1>4. DayKey(date - 1) \in Keys
  BY <1>1 DEF DayKey, Keys
<1>5. ReadKey \in Keys /\ WriteKey \in Keys
  BY <1>1 DEF ReadKey, WriteKey, Keys
<1>6. MonthKey(current_day_) = <<"month", Now>>
  BY DEF MonthKey, Now
<1>7. DayKey(current_day_)[1] # "month" /\ DayKey(date - 1)[1] # "month"
      /\ ReadKey[1] # "month" /\ WriteKey[1] # "month"
  BY DEF DayKey, ReadKey, WriteKey
<1>8. QED
  BY <1>2, <1>3, <1>4, <1>5, <1>6, <1>7

(* What a file holds after a save.                                         *)
LEMMA PutFile ==
  ASSUME FlowAssumption, NEW f, IsFile(f), NEW k \in Keys, NEW x \in Nat
  PROVE  /\ IsFile(Put(f, k, x))
         /\ \A n : /\ DayKey(n) \in DOMAIN Put(f, k, x) <=> DayKey(n) = k \/ DayKey(n) \in DOMAIN f
                   /\ DayKey(n) = k => Put(f, k, x)[DayKey(n)] = x
                   /\ DayKey(n) # k /\ DayKey(n) \in DOMAIN f => Put(f, k, x)[DayKey(n)] = f[DayKey(n)]
         /\ \A m : SavedIn(Put(f, k, x), m) = IF <<"month", m>> = k THEN x ELSE SavedIn(f, m)
         /\ Saved(Put(f, k, x), ReadKey) = IF ReadKey = k THEN x ELSE Saved(f, ReadKey)
         /\ k[1] # "month" => MonthSum(Put(f, k, x)) = MonthSum(f)
         /\ \A m : <<"month", m>> = k => MonthSum(Put(f, k, x)) = MonthSum(f) - SavedIn(f, m) + x
<1>1. IsFile(Put(f, k, x))
  BY PutIsFile
<1>2. k[1] # "month" => MonthSum(Put(f, k, x)) = MonthSum(f)
  BY PutOther
<1>3. \A m : <<"month", m>> = k => MonthSum(Put(f, k, x)) = MonthSum(f) - SavedIn(f, m) + x
  BY PutMonth DEF SavedIn
<1>4. \A m : SavedIn(Put(f, k, x), m) = IF <<"month", m>> = k THEN x ELSE SavedIn(f, m)
  BY DEF SavedIn, Saved, Put
<1>5. Saved(Put(f, k, x), ReadKey) = IF ReadKey = k THEN x ELSE Saved(f, ReadKey)
  BY DEF Saved, Put
<1>6. \A n : /\ DayKey(n) \in DOMAIN Put(f, k, x) <=> DayKey(n) = k \/ DayKey(n) \in DOMAIN f
             /\ DayKey(n) = k => Put(f, k, x)[DayKey(n)] = x
             /\ DayKey(n) # k /\ DayKey(n) \in DOMAIN f => Put(f, k, x)[DayKey(n)] = f[DayKey(n)]
  BY DEF Saved, Put
<1>7. QED
  BY <1>1, <1>2, <1>3, <1>4, <1>5, <1>6

LEMMA SavingMonth ==
  ASSUME FlowAssumption, Numbers, NEW f, IsFile(f), NEW v \in Nat, NEW s \in Nat, NEW o \in BOOLEAN,
         NEW p, NEW i, (p = "deal" /\ i = 12) \/ (p = "load" /\ i = 6),
         Facts(p, i, f, No, v, s, o), f = file
  PROVE  Facts(p, i + 1, Put(f, MonthKey(current_day_), comm_curr_month_flow_), No, v, s, o)
<1> DEFINE k == MonthKey(current_day_)
           x == comm_curr_month_flow_
           g == Put(f, k, x)
<1>1. current_day_ \in Date /\ x \in Nat
  BY DEF Numbers, Facts, Calendar, Started, Deal_, Load_
<1>2. k \in Keys /\ k = <<"month", Now>>
  BY <1>1, FileKeys
<1>3. (\A m : <<"month", m>> = k <=> m = Now) /\ ReadKey # k /\ \A n : DayKey(n) # k
  BY <1>2, KeysDiffer
<1>4. /\ IsFile(g)
      /\ \A n : /\ DayKey(n) \in DOMAIN g <=> DayKey(n) \in DOMAIN f
                /\ DayKey(n) \in DOMAIN f => g[DayKey(n)] = f[DayKey(n)]
      /\ \A m : SavedIn(g, m) = IF m = Now THEN x ELSE SavedIn(f, m)
      /\ Saved(g, ReadKey) = Saved(f, ReadKey)
      /\ MonthSum(g) = MonthSum(f) - SavedIn(f, Now) + x
  <2> HIDE DEF k, x
  <2>0. k \in Keys /\ x \in Nat
    BY <1>1, <1>2
  <2>1. /\ IsFile(g)
        /\ \A n : /\ DayKey(n) \in DOMAIN g <=> DayKey(n) = k \/ DayKey(n) \in DOMAIN f
                  /\ DayKey(n) # k /\ DayKey(n) \in DOMAIN f => g[DayKey(n)] = f[DayKey(n)]
        /\ \A m : SavedIn(g, m) = IF <<"month", m>> = k THEN x ELSE SavedIn(f, m)
        /\ Saved(g, ReadKey) = IF ReadKey = k THEN x ELSE Saved(f, ReadKey)
        /\ \A m : <<"month", m>> = k => MonthSum(g) = MonthSum(f) - SavedIn(f, m) + x
    BY <2>0, PutFile
  <2> HIDE DEF g
  <2>2. QED
    BY <1>2, <1>3, <2>1
<1>5. /\ \A m : SavedIn(f, m) \in Nat /\ DealtIn(m) \in Int
      /\ Saved(f, ReadKey) \in Nat /\ MonthSum(f) \in Int
  BY Values
<1> USE DEF Facts, Registers, Calendar, Traffic, MonthKept, Cover, Limit, DayKept,
            Deal_, Load_, Boot_, Started, No, Yes
<1>6. Registers(p, i + 1, v, s) /\ Calendar(p, i + 1) /\ Limit(p, i + 1, No, o)
  OBVIOUS
<1> HIDE DEF g
<1>7. Traffic(p, i + 1, g, v, s)
  BY <1>4
<1>8. MonthKept(p, i + 1, g, v, s)
  <2>1. CASE p = "deal" /\ i = 12
    BY <1>4, <1>5, <2>1
  <2>2. CASE p = "load" /\ i = 6
    BY <1>4, <1>5, <2>2
  <2>3. QED
    BY <2>1, <2>2
<1>9. Cover(p, i + 1, g, v, s)
  <2>1. CASE p = "deal" /\ i = 12
    BY <1>1, <1>4, <1>5, <2>1 DEF Numbers, Covers
  <2>2. CASE p = "load" /\ i = 6
    BY <1>1, <1>4, <1>5, <2>2 DEF Numbers, Covers
  <2>3. QED
    BY <2>1, <2>2
<1>10. DayKept(p, i + 1, g, v)
  <2>1. CASE p = "deal" /\ i = 12
    BY <1>4, <2>1 DEF Days
  <2>2. CASE p = "load" /\ i = 6
    BY <1>4, <2>2 DEF Days
  <2>3. QED
    BY <2>1, <2>2
<1>11. QED
  BY <1>6, <1>7, <1>8, <1>9, <1>10 DEF g

LEMMA SavingDay ==
  ASSUME FlowAssumption, Numbers, NEW f, IsFile(f), NEW v \in Nat, NEW s \in Nat, NEW o \in BOOLEAN,
         NEW p, NEW i, (p = "deal" /\ i = 13) \/ (p = "load" /\ i = 7),
         Facts(p, i, f, No, v, s, o), f = file
  PROVE  Facts(p, i + 1, Put(f, DayKey(current_day_), comm_read_flow_), No, v, s, o)
<1> DEFINE k == DayKey(current_day_)
           x == comm_read_flow_
           g == Put(f, k, x)
<1>1. current_day_ \in Date /\ x \in Nat
  BY DEF Numbers, Facts, Calendar, Started, Deal_, Load_
<1>2. k \in Keys /\ k[1] # "month"
  BY <1>1, FileKeys
<1>3. (\A m : <<"month", m>> # k) /\ ReadKey # k /\ \A n : DayKey(n) = k <=> n = current_day_
  BY KeysDiffer
<1>4. /\ IsFile(g)
      /\ \A n : /\ DayKey(n) \in DOMAIN g <=> n = current_day_ \/ DayKey(n) \in DOMAIN f
                /\ n = current_day_ => g[DayKey(n)] = x
                /\ n # current_day_ /\ DayKey(n) \in DOMAIN f => g[DayKey(n)] = f[DayKey(n)]
      /\ \A m : SavedIn(g, m) = SavedIn(f, m)
      /\ Saved(g, ReadKey) = Saved(f, ReadKey)
      /\ MonthSum(g) = MonthSum(f)
  BY <1>1, <1>2, <1>3, PutFile
<1>5. /\ \A m : SavedIn(f, m) \in Nat /\ DealtIn(m) \in Int
      /\ Saved(f, ReadKey) \in Nat /\ MonthSum(f) \in Int
  BY Values
<1> USE DEF Facts, Registers, Calendar, Traffic, MonthKept, Cover, Limit, DayKept,
            Deal_, Load_, Boot_, Started, No, Yes
<1>6. Registers(p, i + 1, v, s) /\ Calendar(p, i + 1) /\ Limit(p, i + 1, No, o)
  OBVIOUS
<1> HIDE DEF g
<1>7. Traffic(p, i + 1, g, v, s)
  BY <1>4
<1>8. MonthKept(p, i + 1, g, v, s)
  <2>1. CASE p = "deal" /\ i = 13
    BY <1>4, <1>5, <2>1
  <2>2. CASE p = "load" /\ i = 7
    BY <1>4, <1>5, <2>2
  <2>3. QED
    BY <2>1, <2>2
<1>9. Cover(p, i + 1, g, v, s)
  <2>1. CASE p = "deal" /\ i = 13
    BY <1>1, <1>4, <1>5, <2>1 DEF Numbers, Covers
  <2>2. CASE p = "load" /\ i = 7
    BY <1>1, <1>4, <1>5, <2>2 DEF Numbers, Covers
  <2>3. QED
    BY <2>1, <2>2
<1>10. DayKept(p, i + 1, g, v)
  <2>1. CASE p = "deal" /\ i = 13
    BY <1>1, <1>4, <2>1 DEF Days, Numbers, Date, FlowAssumption
  <2>2. CASE p = "load" /\ i = 7
    BY <1>1, <1>4, <2>2 DEF Days, Numbers, Date, FlowAssumption
  <2>3. QED
    BY <2>1, <2>2
<1>11. QED
  BY <1>6, <1>7, <1>8, <1>9, <1>10 DEF g

LEMMA SavingRead ==
  ASSUME FlowAssumption, Numbers, NEW f, IsFile(f), NEW v \in Nat, NEW s \in Nat, NEW o \in BOOLEAN,
         NEW p, NEW i, (p = "deal" /\ i = 14) \/ (p = "load" /\ i = 8),
         Facts(p, i, f, No, v, s, o), f = file
  PROVE  Facts(p, i + 1, Put(f, ReadKey, comm_read_flow_), No, v, s, o)
<1> DEFINE k == ReadKey
           x == comm_read_flow_
           g == Put(f, k, x)
<1>1. current_day_ \in Date /\ x \in Nat
  BY DEF Numbers, Facts, Calendar, Started, Deal_, Load_
<1>2. k \in Keys /\ k[1] # "month"
  BY <1>1, FileKeys
<1>3. (\A m : <<"month", m>> # k) /\ ReadKey = k /\ \A n : DayKey(n) # k
  BY KeysDiffer
<1>4. /\ IsFile(g)
      /\ \A n : /\ DayKey(n) \in DOMAIN g <=> DayKey(n) \in DOMAIN f
                /\ DayKey(n) \in DOMAIN f => g[DayKey(n)] = f[DayKey(n)]
      /\ \A m : SavedIn(g, m) = SavedIn(f, m)
      /\ Saved(g, ReadKey) = x
      /\ MonthSum(g) = MonthSum(f)
  BY <1>1, <1>2, <1>3, PutFile
<1>5. /\ \A m : SavedIn(f, m) \in Nat /\ DealtIn(m) \in Int
      /\ Saved(f, ReadKey) \in Nat /\ MonthSum(f) \in Int
  BY Values
<1> USE DEF Facts, Registers, Calendar, Traffic, MonthKept, Cover, Limit, DayKept,
            Deal_, Load_, Boot_, Started, No, Yes
<1>6. Registers(p, i + 1, v, s) /\ Calendar(p, i + 1) /\ Limit(p, i + 1, No, o)
  OBVIOUS
<1> HIDE DEF g
<1>7. Traffic(p, i + 1, g, v, s)
  BY <1>4
<1>8. MonthKept(p, i + 1, g, v, s)
  <2>1. CASE p = "deal" /\ i = 14
    BY <1>4, <1>5, <2>1
  <2>2. CASE p = "load" /\ i = 8
    BY <1>4, <1>5, <2>2
  <2>3. QED
    BY <2>1, <2>2
<1>9. Cover(p, i + 1, g, v, s)
  <2>1. CASE p = "deal" /\ i = 14
    BY <1>1, <1>4, <1>5, <2>1 DEF Numbers, Covers
  <2>2. CASE p = "load" /\ i = 8
    BY <1>1, <1>4, <1>5, <2>2 DEF Numbers, Covers
  <2>3. QED
    BY <2>1, <2>2
<1>10. DayKept(p, i + 1, g, v)
  <2>1. CASE p = "deal" /\ i = 14
    BY <1>1, <1>4, <2>1 DEF Days, Numbers, Date, FlowAssumption
  <2>2. CASE p = "load" /\ i = 8
    BY <1>1, <1>4, <2>2 DEF Days, Numbers, Date, FlowAssumption
  <2>3. QED
    BY <2>1, <2>2
<1>11. QED
  BY <1>6, <1>7, <1>8, <1>9, <1>10 DEF g

LEMMA SavingWrite ==
  ASSUME FlowAssumption, Numbers, NEW f, IsFile(f), NEW v \in Nat, NEW s \in Nat, NEW o \in BOOLEAN,
         NEW p, NEW i, (p = "deal" /\ i = 15) \/ (p = "load" /\ i = 9),
         Facts(p, i, f, No, v, s, o), f = file
  PROVE  Facts(p, i + 1, Put(f, WriteKey, 0), No, v, s, o)
<1> DEFINE k == WriteKey
           x == 0
           g == Put(f, k, x)
<1>1. current_day_ \in Date /\ x \in Nat
  BY DEF Numbers, Facts, Calendar, Started, Deal_, Load_
<1>2. k \in Keys /\ k[1] # "month"
  BY <1>1, FileKeys
<1>3. (\A m : <<"month", m>> # k) /\ ReadKey # k /\ \A n : DayKey(n) # k
  BY KeysDiffer
<1>4. /\ IsFile(g)
      /\ \A n : /\ DayKey(n) \in DOMAIN g <=> DayKey(n) \in DOMAIN f
                /\ DayKey(n) \in DOMAIN f => g[DayKey(n)] = f[DayKey(n)]
      /\ \A m : SavedIn(g, m) = SavedIn(f, m)
      /\ Saved(g, ReadKey) = Saved(f, ReadKey)
      /\ MonthSum(g) = MonthSum(f)
  BY <1>1, <1>2, <1>3, PutFile
<1>5. /\ \A m : SavedIn(f, m) \in Nat /\ DealtIn(m) \in Int
      /\ Saved(f, ReadKey) \in Nat /\ MonthSum(f) \in Int
  BY Values
<1> USE DEF Facts, Registers, Calendar, Traffic, MonthKept, Cover, Limit, DayKept,
            Deal_, Load_, Boot_, Started, No, Yes
<1>6. Registers(p, i + 1, v, s) /\ Calendar(p, i + 1) /\ Limit(p, i + 1, No, o)
  OBVIOUS
<1> HIDE DEF g
<1>7. Traffic(p, i + 1, g, v, s)
  BY <1>4
<1>8. MonthKept(p, i + 1, g, v, s)
  <2>1. CASE p = "deal" /\ i = 15
    BY <1>4, <1>5, <2>1
  <2>2. CASE p = "load" /\ i = 9
    BY <1>4, <1>5, <2>2
  <2>3. QED
    BY <2>1, <2>2
<1>9. Cover(p, i + 1, g, v, s)
  <2>1. CASE p = "deal" /\ i = 15
    BY <1>1, <1>4, <1>5, <2>1 DEF Numbers, Covers
  <2>2. CASE p = "load" /\ i = 9
    BY <1>1, <1>4, <1>5, <2>2 DEF Numbers, Covers
  <2>3. QED
    BY <2>1, <2>2
<1>10. DayKept(p, i + 1, g, v)
  <2>1. CASE p = "deal" /\ i = 15
    BY <1>1, <1>4, <2>1 DEF Days, Numbers, Date, FlowAssumption
  <2>2. CASE p = "load" /\ i = 9
    BY <1>1, <1>4, <2>2 DEF Days, Numbers, Date, FlowAssumption
  <2>3. QED
    BY <2>1, <2>2
<1>11. QED
  BY <1>6, <1>7, <1>8, <1>9, <1>10 DEF g

LEMMA GettingRead ==
  ASSUME FlowAssumption, Numbers, NEW f, IsFile(f), NEW v \in Nat, NEW s \in Nat, NEW o \in BOOLEAN,
         Facts("boot", 1, f, No, v, s, o), f = file
  PROVE  LET k == ReadKey
             x == 0
         IN  IF k \in DOMAIN f THEN Facts("boot", 2, f, No, f[k], s, o)
                                ELSE Facts("boot", 2, Put(f, k, x), No, x, s, o)
<1> DEFINE k == ReadKey
           x == 0
           g == Put(f, k, x)
<1> HIDE DEF x
<1>1. x \in Nat
  BY DEF Numbers, x
<1>2. k \in Keys /\ k[1] # "month"
  BY FileKeys
<1>3. (\A m : <<"month", m>> # k) /\ ReadKey = k /\ \A n : DayKey(n) # k
  BY KeysDiffer
<1>4. /\ \A m : SavedIn(f, m) \in Nat /\ DealtIn(m) \in Int
      /\ Saved(f, ReadKey) \in Nat /\ MonthSum(f) \in Int
  BY Values
<1>5. /\ IsFile(g)
      /\ \A n : /\ DayKey(n) \in DOMAIN g <=> DayKey(n) \in DOMAIN f
                /\ DayKey(n) \in DOMAIN f => g[DayKey(n)] = f[DayKey(n)]
      /\ \A m : SavedIn(g, m) = SavedIn(f, m)
      /\ Saved(g, ReadKey) = x
      /\ MonthSum(g) = MonthSum(f)
  BY <1>1, <1>2, <1>3, PutFile
<1> USE DEF Facts, Registers, Calendar, Traffic, MonthKept, Cover, Limit, DayKept,
            Deal_, Load_, Boot_, Started, No, Yes
<1>6. ASSUME k \in DOMAIN f PROVE Facts("boot", 2, f, No, f[k], s, o)
  <2>1. f[k] \in Nat /\ Saved(f, k) = f[k]
    BY <1>2, <1>6 DEF IsFile, Saved, SavedIn
  <2>2. Registers("boot", 2, f[k], s) /\ Calendar("boot", 2) /\ Limit("boot", 2, No, o)
    OBVIOUS
  <2>3. Traffic("boot", 2, f, f[k], s)
    BY <2>1
  <2>4. MonthKept("boot", 2, f, f[k], s)
    BY <1>4, <2>1
  <2>5. Cover("boot", 2, f, f[k], s)
    BY <1>4, <2>1 DEF Numbers, Covers
  <2>6. DayKept("boot", 2, f, f[k])
    BY <1>3, <1>6, <2>1 DEF Days, Numbers, Date, FlowAssumption
  <2>7. QED
    BY <2>2, <2>3, <2>4, <2>5, <2>6
<1>7. ASSUME k \notin DOMAIN f PROVE Facts("boot", 2, g, No, x, s, o)
  <2>2. Saved(f, k) = 0
    BY <1>2, <1>7 DEF Saved, SavedIn
  <2>3. Registers("boot", 2, x, s) /\ Calendar("boot", 2) /\ Limit("boot", 2, No, o)
    OBVIOUS
  <2> HIDE DEF g, x
  <2>4. Traffic("boot", 2, g, x, s)
    BY <1>5, <2>2 DEF x
  <2>5. MonthKept("boot", 2, g, x, s)
    BY <1>4, <1>5, <2>2
  <2>6. Cover("boot", 2, g, x, s)
    BY <1>1, <1>4, <1>5, <2>2 DEF Numbers, Covers, x
  <2>7. DayKept("boot", 2, g, x)
    <3> SUFFICES ASSUME ~torn, used["sets"] = 0
                 PROVE  \E c \in Date \union {-1} : Boot(c, g)
      BY DEF Boot
    <3>1. PICK c \in Date \union {-1} : Boot(c, f)
      BY DEF Boot
    <3>2. Boot(c, g)
      BY <1>3, <1>5, <3>1 DEF Boot, Days
    <3>3. QED
      BY <3>2
  <2>8. QED
    BY <2>3, <2>4, <2>5, <2>6, <2>7
<1>8. QED
  BY <1>6, <1>7 DEF g, x

LEMMA GettingWrite ==
  ASSUME FlowAssumption, Numbers, NEW f, IsFile(f), NEW v \in Nat, NEW s \in Nat, NEW o \in BOOLEAN,
         Facts("boot", 3, f, No, v, s, o), f = file
  PROVE  LET k == WriteKey
             x == 0
         IN  IF k \in DOMAIN f THEN Facts("boot", 4, f, No, f[k], s, o)
                                ELSE Facts("boot", 4, Put(f, k, x), No, x, s, o)
<1> DEFINE k == WriteKey
           x == 0
           g == Put(f, k, x)
<1> HIDE DEF x
<1>1. x \in Nat
  BY DEF Numbers, x
<1>2. k \in Keys /\ k[1] # "month"
  BY FileKeys
<1>3. (\A m : <<"month", m>> # k) /\ ReadKey # k /\ \A n : DayKey(n) # k
  BY KeysDiffer
<1>4. /\ \A m : SavedIn(f, m) \in Nat /\ DealtIn(m) \in Int
      /\ Saved(f, ReadKey) \in Nat /\ MonthSum(f) \in Int
  BY Values
<1>5. /\ IsFile(g)
      /\ \A n : /\ DayKey(n) \in DOMAIN g <=> DayKey(n) \in DOMAIN f
                /\ DayKey(n) \in DOMAIN f => g[DayKey(n)] = f[DayKey(n)]
      /\ \A m : SavedIn(g, m) = SavedIn(f, m)
      /\ Saved(g, ReadKey) = Saved(f, ReadKey)
      /\ MonthSum(g) = MonthSum(f)
  BY <1>1, <1>2, <1>3, PutFile
<1> USE DEF Facts, Registers, Calendar, Traffic, MonthKept, Cover, Limit, DayKept,
            Deal_, Load_, Boot_, Started, No, Yes
<1>6. ASSUME k \in DOMAIN f PROVE Facts("boot", 4, f, No, f[k], s, o)
  <2>1. f[k] \in Nat /\ Saved(f, k) = f[k]
    BY <1>2, <1>6 DEF IsFile, Saved, SavedIn
  <2>2. Registers("boot", 4, f[k], s) /\ Calendar("boot", 4) /\ Limit("boot", 4, No, o)
    OBVIOUS
  <2>3. Traffic("boot", 4, f, f[k], s)
    BY <2>1
  <2>4. MonthKept("boot", 4, f, f[k], s)
    BY <1>4, <2>1
  <2>5. Cover("boot", 4, f, f[k], s)
    BY <1>4, <2>1 DEF Numbers, Covers
  <2>6. DayKept("boot", 4, f, f[k])
    BY <1>3, <1>6, <2>1 DEF Days, Numbers, Date, FlowAssumption
  <2>7. QED
    BY <2>2, <2>3, <2>4, <2>5, <2>6
<1>7. ASSUME k \notin DOMAIN f PROVE Facts("boot", 4, g, No, x, s, o)
  <2>2. Saved(f, k) = 0
    BY <1>2, <1>7 DEF Saved, SavedIn
  <2>3. Registers("boot", 4, x, s) /\ Calendar("boot", 4) /\ Limit("boot", 4, No, o)
    OBVIOUS
  <2> HIDE DEF g, x
  <2>4. Traffic("boot", 4, g, x, s)
    BY <1>5, <2>2
  <2>5. MonthKept("boot", 4, g, x, s)
    BY <1>4, <1>5, <2>2
  <2>6. Cover("boot", 4, g, x, s)
    BY <1>1, <1>4, <1>5, <2>2 DEF Numbers, Covers, x
  <2>7. DayKept("boot", 4, g, x)
    <3> SUFFICES ASSUME ~torn, used["sets"] = 0
                 PROVE  \E c \in Date \union {-1} : Boot(c, g)
      BY DEF Boot
    <3>1. PICK c \in Date \union {-1} : Boot(c, f)
      BY DEF Boot
    <3>2. Boot(c, g)
      BY <1>3, <1>5, <3>1 DEF Boot, Days
    <3>3. QED
      BY <3>2
  <2>8. QED
    BY <2>3, <2>4, <2>5, <2>6, <2>7
<1>8. QED
  BY <1>6, <1>7 DEF g, x

LEMMA GettingMonth ==
  ASSUME FlowAssumption, Numbers, NEW f, IsFile(f), NEW v \in Nat, NEW s \in Nat, NEW o \in BOOLEAN,
         NEW p, NEW i, (p = "load" /\ i = 2) \/ (p = "boot" /\ i = 5),
         Facts(p, i, f, No, v, s, o), f = file
  PROVE  LET k == MonthKey(current_day_)
             x == 0
         IN  IF k \in DOMAIN f THEN Facts(p, i + 1, f, No, f[k], s, o)
                                ELSE Facts(p, i + 1, Put(f, k, x), No, x, s, o)
<1> DEFINE k == MonthKey(current_day_)
           x == 0
           g == Put(f, k, x)
<1> HIDE DEF x
<1>1. current_day_ \in Date /\ used["inits"] \in Nat /\ x \in Nat
  BY DEF Facts, Calendar, Started, Load_, Boot_, Numbers, x
<1>2. k \in Keys /\ k = <<"month", Now>>
  BY <1>1, FileKeys
<1>3. (\A m : <<"month", m>> = k <=> m = Now) /\ ReadKey # k /\ \A n : DayKey(n) # k
  BY <1>2, KeysDiffer
<1>4. /\ \A m : SavedIn(f, m) \in Nat /\ DealtIn(m) \in Int
      /\ Saved(f, ReadKey) \in Nat /\ MonthSum(f) \in Int
  BY Values
<1>5. /\ IsFile(g)
      /\ \A n : /\ DayKey(n) \in DOMAIN g <=> DayKey(n) \in DOMAIN f
                /\ DayKey(n) \in DOMAIN f => g[DayKey(n)] = f[DayKey(n)]
      /\ \A m : SavedIn(g, m) = IF m = Now THEN x ELSE SavedIn(f, m)
      /\ Saved(g, ReadKey) = Saved(f, ReadKey)
      /\ MonthSum(g) = MonthSum(f) - SavedIn(f, Now) + x
  <2> HIDE DEF k, x
  <2>0. k \in Keys /\ x \in Nat
    BY <1>1, <1>2
  <2>1. /\ IsFile(g)
        /\ \A n : /\ DayKey(n) \in DOMAIN g <=> DayKey(n) = k \/ DayKey(n) \in DOMAIN f
                  /\ DayKey(n) # k /\ DayKey(n) \in DOMAIN f => g[DayKey(n)] = f[DayKey(n)]
        /\ \A m : SavedIn(g, m) = IF <<"month", m>> = k THEN x ELSE SavedIn(f, m)
        /\ Saved(g, ReadKey) = IF ReadKey = k THEN x ELSE Saved(f, ReadKey)
        /\ \A m : <<"month", m>> = k => MonthSum(g) = MonthSum(f) - SavedIn(f, m) + x
    BY <2>0, PutFile
  <2> HIDE DEF g
  <2>2. QED
    BY <1>2, <1>3, <2>1
<1> USE DEF Facts, Registers, Calendar, Traffic, MonthKept, Cover, Limit, DayKept,
            Deal_, Load_, Boot_, Started, No, Yes
<1>6. ASSUME k \in DOMAIN f PROVE Facts(p, i + 1, f, No, f[k], s, o)
  <2>1. f[k] \in Nat /\ Saved(f, k) = f[k] /\ SavedIn(f, Now) = f[k]
    BY <1>2, <1>6 DEF IsFile, Saved, SavedIn
  <2>2. Registers(p, i + 1, f[k], s) /\ Calendar(p, i + 1) /\ Limit(p, i + 1, No, o)
    OBVIOUS
  <2>3. Traffic(p, i + 1, f, f[k], s)
    BY <2>1
  <2>4. MonthKept(p, i + 1, f, f[k], s)
    <3>1. CASE p = "load" /\ i = 2
      BY <1>1, <1>4, <2>1, <3>1
    <3>2. CASE p = "boot" /\ i = 5
      BY <1>1, <1>4, <2>1, <3>2
    <3>3. QED
      BY <3>1, <3>2
  <2>5. Cover(p, i + 1, f, f[k], s)
    <3>1. CASE p = "load" /\ i = 2
      BY <1>4, <2>1, <3>1 DEF Numbers, Covers
    <3>2. CASE p = "boot" /\ i = 5
      BY <1>4, <2>1, <3>2 DEF Numbers, Covers
    <3>3. QED
      BY <3>1, <3>2
  <2>6. DayKept(p, i + 1, f, f[k])
    <3>1. CASE p = "load" /\ i = 2
      BY <1>3, <1>6, <2>1, <3>1 DEF Days, Numbers, Date, FlowAssumption
    <3>2. CASE p = "boot" /\ i = 5
      BY <1>3, <1>6, <2>1, <3>2 DEF Days, Numbers, Date, FlowAssumption
    <3>3. QED
      BY <3>1, <3>2
  <2>7. QED
    BY <2>2, <2>3, <2>4, <2>5, <2>6
<1>7. ASSUME k \notin DOMAIN f PROVE Facts(p, i + 1, g, No, x, s, o)
  <2>2. Saved(f, k) = 0 /\ SavedIn(f, Now) = 0
    BY <1>2, <1>7 DEF Saved, SavedIn
  <2>3. Registers(p, i + 1, x, s) /\ Calendar(p, i + 1) /\ Limit(p, i + 1, No, o)
    OBVIOUS
  <2> HIDE DEF g, x
  <2>4. Traffic(p, i + 1, g, x, s)
    BY <1>5, <2>2
  <2>5. MonthKept(p, i + 1, g, x, s)
    <3>1. CASE p = "load" /\ i = 2
      BY <1>1, <1>4, <1>5, <2>2, <3>1 DEF x
    <3>2. CASE p = "boot" /\ i = 5
      BY <1>1, <1>4, <1>5, <2>2, <3>2 DEF x
    <3>3. QED
      BY <3>1, <3>2
  <2>6. Cover(p, i + 1, g, x, s)
    <3>1. CASE p = "load" /\ i = 2
      BY <1>1, <1>4, <1>5, <2>2, <3>1 DEF Numbers, Covers, x
    <3>2. CASE p = "boot" /\ i = 5
      BY <1>1, <1>4, <1>5, <2>2, <3>2 DEF Numbers, Covers, x
    <3>3. QED
      BY <3>1, <3>2
  <2>7. DayKept(p, i + 1, g, x)
    <3>1. CASE p = "load" /\ i = 2
      BY <1>1, <1>3, <1>5, <1>7, <3>1 DEF Days
    <3>2. CASE p = "boot" /\ i = 5
      BY <1>1, <1>3, <1>5, <1>7, <3>2 DEF Days
    <3>3. QED
      BY <3>1, <3>2
  <2>8. QED
    BY <2>3, <2>4, <2>5, <2>6, <2>7
<1>8. QED
  BY <1>6, <1>7 DEF g, x

LEMMA GettingDay ==
  ASSUME FlowAssumption, Numbers, NEW f, IsFile(f), NEW v \in Nat, NEW s \in Nat, NEW o \in BOOLEAN,
         NEW p, NEW i, (p = "load" /\ i = 4) \/ (p = "boot" /\ i = 7),
         Facts(p, i, f, No, v, s, o), f = file
  PROVE  LET k == DayKey(date - 1)
             x == comm_read_flow_
         IN  IF k \in DOMAIN f THEN Facts(p, i + 1, f, No, f[k], s, o)
                                ELSE Facts(p, i + 1, Put(f, k, x), No, x, s, o)
<1> DEFINE k == DayKey(date - 1)
           x == comm_read_flow_
           g == Put(f, k, x)
<1> HIDE DEF x
<1>1. x \in Nat
  BY DEF Numbers, x
<1>0. /\ current_day_ \in Date /\ current_day_ \in Int /\ date \in Int
      /\ used["sets"] = 0 => date \in {current_day_, current_day_ + 1}
  <2>1. date \in Int /\ \A d \in Date : d \in Int
    BY DEF Numbers, Date, FlowAssumption
  <2>2. Calendar(p, i)
    BY DEF Facts
  <2>3. CASE p = "load" /\ i = 4
    BY <2>1, <2>2, <2>3 DEF Calendar, Started, Load_
  <2>4. CASE p = "boot" /\ i = 7
    BY <2>1, <2>2, <2>4 DEF Calendar, Started, Boot_
  <2>5. QED
    BY <2>3, <2>4
<1>2. k \in Keys /\ k[1] # "month"
  BY FileKeys
<1>3. (\A m : <<"month", m>> # k) /\ ReadKey # k /\ \A n : DayKey(n) = k <=> n = date - 1
  BY KeysDiffer
<1>4. /\ \A m : SavedIn(f, m) \in Nat /\ DealtIn(m) \in Int
      /\ Saved(f, ReadKey) \in Nat /\ MonthSum(f) \in Int
  BY Values
<1>5. /\ IsFile(g)
      /\ \A n : /\ DayKey(n) \in DOMAIN g <=> n = date - 1 \/ DayKey(n) \in DOMAIN f
                /\ n = date - 1 => g[DayKey(n)] = x
                /\ n # date - 1 /\ DayKey(n) \in DOMAIN f => g[DayKey(n)] = f[DayKey(n)]
      /\ \A m : SavedIn(g, m) = SavedIn(f, m)
      /\ Saved(g, ReadKey) = Saved(f, ReadKey)
      /\ MonthSum(g) = MonthSum(f)
  BY <1>1, <1>2, <1>3, PutFile
<1> USE DEF Facts, Registers, Calendar, Traffic, MonthKept, Cover, Limit, DayKept,
            Deal_, Load_, Boot_, Started, No, Yes
<1>6. ASSUME k \in DOMAIN f PROVE Facts(p, i + 1, f, No, f[k], s, o)
  <2>1. f[k] \in Nat /\ Saved(f, k) = f[k]
    BY <1>2, <1>6 DEF IsFile, Saved, SavedIn
  <2>2. Registers(p, i + 1, f[k], s) /\ Calendar(p, i + 1) /\ Limit(p, i + 1, No, o)
    OBVIOUS
  <2>3. Traffic(p, i + 1, f, f[k], s)
    BY <2>1
  <2>4. MonthKept(p, i + 1, f, f[k], s)
    <3>1. CASE p = "load" /\ i = 4
      BY <1>4, <2>1, <3>1
    <3>2. CASE p = "boot" /\ i = 7
      BY <1>4, <2>1, <3>2
    <3>3. QED
      BY <3>1, <3>2
  <2>5. Cover(p, i + 1, f, f[k], s)
    <3>1. CASE p = "load" /\ i = 4
      BY <1>4, <2>1, <3>1 DEF Numbers, Covers
    <3>2. CASE p = "boot" /\ i = 7
      BY <1>4, <2>1, <3>2 DEF Numbers, Covers
    <3>3. QED
      BY <3>1, <3>2
  <2>6. DayKept(p, i + 1, f, f[k])
    <3>1. CASE p = "load" /\ i = 4
      BY <1>0, <1>6, <2>1, <3>1
    <3>2. CASE p = "boot" /\ i = 7
      BY <1>0, <1>6, <2>1, <3>2
    <3>3. QED
      BY <3>1, <3>2
  <2>7. QED
    BY <2>2, <2>3, <2>4, <2>5, <2>6
<1>7. ASSUME k \notin DOMAIN f PROVE Facts(p, i + 1, g, No, x, s, o)
  <2>2. Saved(f, k) = 0
    BY <1>2, <1>7 DEF Saved, SavedIn
  <2>3. Registers(p, i + 1, x, s) /\ Calendar(p, i + 1) /\ Limit(p, i + 1, No, o)
    OBVIOUS
  <2> HIDE DEF g, x
  <2>4. Traffic(p, i + 1, g, x, s)
    BY <1>5, <2>2
  <2>5. MonthKept(p, i + 1, g, x, s)
    <3>1. CASE p = "load" /\ i = 4
      BY <1>4, <1>5, <2>2, <3>1
    <3>2. CASE p = "boot" /\ i = 7
      BY <1>4, <1>5, <2>2, <3>2
    <3>3. QED
      BY <3>1, <3>2
  <2>6. Cover(p, i + 1, g, x, s)
    <3>1. CASE p = "load" /\ i = 4
      BY <1>1, <1>4, <1>5, <2>2, <3>1 DEF Numbers, Covers, x
    <3>2. CASE p = "boot" /\ i = 7
      BY <1>1, <1>4, <1>5, <2>2, <3>2 DEF Numbers, Covers, x
    <3>3. QED
      BY <3>1, <3>2
  <2>7. DayKept(p, i + 1, g, x)
    <3>2. ASSUME NEW n \in Int, n \in {current_day_, current_day_ - 1}
          PROVE  /\ DayKey(n) \in DOMAIN g <=> n = date - 1 \/ DayKey(n) \in DOMAIN f
                 /\ n = date - 1 => g[DayKey(n)] = x
                 /\ n # date - 1 /\ DayKey(n) \in DOMAIN f => g[DayKey(n)] = f[DayKey(n)]
      BY <1>5
    <3>3. used["sets"] = 0 /\ Days(current_day_, f) => Days(current_day_, g)
      BY <1>5, <1>0 DEF Days, Date, FlowAssumption
    <3>4. QED
      BY <1>1, <1>7, <1>0, <3>2, <3>3 DEF x, Numbers
  <2>8. QED
    BY <2>3, <2>4, <2>5, <2>6, <2>7
<1>8. QED
  BY <1>6, <1>7 DEF g, x
-----------------------------------------------------------------------------
(* Now the steps that change memory, the file or the clock.                *)
LEMMA DealtStays ==
  ASSUME dealt' = dealt
  PROVE  \A m : DealtIn(m)' = DealtIn(m)
BY DealtInSum, DealtInSumNext

(* Only the file as it is on disk, of which little is said, may change.    *)
LEMMA Staying ==
  ASSUME FlowAssumption, UNCHANGED <<memory, date, history>>,
         \A b \in {"cuts", "inits", "sets"} : used'[b] = used[b],
         used["inits"] = 0 => Covers(file'),
         NEW p, NEW i, NEW f, NEW m, NEW v, NEW s, NEW o, Facts(p, i, f, m, v, s, o)
  PROVE  Facts(p, i, f, m, v, s, o)'
<1> USE DEF memory, counters, history, Facts
<1>1. \A n : DealtIn(n)' = DealtIn(n)
  BY DealtStays
<1>2. Registers(p, i, v, s)'
  BY DEF Registers
<1>3. Calendar(p, i)'
  BY DEF Calendar
<1>4. Traffic(p, i, f, v, s)'
  BY DEF Traffic
<1>5. MonthKept(p, i, f, v, s)'
  BY <1>1 DEF MonthKept, Now
<1>6. Cover(p, i, f, v, s)'
  BY DEF Cover, Now, Covers
<1>7. Limit(p, i, m, o)'
  BY DEF Limit, Over
<1>8. DayKept(p, i, f, v)'
  BY DEF DayKept, Boot, Days
<1>9. QED
  BY <1>2, <1>3, <1>4, <1>5, <1>6, <1>7, <1>8

LEMMA ReceivingFacts ==
  ASSUME FlowAssumption, Numbers, NEW f, IsFile(f), NEW v \in Nat, NEW s \in Nat, NEW o \in BOOLEAN,
         Facts("piece", 1, f, No, v, s, o), f = file,
         to_read_' = s, received' = received + 1,
         UNCHANGED <<counters, file, date, dealt, raised, torn, used>>
  PROVE  Facts("piece", 2, f, No, v, 0, o)'
<1> USE DEF counters, Facts, Deal_, Load_, Boot_, Started, No, Yes
<1>1. \A n : DealtIn(n)' = DealtIn(n)
  BY DealtStays
<1>2. Registers("piece", 2, v, 0)'
  BY DEF Registers
<1>3. Calendar("piece", 2)'
  BY DEF Calendar
<1>4. Traffic("piece", 2, f, v, 0)'
  BY DEF Traffic, Registers, Numbers
<1>5. MonthKept("piece", 2, f, v, 0)'
  BY <1>1 DEF MonthKept, Now
<1>6. Cover("piece", 2, f, v, 0)'
  BY DEF Cover, Now, Covers
<1>7. Limit("piece", 2, No, o)'
  BY DEF Limit, Over
<1>8. DayKept("piece", 2, f, v)'
  BY DEF DayKept, Boot, Days
<1>9. QED
  BY <1>2, <1>3, <1>4, <1>5, <1>6, <1>7, <1>8

LEMMA ClearingFacts ==
  ASSUME FlowAssumption, Numbers, NEW f, IsFile(f), NEW v \in Nat, NEW s \in Nat, NEW o \in BOOLEAN,
         Facts("deal", 2, f, No, v, s, o), f = file,
         to_read_' = 0, UNCHANGED <<counters, file, date, history, used>>
  PROVE  Facts("deal", 3, f, No, v, s, o)'
<1> USE DEF counters, history, Facts, Deal_, Load_, Boot_, Started, No, Yes
<1>1. \A n : DealtIn(n)' = DealtIn(n)
  BY DealtStays
<1>2. Registers("deal", 3, v, s)'
  BY DEF Registers
<1>3. Calendar("deal", 3)'
  BY DEF Calendar
<1>4. Traffic("deal", 3, f, v, s)'
  BY DEF Traffic, Registers, Numbers
<1>5. MonthKept("deal", 3, f, v, s)'
  BY <1>1 DEF MonthKept, Now
<1>6. Cover("deal", 3, f, v, s)'
  BY DEF Cover, Now, Covers
<1>7. Limit("deal", 3, No, o)'
  BY DEF Limit, Over
<1>8. DayKept("deal", 3, f, v)'
  BY DEF DayKept, Boot, Days
<1>9. QED
  BY <1>2, <1>3, <1>4, <1>5, <1>6, <1>7, <1>8

LEMMA CountingFacts ==
  ASSUME FlowAssumption, Numbers, NEW f, IsFile(f), NEW v \in Nat, NEW s \in Nat, NEW o \in BOOLEAN,
         Facts("deal", 4, f, No, v, s, o), f = file,
         comm_read_flow_' = s, dealt' = [dealt EXCEPT ![current_day_] = dealt[current_day_] + v],
         UNCHANGED <<to_read_, comm_curr_month_flow_, comm_last_day_flow_, current_day_,
                     flow_event_reported_, file, date, raised, received, torn, used>>
  PROVE  Facts("deal", 5, f, No, v, s, o)'
<1> USE DEF Facts, Deal_, Load_, Boot_, Started, No, Yes
<1>1. current_day_ \in Date
  BY DEF Calendar
<1>2. \A n : DealtIn(n)' = IF n = Now THEN DealtIn(n) + v ELSE DealtIn(n)
  BY <1>1, DealtGrows DEF Now, Numbers
<1>3. /\ dealt'[current_day_] = dealt[current_day_] + v
      /\ \A d \in Date : dealt'[d] = IF d = current_day_ THEN dealt[d] + v ELSE dealt[d]
      /\ \A d \in Date : dealt[d] \in Nat
  BY <1>1 DEF Numbers
<1>4. Registers("deal", 5, v, s)'
  BY DEF Registers
<1>5. Calendar("deal", 5)'
  BY DEF Calendar
<1>6. Traffic("deal", 5, f, v, s)'
  BY DEF Traffic, Registers, Numbers
<1>7. MonthKept("deal", 5, f, v, s)'
  BY <1>2 DEF MonthKept, Now, Numbers
<1>8. Cover("deal", 5, f, v, s)'
  BY Values DEF Cover, Now, Covers, Registers, Numbers
<1>9. Limit("deal", 5, No, o)'
  BY DEF Limit, Over
<1>10. DayKept("deal", 5, f, v)'
  BY <1>1, <1>3 DEF DayKept, Boot, Days, Registers, Numbers, Date, FlowAssumption
<1>11. QED
  BY <1>4, <1>5, <1>6, <1>7, <1>8, <1>9, <1>10

LEMMA MonthFacts ==
  ASSUME FlowAssumption, Numbers, NEW f, IsFile(f), NEW v \in Nat, NEW s \in Nat, NEW o \in BOOLEAN,
         NEW i \in {6, 9}, Facts("deal", i, f, No, v, s, o), f = file, comm_curr_month_flow_' = s,
         UNCHANGED <<to_read_, comm_read_flow_, comm_last_day_flow_, current_day_,
                     flow_event_reported_, file, date, history, used>>
  PROVE  Facts("deal", i + 1, f, No, v, s, o)'
<1> USE DEF history, Facts, Deal_, Load_, Boot_, Started, No, Yes
<1>1. \A n : DealtIn(n)' = DealtIn(n)
  BY DealtStays
<1>2. Registers("deal", i + 1, v, s)'
  BY DEF Registers
<1>3. Calendar("deal", i + 1)'
  BY DEF Calendar
<1>4. Traffic("deal", i + 1, f, v, s)'
  BY DEF Traffic
<1>5. MonthKept("deal", i + 1, f, v, s)'
  BY <1>1 DEF MonthKept, Now, Registers
<1>6. Cover("deal", i + 1, f, v, s)'
  BY DEF Cover, Now, Covers, Registers
<1>7. Limit("deal", i + 1, No, o)'
  BY DEF Limit, Over
<1>8. DayKept("deal", i + 1, f, v)'
  BY DEF DayKept, Boot, Days
<1>9. QED
  BY <1>2, <1>3, <1>4, <1>5, <1>6, <1>7, <1>8

LEMMA MarkingFacts ==
  ASSUME FlowAssumption, Numbers, NEW f, IsFile(f), NEW v \in Nat, NEW s \in Nat, NEW o \in BOOLEAN,
         NEW p, NEW i, Facts(p, i, f, Yes, v, s, o), f = file, flow_event_reported_' = 1,
         UNCHANGED <<to_read_, comm_read_flow_, comm_curr_month_flow_, comm_last_day_flow_,
                     current_day_, file, date, history, used>>
  PROVE  Facts(p, i, f, No, v, s, Yes)'
<1> USE DEF history, Facts, Deal_, Load_, Boot_, Started, No, Yes
<1>1. \A n : DealtIn(n)' = DealtIn(n)
  BY DealtStays
<1>2. Registers(p, i, v, s)'
  BY DEF Registers
<1>3. Calendar(p, i)'
  BY DEF Calendar
<1>4. Traffic(p, i, f, v, s)'
  BY DEF Traffic
<1>5. MonthKept(p, i, f, v, s)'
  BY <1>1 DEF MonthKept, Now
<1>6. Cover(p, i, f, v, s)'
  BY DEF Cover, Now, Covers
<1>7. Limit(p, i, No, Yes)'
  BY DEF Limit, Over, Calendar
<1>8. DayKept(p, i, f, v)'
  BY DEF DayKept, Boot, Days
<1>9. QED
  BY <1>2, <1>3, <1>4, <1>5, <1>6, <1>7, <1>8

LEMMA RaisingFacts ==
  ASSUME FlowAssumption, Numbers, NEW f, IsFile(f), NEW v \in Nat, NEW s \in Nat,
         Facts("deal", 11, f, No, v, s, Yes), f = file,
         raised' = [raised EXCEPT ![current_day_] = raised[current_day_] + 1],
         UNCHANGED <<memory, file, date, dealt, received, torn, used>>
  PROVE  Facts("deal", 12, f, No, v, s, Yes)'
<1> USE DEF memory, counters, Facts, Deal_, Load_, Boot_, Started, No, Yes
<1>1. \A n : DealtIn(n)' = DealtIn(n)
  BY DealtStays
<1>2. Registers("deal", 12, v, s)'
  BY DEF Registers
<1>3. Calendar("deal", 12)'
  BY DEF Calendar
<1>4. Traffic("deal", 12, f, v, s)'
  BY DEF Traffic
<1>5. MonthKept("deal", 12, f, v, s)'
  BY <1>1 DEF MonthKept, Now
<1>6. Cover("deal", 12, f, v, s)'
  BY DEF Cover, Now, Covers
<1>7. Limit("deal", 12, No, Yes)'
  <2>1. current_day_ \in Date /\ raised[current_day_] \in Nat
    BY DEF Calendar, Numbers
  <2>2. /\ raised'[current_day_] = raised[current_day_] + 1
        /\ \A d \in Date : d # current_day_ => raised'[d] = raised[d]
    BY <2>1 DEF Numbers
  <2>3. \A d \in Date : d \in Int /\ raised[d] \in Nat
    BY DEF Numbers, Date, FlowAssumption
  <2>4. QED
    BY <2>1, <2>2, <2>3 DEF Limit, Over
<1>8. DayKept("deal", 12, f, v)'
  BY DEF DayKept, Boot, Days
<1>9. QED
  BY <1>2, <1>3, <1>4, <1>5, <1>6, <1>7, <1>8

LEMMA ResettingFacts ==
  ASSUME FlowAssumption, Numbers, NEW f, IsFile(f), NEW v \in Nat, NEW s \in Nat, NEW o \in BOOLEAN,
         NEW p, NEW i, (p = "load" /\ i = 1) \/ (p = "boot" /\ i = 4),
         Facts(p, i, f, No, v, s, o), f = file, comm_curr_month_flow_' = 0,
         comm_last_day_flow_' = comm_read_flow_, current_day_' = date, flow_event_reported_' = 0,
         UNCHANGED <<to_read_, comm_read_flow_, file, date, history, used>>
  PROVE  Facts(p, i + 1, f, No, v, s, o)'
<1> USE DEF history, Facts, Deal_, Load_, Boot_, Started, No, Yes
<1>0. /\ used["inits"] \in Nat /\ used["sets"] \in Nat /\ date \in Date /\ date \in Int
      /\ current_day_ \in Int /\ \A d \in Date : d \in Int /\ raised[d] \in Nat /\ dealt[d] \in Nat
  BY DEF Numbers, Date, FlowAssumption
<1>1. \A n : DealtIn(n)' = DealtIn(n)
  BY DealtStays
<1>2. Registers(p, i + 1, v, s)'
  BY DEF Registers
<1>3. Calendar(p, i + 1)'
  BY <1>0 DEF Calendar
<1>4. Traffic(p, i + 1, f, v, s)'
  BY DEF Traffic
<1>5. MonthKept(p, i + 1, f, v, s)'
  <2>1. SUFFICES ASSUME ~torn
                 PROVE  /\ SavedIn(f, Month(date)) = DealtIn(Month(date))
                        /\ \A n \in Months : used["inits"] = 0 \/ n > Month(date) => SavedIn(f, n) = DealtIn(n)
    BY <1>1 DEF MonthKept, Now
  <2>2. Month(date) \in Months /\ \A n \in Months : n \in Int
    <3>1. \A d \in Date : Month(d) \in Int
      <4>1. TAKE d \in Date
      <4>2. Month(d) \in 0 .. LastDate
        BY MonthType
      <4>3. QED
        BY <4>2 DEF FlowAssumption
    <3>2. QED
      BY <1>0, <3>1 DEF Months
  <2>3. CASE used["inits"] = 0
    BY <2>1, <2>2, <2>3 DEF MonthKept
  <2>4. CASE used["inits"] > 0
    <3>1. p = "load" /\ used["sets"] = 0 /\ current_day_ \in Date /\ current_day_ < date
      BY <2>4 DEF Calendar
    <3>2. Now <= Month(date) /\ Now \in Int
      BY <1>0, <2>2, <3>1, MonthGrows DEF Now, Months
    <3>3. SavedIn(f, Now) = DealtIn(Now) /\ \A n \in Months : n > Now => SavedIn(f, n) = DealtIn(n)
      BY <2>1, <3>1, <3>2 DEF MonthKept
    <3>4. QED
      BY <2>2, <2>4, <3>2, <3>3
  <2>5. QED
    BY <1>0, <2>3, <2>4
<1>6. Cover(p, i + 1, f, v, s)'
  BY DEF Cover, Covers
<1>7. Limit(p, i + 1, No, o)'
  BY <1>0 DEF Limit, Over, Calendar
<1>8. DayKept(p, i + 1, f, v)'
  <2>1. SUFFICES ASSUME ~torn, used["sets"] = 0
                 PROVE  /\ Days(date, f)
                        /\ DayKey(date) \in DOMAIN f => f[DayKey(date)] = comm_read_flow_
                        /\ DayKey(date - 1) \in DOMAIN f => f[DayKey(date - 1)] = comm_read_flow_ - dealt[date]
                        /\ p = "load" => dealt[date] = 0
                        /\ p = "boot" /\ DayKey(date - 1) \notin DOMAIN f => dealt[date] = 0
    BY DEF DayKept, Days
  <2>2. CASE p = "load"
    <3>1. current_day_ \in Date /\ current_day_ < date
      BY <2>1, <2>2 DEF Calendar
    <3>2. /\ Days(current_day_, f)
          /\ DayKey(current_day_) \in DOMAIN f => f[DayKey(current_day_)] = comm_read_flow_
      BY <2>1, <2>2 DEF DayKept
    <3>3. dealt[date] = 0 /\ DayKey(date) \notin DOMAIN f /\ Days(date, f)
      BY <1>0, <3>1, <3>2 DEF Days
    <3>4. date - 1 = current_day_ \/ DayKey(date - 1) \notin DOMAIN f
      BY <1>0, <3>1, <3>2 DEF Days, Date, FlowAssumption
    <3>5. QED
      BY <1>0, <2>2, <3>2, <3>3, <3>4 DEF Numbers
  <2>3. CASE p = "boot"
    <3>1. PICK c \in Date \union {-1} : Boot(c, f)
      BY <2>1, <2>3 DEF DayKept
    <3>2. received = comm_read_flow_
      BY <2>1, <2>3 DEF Traffic, Registers, Numbers
    <3>3. c \in Int /\ c <= date /\ Days(date, f)
      BY <1>0, <3>1 DEF Boot, Days, Date, FlowAssumption
    <3>4. CASE c = date
      BY <1>0, <2>3, <3>1, <3>2, <3>3, <3>4 DEF Boot
    <3>5. CASE c < date
      <4>1. dealt[date] = 0 /\ DayKey(date) \notin DOMAIN f
        BY <1>0, <3>1, <3>5 DEF Boot, Days
      <4>2. date - 1 = c \/ DayKey(date - 1) \notin DOMAIN f
        BY <1>0, <3>1, <3>3, <3>5 DEF Boot, Days, Date, FlowAssumption
      <4>3. QED
        BY <1>0, <3>1, <3>2, <3>3, <4>1, <4>2 DEF Boot, Numbers
    <3>6. QED
      BY <1>0, <3>3, <3>4, <3>5
  <2>4. QED
    BY <2>2, <2>3
<1>9. QED
  BY <1>2, <1>3, <1>4, <1>5, <1>6, <1>7, <1>8

LEMMA TotalFacts ==
  ASSUME FlowAssumption, Numbers, NEW f, IsFile(f), NEW v \in Nat, NEW s \in Nat, NEW o \in BOOLEAN,
         Facts("boot", 2, f, No, v, s, o), f = file, comm_read_flow_' = v,
         UNCHANGED <<to_read_, comm_curr_month_flow_, comm_last_day_flow_, current_day_,
                     flow_event_reported_, file, date, history, used>>
  PROVE  Facts("boot", 3, f, No, v, s, o)'
<1> USE DEF history, Facts, Deal_, Load_, Boot_, Started, No, Yes
<1>1. \A n : DealtIn(n)' = DealtIn(n)
  BY DealtStays
<1>2. Registers("boot", 3, v, s)'
  BY DEF Registers
<1>3. Calendar("boot", 3)'
  BY DEF Calendar
<1>4. Traffic("boot", 3, f, v, s)'
  BY DEF Traffic, Registers, Numbers
<1>5. MonthKept("boot", 3, f, v, s)'
  BY <1>1 DEF MonthKept, Now
<1>6. Cover("boot", 3, f, v, s)'
  BY DEF Cover, Now, Covers
<1>7. Limit("boot", 3, No, o)'
  BY DEF Limit, Over
<1>8. DayKept("boot", 3, f, v)'
  BY DEF DayKept, Boot, Days
<1>9. QED
  BY <1>2, <1>3, <1>4, <1>5, <1>6, <1>7, <1>8

LEMMA MonthLoadedFacts ==
  ASSUME FlowAssumption, Numbers, NEW f, IsFile(f), NEW v \in Nat, NEW s \in Nat, NEW o \in BOOLEAN,
         NEW p, NEW i, (p = "load" /\ i = 3) \/ (p = "boot" /\ i = 6),
         Facts(p, i, f, No, v, s, o), f = file, comm_curr_month_flow_' = v,
         UNCHANGED <<to_read_, comm_read_flow_, comm_last_day_flow_, current_day_,
                     flow_event_reported_, file, date, history, used>>
  PROVE  Facts(p, i + 1, f, No, v, s, o)'
<1> USE DEF history, Facts, Deal_, Load_, Boot_, Started, No, Yes
<1>1. \A n : DealtIn(n)' = DealtIn(n)
  BY DealtStays
<1>2. Registers(p, i + 1, v, s)'
  BY DEF Registers
<1>3. Calendar(p, i + 1)'
  BY DEF Calendar
<1>4. Traffic(p, i + 1, f, v, s)'
  BY DEF Traffic
<1>5. MonthKept(p, i + 1, f, v, s)'
  BY <1>1 DEF MonthKept, Now
<1>6. Cover(p, i + 1, f, v, s)'
  BY DEF Cover, Now, Covers
<1>7. Limit(p, i + 1, No, o)'
  BY DEF Limit, Over
<1>8. DayKept(p, i + 1, f, v)'
  BY DEF DayKept, Boot, Days
<1>9. QED
  BY <1>2, <1>3, <1>4, <1>5, <1>6, <1>7, <1>8

LEMMA DayLoadedFacts ==
  ASSUME FlowAssumption, Numbers, NEW f, IsFile(f), NEW v \in Nat, NEW s \in Nat, NEW o \in BOOLEAN,
         NEW p, NEW i, (p = "load" /\ i = 5) \/ (p = "boot" /\ i = 8),
         Facts(p, i, f, No, v, s, o), f = file, comm_last_day_flow_' = v,
         UNCHANGED <<to_read_, comm_read_flow_, comm_curr_month_flow_, current_day_,
                     flow_event_reported_, file, date, history, used>>
  PROVE  Facts(p, i + 1, f, No, 0, s, o)'
<1> USE DEF history, Facts, Deal_, Load_, Boot_, Started, No, Yes
<1>1. \A n : DealtIn(n)' = DealtIn(n)
  BY DealtStays
<1>2. Registers(p, i + 1, 0, s)'
  BY DEF Registers
<1>3. Calendar(p, i + 1)'
  BY DEF Calendar
<1>4. Traffic(p, i + 1, f, 0, s)'
  BY DEF Traffic
<1>5. MonthKept(p, i + 1, f, 0, s)'
  BY <1>1 DEF MonthKept, Now
<1>6. Cover(p, i + 1, f, 0, s)'
  BY DEF Cover, Now, Covers
<1>7. Limit(p, i + 1, No, o)'
  BY DEF Limit, Over
<1>8. DayKept(p, i + 1, f, 0)'
  <2>1. current_day_ \in Date /\ comm_read_flow_ \in Nat /\ dealt[current_day_] \in Nat
    BY DEF Calendar, Numbers
  <2>2. QED
    BY <2>1 DEF DayKept, Days
<1>9. QED
  BY <1>2, <1>3, <1>4, <1>5, <1>6, <1>7, <1>8

(* A sum of zeros, such as what is dealt with in a month yet to come.      *)
LEMMA SumZero ==
  ASSUME NEW S, IsFiniteSet(S), NEW f, \A x \in S : f[x] = 0
  PROVE  SumMap(f, S) = 0
<1> DEFINE P == {T \in SUBSET S : SumMap(f, T) = 0}
<1>1. ASSUME NEW T \in SUBSET S, \A x \in T : T \ {x} \in P PROVE T \in P
  <2>1. CASE T = {}
    BY <2>1, SumUnfolds
  <2>2. CASE T # {}
    <3> DEFINE c == CHOOSE x \in T : TRUE
    <3>1. c \in T
      BY <2>2
    <3>2. SumMap(f, T) = f[c] + SumMap(f, T \ {c})
      BY <2>2, SumUnfolds
    <3> HIDE DEF c
    <3>3. QED
      BY <1>1, <3>1, <3>2
  <2>3. QED
    BY <2>1, <2>2
<1>2. S \in P
  <2> HIDE DEF P
  <2>1. \A T \in SUBSET S : T \in P
    BY <1>1, BySubsets
  <2>2. QED
    BY <2>1
<1>3. QED
  BY <1>2

LEMMA InitialisedFacts ==
  ASSUME FlowAssumption, Numbers, NEW v \in Nat, NEW s \in Nat,
         Facts("piece", 2, file, No, v, s, No), used["cuts"] = 0, used["sets"] = 0,
         used'["inits"] > 0, used'["cuts"] = 0, used'["sets"] = 0, file' = EmptyFile,
         UNCHANGED <<memory, date, history>>
  PROVE  Facts("piece", 2, EmptyFile, No, v, s, No)'
<1> USE DEF memory, counters, history, Facts, Deal_, Load_, Boot_, Started, No, Yes
<1>1. \A n : DealtIn(n)' = DealtIn(n)
  BY DealtStays
<1>2. Registers("piece", 2, v, s)'
  BY DEF Registers
<1>3. Calendar("piece", 2)'
  BY DEF Calendar
<1>4. Traffic("piece", 2, EmptyFile, v, s)'
  BY DEF Traffic
<1>5. MonthKept("piece", 2, EmptyFile, v, s)'
  <2>1. SUFFICES ASSUME ~torn
                 PROVE  /\ comm_curr_month_flow_ = DealtIn(Now)
                        /\ \A n \in Months : n > Now => SavedIn(EmptyFile, n) = DealtIn(n)
    BY <1>1 DEF MonthKept, Now
  <2>2. comm_curr_month_flow_ = DealtIn(Now)
    BY <2>1 DEF MonthKept
  <2>3. ASSUME NEW n \in Months, n > Now PROVE DealtIn(n) = 0
    <3>1. current_day_ \in Date /\ dealt \in [Date -> Nat]
      BY DEF Calendar, Numbers
    <3>2. \A d \in Date : d > current_day_ => dealt[d] = 0
      BY <2>1 DEF DayKept, Days
    <3>3. \A d \in Date : d \in Int /\ Month(d) \in Int
      <4>1. TAKE d \in Date
      <4>2. Month(d) \in 0 .. LastDate
        BY MonthType
      <4>3. QED
        BY <4>2 DEF FlowAssumption, Date
    <3>4. ASSUME NEW d \in InMonth(n) PROVE dealt[d] = 0
      <4>1. d \in Date /\ Month(d) = n
        BY DEF InMonth
      <4>2. CASE d <= current_day_
        <5>1. Month(d) <= Now
          BY <3>1, <4>1, <4>2, MonthGrows DEF Now
        <5>2. QED
          BY <2>3, <3>1, <3>3, <4>1, <5>1 DEF Now
      <4>3. QED
        BY <3>1, <3>2, <3>3, <4>1, <4>2
    <3>5. DealtIn(n) = SumMap(dealt, InMonth(n)) /\ IsFiniteSet(InMonth(n))
      BY <3>1, DealtInIs
    <3>6. QED
      BY <3>4, <3>5, SumZero
  <2>4. \A n : SavedIn(EmptyFile, n) = 0
    BY DEF SavedIn, Saved, EmptyFile
  <2>5. QED
    BY <2>2, <2>3, <2>4
<1>6. Cover("piece", 2, EmptyFile, v, s)'
  BY DEF Cover
<1>7. Limit("piece", 2, No, No)'
  BY DEF Limit, Over
<1>8. DayKept("piece", 2, EmptyFile, v)'
  <2>1. \A n : DayKey(n) \notin DOMAIN EmptyFile
    BY DEF EmptyFile
  <2>2. QED
    BY <2>1 DEF DayKept, Boot, Days
<1>9. QED
  BY <1>2, <1>3, <1>4, <1>5, <1>6, <1>7, <1>8

LEMMA MidnightFacts ==
  ASSUME FlowAssumption, Numbers, NEW f, NEW m, NEW v \in Nat, NEW s \in Nat, NEW o \in BOOLEAN,
         NEW p, NEW i \in Int, Facts(p, i, f, m, v, s, o),
         (p = "piece" /\ i = 2) \/ current_day_ \in {date, -1}, date' = date + 1,
         UNCHANGED <<memory, file, history, used>>
  PROVE  Facts(p, i, f, m, v, s, o)'
<1> USE DEF memory, counters, history, Facts, Started
<1>0. /\ date \in Int /\ date >= 0 /\ current_day_ \in Int /\ -1 \notin Date
      /\ \A c \in Date \union {-1} : c \in Int
  BY DEF Numbers, Date, FlowAssumption
<1>1. \A n : DealtIn(n)' = DealtIn(n)
  BY DealtStays
<1>2. Registers(p, i, v, s)'
  BY DEF Registers
<1>3. Calendar(p, i)'
  BY <1>0 DEF Calendar, Load_, Boot_
<1>4. Traffic(p, i, f, v, s)'
  BY DEF Traffic
<1>5. MonthKept(p, i, f, v, s)'
  BY <1>1 DEF MonthKept, Now
<1>6. Cover(p, i, f, v, s)'
  BY DEF Cover, Now, Covers
<1>7. Limit(p, i, m, o)'
  BY DEF Limit, Over
<1>8. DayKept(p, i, f, v)'
  <2>1. SUFFICES ASSUME ~torn, used["sets"] = 0
                 PROVE  DayKept(p, i, f, v)'
    BY DEF DayKept
  <2>2. current_day_ <= date /\ date' # current_day_
    BY <1>0, <2>1 DEF Calendar
  <2>3. \A c \in Date \union {-1} : Boot(c, f) => Boot(c, f)'
    BY <1>0 DEF Boot, Days
  <2>4. QED
    BY <2>1, <2>2, <2>3 DEF DayKept, Days
<1>9. QED
  BY <1>2, <1>3, <1>4, <1>5, <1>6, <1>7, <1>8

LEMMA ClockFacts ==
  ASSUME FlowAssumption, Numbers, NEW f, NEW m, NEW v \in Nat, NEW s \in Nat, NEW o \in BOOLEAN,
         NEW p, NEW i, Facts(p, i, f, m, v, s, o),
         used["inits"] = 0, used'["inits"] = 0, used'["cuts"] = used["cuts"], used'["sets"] > 0,
         UNCHANGED <<memory, file, history>>
  PROVE  Facts(p, i, f, m, v, s, o)'
<1> USE DEF memory, counters, history, Facts
<1>1. \A n : DealtIn(n)' = DealtIn(n)
  BY DealtStays
<1>2. Registers(p, i, v, s)'
  BY DEF Registers
<1>3. Calendar(p, i)'
  BY DEF Calendar
<1>4. Traffic(p, i, f, v, s)'
  BY DEF Traffic
<1>5. MonthKept(p, i, f, v, s)'
  BY <1>1 DEF MonthKept, Now
<1>6. Cover(p, i, f, v, s)'
  BY DEF Cover, Now, Covers
<1>7. Limit(p, i, m, o)'
  BY DEF Limit, Over
<1>8. DayKept(p, i, f, v)'
  BY DEF DayKept
<1>9. QED
  BY <1>2, <1>3, <1>4, <1>5, <1>6, <1>7, <1>8

LEMMA PowerFacts ==
  ASSUME FlowAssumption, Numbers, NEW f, NEW m, NEW v \in Nat, NEW s \in Nat, NEW o \in BOOLEAN,
         NEW p, NEW i, Facts(p, i, f, m, v, s, o),
         torn' = torn \/ torn' = TRUE, torn' \/ Facts("piece", 2, file, No, v, s, No),
         used["inits"] = 0, used'["inits"] = 0, used'["cuts"] > 0, used'["sets"] = used["sets"],
         to_read_' = 0, comm_read_flow_' = 0, comm_curr_month_flow_' = 0,
         comm_last_day_flow_' = 0, current_day_' = -1, flow_event_reported_' = 0,
         received' = received - to_read_, UNCHANGED <<file, date, dealt, raised>>
  PROVE  Facts("boot", 1, file, No, 0, 0, No)'
<1> USE DEF Facts, Deal_, Load_, Boot_, Started, No, Yes
<1>0. ASSUME ~torn'
      PROVE  /\ received = to_read_ + comm_read_flow_ /\ Saved(file, ReadKey) = comm_read_flow_
             /\ SavedIn(file, Now) = DealtIn(Now)
             /\ \A n \in Months : SavedIn(file, n) = DealtIn(n)
             /\ DayKept("piece", 2, file, v) /\ ~torn
  <2>1. ~torn /\ Facts("piece", 2, file, No, v, s, No)
    BY <1>0, Zenon DEF Numbers
  <2>2. Traffic("piece", 2, file, v, s) /\ MonthKept("piece", 2, file, v, s) /\ DayKept("piece", 2, file, v)
    BY <2>1, Zenon DEF Facts
  <2>3. received = to_read_ + comm_read_flow_ /\ Saved(file, ReadKey) = comm_read_flow_
    BY <2>1, <2>2 DEF Traffic
  <2>4. SavedIn(file, Now) = DealtIn(Now) /\ \A n \in Months : SavedIn(file, n) = DealtIn(n)
    BY <2>1, <2>2 DEF MonthKept
  <2>5. QED
    BY <2>1, <2>2, <2>3, <2>4
<1>1. \A n : DealtIn(n)' = DealtIn(n)
  BY DealtStays
<1>2. Registers("boot", 1, 0, 0)'
  BY DEF Registers
<1>3. Calendar("boot", 1)'
  BY DEF Calendar, Numbers, Date, FlowAssumption
<1>4. Traffic("boot", 1, file, 0, 0)'
  <2>1. SUFFICES ASSUME ~torn'
                 PROVE  received' = Saved(file, ReadKey) /\ Saved(file, ReadKey) = received'
    BY DEF Traffic
  <2>2. QED
    BY <1>0, <2>1 DEF Numbers
<1>5. MonthKept("boot", 1, file, 0, 0)'
  <2>1. SUFFICES ASSUME ~torn' PROVE \A n \in Months : SavedIn(file, n) = DealtIn(n)
    BY <1>1 DEF MonthKept, Now
  <2>2. QED
    BY <1>0, <2>1
<1>6. Cover("boot", 1, file, 0, 0)'
  BY DEF Cover, Now, Covers
<1>7. Limit("boot", 1, No, No)'
  BY DEF Limit, Over
<1>8. DayKept("boot", 1, file, 0)'
  <2>1. SUFFICES ASSUME ~torn', used["sets"] = 0
                 PROVE  (\E c \in Date \union {-1} : Boot(c, file))'
    BY DEF DayKept
  <2>2. current_day_ \in Date /\ current_day_ <= date /\ received - to_read_ = comm_read_flow_
    <3>1. ~torn /\ Facts("piece", 2, file, No, v, s, No)
      BY <1>0, <2>1, Zenon
    <3>2. Calendar("piece", 2)
      BY <3>1, Zenon DEF Facts
    <3>3. QED
      BY <1>0, <2>1, <3>2 DEF Calendar, Numbers
  <2>3. /\ Days(current_day_, file)
        /\ DayKey(current_day_) \in DOMAIN file => file[DayKey(current_day_)] = comm_read_flow_
        /\ DayKey(current_day_ - 1) \in DOMAIN file =>
             file[DayKey(current_day_ - 1)] = comm_read_flow_ - dealt[current_day_]
        /\ date = current_day_ => DayKey(current_day_ - 1) \in DOMAIN file
    BY <1>0, <2>1 DEF DayKept
  <2>4. PICK c : c = current_day_
    OBVIOUS
  <2>5. Boot(c, file)'
    BY <2>2, <2>3, <2>4 DEF Boot, Days
  <2>6. QED
    BY <2>2, <2>4, <2>5
<1>9. QED
  BY <1>2, <1>3, <1>4, <1>5, <1>6, <1>7, <1>8
-----------------------------------------------------------------------------
(* The steps of the thread in a call.                                      *)
LEMMA NumbersStay ==
  ASSUME Numbers, UNCHANGED <<memory, date, history, used>>, IsFile(file')
  PROVE  Numbers'
BY DEF Numbers, memory, counters, history

LEMMA StayingAlike ==
  ASSUME FlowAssumption, UNCHANGED <<memory, file, date, history, used>>,
         NEW p, NEW i, NEW f, NEW m, NEW v, NEW s, NEW o, Facts(p, i, f, m, v, s, o)
  PROVE  Facts(p, i, f, m, v, s, o)'
<1>1. used["inits"] = 0 => Covers(file')
  BY DEF Facts, Cover
<1>2. QED
  BY <1>1, Staying

LEMMA Setting ==
  ASSUME Frames, NEW t \in Threads, NEW v, NEW s, NEW o, NEW c, locals[t] = Locals(v, s, o, c),
         NEW x
  PROVE  /\ Set(t, "value", x) => Holds(t, x, s, o, c)
         /\ Set(t, "sum", x) => Holds(t, v, x, o, c)
         /\ Set(t, "over", x) => Holds(t, v, s, x, c)
         /\ Set(t, "copy", x) => Holds(t, v, s, o, x)
         /\ \A y : locals' = [locals EXCEPT ![t].value = x, ![t].copy = y] => Holds(t, x, s, o, y)
         /\ UNCHANGED locals => Holds(t, v, s, o, c)
         /\ locals' = [locals EXCEPT ![t] = NoLocals] => Holds(t, 0, 0, No, EmptyFile)
<1>1. locals = [u \in Threads |-> locals[u]]
  BY DEF Frames
<1>2. \A n : Set(t, n, x) =>
        locals' = [locals EXCEPT ![t] = [Locals(v, s, o, c) EXCEPT ![n] = x]]
  <2>1. \A n : Set(t, n, x) => locals' = [locals EXCEPT ![t] = [locals[t] EXCEPT ![n] = x]]
    BY DEF Set
  <2>2. QED
    BY <2>1, Zenon
<1>3. Set(t, "value", x) => Holds(t, x, s, o, c)
  <2>1. [Locals(v, s, o, c) EXCEPT !["value"] = x] = Locals(x, s, o, c)
    BY DEF Locals
  <2>2. QED
    BY <1>2, <2>1, Zenon DEF Holds
<1>4. Set(t, "sum", x) => Holds(t, v, x, o, c)
  <2>1. [Locals(v, s, o, c) EXCEPT !["sum"] = x] = Locals(v, x, o, c)
    BY DEF Locals
  <2>2. QED
    BY <1>2, <2>1, Zenon DEF Holds
<1>5. Set(t, "over", x) => Holds(t, v, s, x, c)
  <2>1. [Locals(v, s, o, c) EXCEPT !["over"] = x] = Locals(v, s, x, c)
    BY DEF Locals
  <2>2. QED
    BY <1>2, <2>1, Zenon DEF Holds
<1>6. Set(t, "copy", x) => Holds(t, v, s, o, x)
  <2>1. [Locals(v, s, o, c) EXCEPT !["copy"] = x] = Locals(v, s, o, x)
    BY DEF Locals
  <2>2. QED
    BY <1>2, <2>1, Zenon DEF Holds
<1>7. ASSUME NEW y, locals' = [locals EXCEPT ![t].value = x, ![t].copy = y]
      PROVE  Holds(t, x, s, o, y)
  <2>1. [locals EXCEPT ![t].value = x, ![t].copy = y]
          = [locals EXCEPT ![t] = [[locals[t] EXCEPT !.value = x] EXCEPT !.copy = y]]
    OBVIOUS
  <2>2. [[Locals(v, s, o, c) EXCEPT !.value = x] EXCEPT !.copy = y] = Locals(x, s, o, y)
    <3>1. [Locals(v, s, o, c) EXCEPT !.value = x] = Locals(x, s, o, c)
      BY DEF Locals
    <3>2. [Locals(x, s, o, c) EXCEPT !.copy = y] = Locals(x, s, o, y)
      BY DEF Locals
    <3>3. QED
      BY <3>1, <3>2, Zenon
  <2>3. QED
    BY <1>7, <2>1, <2>2, Zenon DEF Holds
<1>8. UNCHANGED locals => Holds(t, v, s, o, c)
  BY <1>1 DEF Holds
<1>9. locals' = [locals EXCEPT ![t] = NoLocals] => Holds(t, 0, 0, No, EmptyFile)
  <2>1. NoLocals = Locals(0, 0, No, EmptyFile)
    BY DEF NoLocals, Locals, No
  <2>2. QED
    BY <2>1, Zenon DEF Holds
<1>10. QED
  BY <1>3, <1>4, <1>5, <1>6, <1>7, <1>8, <1>9, Zenon

(* A step that completes task i of the plan.                               *)
LEMMA Moving ==
  ASSUME NEW t, NEW p, NEW i, NEW f, NEW m, NEW v, NEW s, NEW o, NEW c,
         Stands(t, p, i, f, m, v, s, o, c), Numbers', NEW x, At(t, x), Done(t),
         x \notin {"mark", "truncate", "write"}, NEW w \in Nat, NEW r \in Nat, NEW b \in BOOLEAN,
         Holds(t, w, r, b, c), file' = file, Facts(p, i + 1, f, No, w, r, b)'
  PROVE  FlowInv'
<1>1. f = file /\ Tail(todo[t]) = Rest(p, i + 1) /\ i + 1 \in 1 .. Size(p) + 1
  BY Places
<1>2. PICK q : q = Rest(p, i + 1)
  OBVIOUS
<1>3. Goes(t, q)
  BY <1>1, <1>2 DEF Done, Goes
<1>4. PICK j : j = i + 1
  OBVIOUS
<1>5. Frames /\ t \in Threads /\ Only(t) /\ p \in Plans /\ IsFile(c) /\ No \in BOOLEAN /\ ~No
  BY Naming DEF Stands
<1>6. q = Rest(p, j) /\ f = file' /\ j \in 1 .. Size(p) + 1 /\ Facts(p, j, f, No, w, r, b)'
  BY <1>1, <1>2, <1>4
<1>7. QED
  <2>1. Leads(q, p, j, f, No, c)
    BY <1>5, <1>6, Zenon DEF Leads
  <2>2. QED
    BY <1>3, <1>5, <1>6, <2>1, Arriving

LEMMA Tasks ==
  ASSUME NEW t, NEW p, NEW i, NEW f, NEW m, NEW v, NEW s, NEW o, NEW c,
         Stands(t, p, i, f, m, v, s, o, c), NEW x, At(t, x), x \notin {"mark", "truncate", "write"}
  PROVE  /\ p \in Plans /\ i \in 1 .. Size(p) /\ Plan(p)[i] = x /\ f = file /\ m = No
         /\ Facts(p, i, f, No, v, s, o)
<1>1. i \in 1 .. Size(p) /\ Plan(p)[i] = x /\ f = file /\ ~m
  BY Places
<1>2. p \in Plans /\ m \in BOOLEAN /\ Facts(p, i, f, m, v, s, o)
  BY DEF Stands
<1>3. m = No
  BY <1>1, <1>2, Naming, Zenon
<1>4. QED
  BY <1>1, <1>2, <1>3, Zenon

LEMMA TaskOf ==
  ASSUME NEW t, NEW p, NEW i, NEW f, NEW m, NEW v, NEW s, NEW o, NEW c,
         Stands(t, p, i, f, m, v, s, o, c)
  PROVE  /\ At(t, "store_piece") => p = "piece" /\ i = 1
         /\ At(t, "copy") => p = "deal" /\ i = 1
         /\ At(t, "clear") => p = "deal" /\ i = 2
         /\ At(t, "add_read") => p = "deal" /\ i = 3
         /\ At(t, "store_read") => p = "deal" /\ i = 4
         /\ At(t, "add_month") => p = "deal" /\ i = 5
         /\ At(t, "store_month") => p = "deal" /\ i \in {6, 9}
         /\ At(t, "limit") => p = "deal" /\ i \in {7, 10}
         /\ At(t, "add_nothing") => p = "deal" /\ i = 8
         /\ At(t, "event") => p = "deal" /\ i = 11
         /\ At(t, "save_month") => (p = "deal" /\ i = 12) \/ (p = "load" /\ i = 6)
         /\ At(t, "save_day") => (p = "deal" /\ i = 13) \/ (p = "load" /\ i = 7)
         /\ At(t, "save_read") => (p = "deal" /\ i = 14) \/ (p = "load" /\ i = 8)
         /\ At(t, "save_write") => (p = "deal" /\ i = 15) \/ (p = "load" /\ i = 9)
         /\ At(t, "check") => p = "deal" /\ i = 16
         /\ At(t, "reset") => (p = "load" /\ i = 1) \/ (p = "boot" /\ i = 4)
         /\ At(t, "get_month") => (p = "load" /\ i = 2) \/ (p = "boot" /\ i = 5)
         /\ At(t, "set_month") => (p = "load" /\ i = 3) \/ (p = "boot" /\ i = 6)
         /\ At(t, "get_day") => (p = "load" /\ i = 4) \/ (p = "boot" /\ i = 7)
         /\ At(t, "set_day") => (p = "load" /\ i = 5) \/ (p = "boot" /\ i = 8)
         /\ At(t, "get_read") => p = "boot" /\ i = 1
         /\ At(t, "set_read") => p = "boot" /\ i = 2
         /\ At(t, "get_write") => p = "boot" /\ i = 3
<1>1. ASSUME NEW x, x \notin {"mark", "truncate", "write"}, At(t, x)
      PROVE  p \in Plans /\ i \in 1 .. Size(p) /\ Plan(p)[i] = x
  BY <1>1, Tasks
<1>2. \A x : x \notin {"mark", "truncate", "write"} /\ At(t, x) =>
        p \in Plans /\ i \in 1 .. Size(p) /\ Plan(p)[i] = x
  BY <1>1
<1>3. QED
  BY <1>2, Lookup
(* A step that only computes a local variable.                             *)
LEMMA Computing ==
  ASSUME FlowAssumption, NEW t, NEW p, NEW i, NEW f, NEW m, NEW v, NEW s, NEW o, NEW c,
         Stands(t, p, i, f, m, v, s, o, c), NEW x, At(t, x), Done(t),
         x \notin {"mark", "truncate", "write"}, NEW w \in Nat, NEW r \in Nat, NEW b \in BOOLEAN,
         Holds(t, w, r, b, c), UNCHANGED <<memory, file, date, history, used>>,
         Facts(p, i + 1, f, No, w, r, b)
  PROVE  FlowInv'
<1>1. PICK j : j = i + 1
  OBVIOUS
<1>2. Facts(p, j, f, No, w, r, b)'
  <2>1. Facts(p, j, f, No, w, r, b)
    BY <1>1
  <2>2. QED
    BY <2>1, StayingAlike
<1>3. Numbers'
  <2>1. Numbers /\ IsFile(file')
    BY DEF Stands, Numbers
  <2>2. QED
    BY <2>1, NumbersStay
<1>4. Facts(p, i + 1, f, No, w, r, b)' /\ file' = file
  BY <1>1, <1>2
<1>5. QED
  BY <1>3, <1>4, Moving

(* A step that prepares new contents g of the file, to be written next.    *)
LEMMA Rewriting ==
  ASSUME FlowAssumption, NEW t, NEW p, NEW i, NEW f, NEW m, NEW v, NEW s, NEW o, NEW c,
         Stands(t, p, i, f, m, v, s, o, c), NEW x, At(t, x), Then(t, <<"truncate", "write">>),
         x \notin {"mark", "truncate", "write"}, NEW w \in Nat, NEW g, IsFile(g),
         Holds(t, w, s, o, g), UNCHANGED <<memory, file, date, history, used>>,
         Facts(p, i + 1, g, No, w, s, o)
  PROVE  FlowInv'
<1>1. Tail(todo[t]) = Rest(p, i + 1) /\ i + 1 \in 1 .. Size(p) + 1
  BY Places
<1>2. PICK j : j = i + 1
  OBVIOUS
<1>3. PICK q : q = <<"truncate", "write">> \o Rest(p, j)
  OBVIOUS
<1>4. Goes(t, q) /\ j \in 1 .. Size(p) + 1
  BY <1>1, <1>2, <1>3 DEF Then, Goes
<1>5. Facts(p, j, g, No, w, s, o)'
  <2>1. Facts(p, j, g, No, w, s, o)
    BY <1>2
  <2>2. QED
    BY <2>1, StayingAlike
<1>6. Numbers'
  <2>1. Numbers /\ IsFile(file')
    BY DEF Stands, Numbers
  <2>2. QED
    BY <2>1, NumbersStay
<1>7. /\ Frames /\ t \in Threads /\ Only(t) /\ p \in Plans /\ No \in BOOLEAN /\ ~No
      /\ s \in Nat /\ o \in BOOLEAN
  BY Naming DEF Stands
<1>8. QED
  <2>1. Leads(q, p, j, g, No, g)
    BY <1>3, <1>7, Zenon DEF Leads
  <2>2. QED
    BY <1>4, <1>5, <1>6, <1>7, <2>1, Arriving

(* What a step may use of the thread in a call.                            *)
LEMMA Having ==
  ASSUME NEW t, NEW p, NEW i, NEW f, NEW m, NEW v, NEW s, NEW o, NEW c,
         Stands(t, p, i, f, m, v, s, o, c)
  PROVE  /\ Numbers /\ Frames /\ t \in Threads /\ v \in Nat /\ s \in Nat /\ o \in BOOLEAN
         /\ IsFile(c) /\ IsFile(f) /\ IsFile(file)
         /\ locals[t] = Locals(v, s, o, c) /\ locals[t].value = v /\ locals[t].sum = s
         /\ locals[t].over = o /\ locals[t].copy = c
         /\ to_read_ \in Nat /\ comm_read_flow_ \in Nat /\ comm_curr_month_flow_ \in Nat
         /\ \A x : At(t, x) /\ x \notin {"mark", "truncate", "write"} =>
              f = file /\ Facts(p, i, f, No, v, s, o)
<1>1. /\ Numbers /\ Frames /\ t \in Threads /\ v \in Nat /\ s \in Nat /\ o \in BOOLEAN
      /\ IsFile(c) /\ IsFile(f) /\ locals[t] = Locals(v, s, o, c)
  BY DEF Stands
<1>2. /\ locals[t].value = v /\ locals[t].sum = s /\ locals[t].over = o /\ locals[t].copy = c
  BY <1>1 DEF Locals
<1>3. /\ to_read_ \in Nat /\ comm_read_flow_ \in Nat /\ comm_curr_month_flow_ \in Nat
      /\ IsFile(file)
  BY <1>1 DEF Numbers
<1>4. \A x : At(t, x) /\ x \notin {"mark", "truncate", "write"} =>
        f = file /\ Facts(p, i, f, No, v, s, o)
  BY Tasks
<1>5. QED
  BY <1>1, <1>2, <1>3, <1>4
LEMMA ComputingSteps ==
  ASSUME FlowAssumption, NEW t, NEW p, NEW i, NEW f, NEW m, NEW v, NEW s, NEW o, NEW c,
         Stands(t, p, i, f, m, v, s, o, c), Copy(t) \/ AddRead(t) \/ AddMonth(t)
  PROVE  FlowInv'
<1>0. /\ Numbers /\ Frames /\ t \in Threads /\ v \in Nat /\ s \in Nat /\ o \in BOOLEAN
      /\ IsFile(f) /\ locals[t] = Locals(v, s, o, c) /\ locals[t].value = v
      /\ to_read_ \in Nat /\ comm_read_flow_ \in Nat /\ comm_curr_month_flow_ \in Nat
      /\ \A x : At(t, x) /\ x \notin {"mark", "truncate", "write"} =>
           f = file /\ Facts(p, i, f, No, v, s, o)
  BY Having
<1>1. CASE Copy(t)
  <2>1. PICK w : w = to_read_
    OBVIOUS
  <2>2. At(t, "copy") /\ Set(t, "value", w) /\ Done(t) /\ UNCHANGED <<memory, file, date, history, used>>
    BY <1>1, <2>1 DEF Copy
  <2>3. p = "deal" /\ i = 1 /\ i + 1 = 2 /\ Facts(p, i, f, No, v, s, o)
    BY <1>0, <2>2, TaskOf
  <2>4. Facts("deal", 2, f, No, to_read_, s, o)
    BY <1>0, <2>3, Adding
  <2>5. Facts(p, i + 1, f, No, w, s, o)
    BY <2>1, <2>3, <2>4
  <2>6. Holds(t, w, s, o, c)
    BY <1>0, <2>2, Setting
  <2>7. QED
    BY <1>0, <2>1, <2>2, <2>5, <2>6, Computing
<1>2. CASE AddRead(t)
  <2>1. PICK w : w = comm_read_flow_ + v
    OBVIOUS
  <2>2. At(t, "add_read") /\ Set(t, "sum", w) /\ Done(t)
        /\ UNCHANGED <<memory, file, date, history, used>>
    BY <1>0, <1>2, <2>1 DEF AddRead
  <2>3. p = "deal" /\ i = 3 /\ i + 1 = 4 /\ Facts(p, i, f, No, v, s, o)
    BY <1>0, <2>2, TaskOf
  <2>4. Facts("deal", 4, f, No, v, comm_read_flow_ + v, o)
    BY <1>0, <2>3, Adding
  <2>5. Facts(p, i + 1, f, No, v, w, o) /\ w \in Nat
    BY <1>0, <2>1, <2>3, <2>4
  <2>6. Holds(t, v, w, o, c)
    BY <1>0, <2>2, Setting
  <2>7. QED
    BY <1>0, <2>2, <2>5, <2>6, Computing
<1>3. CASE At(t, "add_month") /\ AddMonth(t)
  <2>1. PICK w : w = comm_curr_month_flow_ + v
    OBVIOUS
  <2>2. At(t, "add_month") /\ Set(t, "sum", w) /\ Done(t)
        /\ UNCHANGED <<memory, file, date, history, used>>
    BY <1>0, <1>3, <2>1 DEF AddMonth, At
  <2>3. p = "deal" /\ i = 5 /\ i + 1 = 6 /\ Facts(p, i, f, No, v, s, o)
    BY <1>0, <2>2, TaskOf
  <2>4. Facts("deal", 6, f, No, v, comm_curr_month_flow_ + v, o)
    BY <1>0, <2>3, Adding
  <2>5. Facts(p, i + 1, f, No, v, w, o) /\ w \in Nat
    BY <1>0, <2>1, <2>3, <2>4
  <2>6. Holds(t, v, w, o, c)
    BY <1>0, <2>2, Setting
  <2>7. QED
    BY <1>0, <2>2, <2>5, <2>6, Computing
<1>4. CASE At(t, "add_nothing") /\ AddMonth(t)
  <2>1. PICK w : w = comm_curr_month_flow_
    OBVIOUS
  <2>2. At(t, "add_nothing") /\ Set(t, "sum", w) /\ Done(t)
        /\ UNCHANGED <<memory, file, date, history, used>>
    BY <1>4, <2>1 DEF AddMonth, At
  <2>3. p = "deal" /\ i = 8 /\ i + 1 = 9 /\ Facts(p, i, f, No, v, s, o)
    BY <1>0, <2>2, TaskOf
  <2>4. Facts("deal", 9, f, No, v, comm_curr_month_flow_, o)
    BY <1>0, <2>3, Adding
  <2>5. Facts(p, i + 1, f, No, v, w, o) /\ w \in Nat
    BY <1>0, <2>1, <2>3, <2>4
  <2>6. Holds(t, v, w, o, c)
    BY <1>0, <2>2, Setting
  <2>7. QED
    BY <1>0, <2>2, <2>5, <2>6, Computing
<1>5. QED
  BY <1>1, <1>2, <1>3, <1>4 DEF AddMonth
LEMMA MemorySteps ==
  ASSUME FlowAssumption, NEW t, NEW p, NEW i, NEW f, NEW m, NEW v, NEW s, NEW o, NEW c,
         Stands(t, p, i, f, m, v, s, o, c),
         \/ StorePiece(t) \/ Clear(t) \/ StoreRead(t) \/ StoreMonth(t)
         \/ Reset(t) \/ SetRead(t) \/ SetMonth(t) \/ SetDay(t)
  PROVE  FlowInv'
<1>0. /\ Numbers /\ Frames /\ t \in Threads /\ v \in Nat /\ s \in Nat /\ o \in BOOLEAN
      /\ IsFile(f) /\ locals[t] = Locals(v, s, o, c) /\ locals[t].value = v /\ locals[t].sum = s
      /\ \A x : At(t, x) /\ x \notin {"mark", "truncate", "write"} =>
           f = file /\ Facts(p, i, f, No, v, s, o)
  BY Having
<1>1. CASE StorePiece(t)
  <2>1. At(t, "store_piece") /\ Done(t) /\ Set(t, "sum", 0)
    BY <1>1 DEF StorePiece
  <2>2. /\ to_read_' = s /\ received' = received + 1
        /\ UNCHANGED <<counters, file, date, dealt, raised, torn, used>>
    BY <1>0, <1>1 DEF StorePiece
  <2>3. (p = "piece" /\ i = 1 /\ i + 1 = 2) /\ f = file /\ Facts(p, i, f, No, v, s, o)
    BY <1>0, <2>1, TaskOf
  <2>4. Facts("piece", 2, f, No, v, 0, o)'
    BY <1>0, <2>2, <2>3, ReceivingFacts
  <2>5. Facts(p, i + 1, f, No, v, 0, o)'
    BY <2>3, <2>4
  <2>6. Numbers'
    BY <1>0, <2>2, <2>3 DEF Numbers, counters
  <2>7. Holds(t, v, 0, o, c)
    BY <1>0, <2>1, Setting
  <2>8. QED
    BY <1>0, <2>1, <2>2, <2>5, <2>6, <2>7, Moving
<1>2. CASE Clear(t)
  <2>1. At(t, "clear") /\ Done(t) /\ UNCHANGED locals
    BY <1>2 DEF Clear
  <2>2. /\ to_read_' = 0 /\ UNCHANGED <<counters, file, date, history, used>>
    BY <1>0, <1>2 DEF Clear
  <2>3. (p = "deal" /\ i = 2 /\ i + 1 = 3) /\ f = file /\ Facts(p, i, f, No, v, s, o)
    BY <1>0, <2>1, TaskOf
  <2>4. Facts("deal", 3, f, No, v, s, o)'
    BY <1>0, <2>2, <2>3, ClearingFacts
  <2>5. Facts(p, i + 1, f, No, v, s, o)'
    BY <2>3, <2>4
  <2>6. Numbers'
    BY <1>0, <2>2, <2>3 DEF Numbers, counters, history
  <2>7. Holds(t, v, s, o, c)
    BY <1>0, <2>1, Setting
  <2>8. QED
    BY <1>0, <2>1, <2>2, <2>5, <2>6, <2>7, Moving
<1>3. CASE StoreRead(t)
  <2>1. At(t, "store_read") /\ Done(t) /\ UNCHANGED locals
    BY <1>3 DEF StoreRead
  <2>2. /\ comm_read_flow_' = s
        /\ dealt' = [dealt EXCEPT ![current_day_] = dealt[current_day_] + v]
        /\ UNCHANGED <<to_read_, comm_curr_month_flow_, comm_last_day_flow_, current_day_,
                       flow_event_reported_, file, date, raised, received, torn, used>>
    BY <1>0, <1>3 DEF StoreRead
  <2>3. (p = "deal" /\ i = 4 /\ i + 1 = 5) /\ f = file /\ Facts(p, i, f, No, v, s, o)
    BY <1>0, <2>1, TaskOf
  <2>4. Facts("deal", 5, f, No, v, s, o)'
    BY <1>0, <2>2, <2>3, CountingFacts
  <2>5. Facts(p, i + 1, f, No, v, s, o)'
    BY <2>3, <2>4
  <2>6. Numbers'
    <3>1. current_day_ \in Date
      BY <2>3 DEF Facts, Calendar, Started
    <3>2. dealt \in [Date -> Nat] /\ dealt[current_day_] + v \in Nat
      BY <1>0, <3>1 DEF Numbers
    <3>3. dealt' \in [Date -> Nat]
      BY <2>2, <3>1, <3>2
    <3>4. QED
      BY <1>0, <2>2, <2>3, <3>3 DEF Numbers
  <2>7. Holds(t, v, s, o, c)
    BY <1>0, <2>1, Setting
  <2>8. QED
    BY <1>0, <2>1, <2>2, <2>5, <2>6, <2>7, Moving
<1>4. CASE StoreMonth(t)
  <2>1. At(t, "store_month") /\ Done(t) /\ UNCHANGED locals
    BY <1>4 DEF StoreMonth
  <2>2. /\ comm_curr_month_flow_' = s
        /\ UNCHANGED <<to_read_, comm_read_flow_, comm_last_day_flow_, current_day_,
                       flow_event_reported_, file, date, history, used>>
    BY <1>0, <1>4 DEF StoreMonth
  <2>3. (p = "deal" /\ i \in {6, 9}) /\ f = file /\ Facts(p, i, f, No, v, s, o)
    BY <1>0, <2>1, TaskOf
  <2>4. Facts("deal", i + 1, f, No, v, s, o)'
    BY <1>0, <2>2, <2>3, MonthFacts
  <2>5. Facts(p, i + 1, f, No, v, s, o)'
    BY <2>3, <2>4
  <2>6. Numbers'
    BY <1>0, <2>2, <2>3 DEF Numbers, history
  <2>7. Holds(t, v, s, o, c)
    BY <1>0, <2>1, Setting
  <2>8. QED
    BY <1>0, <2>1, <2>2, <2>5, <2>6, <2>7, Moving
<1>5. CASE Reset(t)
  <2>1. At(t, "reset") /\ Done(t) /\ UNCHANGED locals
    BY <1>5 DEF Reset
  <2>2. /\ comm_curr_month_flow_' = 0 /\ comm_last_day_flow_' = comm_read_flow_
        /\ current_day_' = date /\ flow_event_reported_' = 0
        /\ UNCHANGED <<to_read_, comm_read_flow_, file, date, history, used>>
    BY <1>0, <1>5 DEF Reset
  <2>3. ((p = "load" /\ i = 1) \/ (p = "boot" /\ i = 4)) /\ f = file /\ Facts(p, i, f, No, v, s, o)
    BY <1>0, <2>1, TaskOf
  <2>4. Facts(p, i + 1, f, No, v, s, o)'
    BY <1>0, <2>2, <2>3, ResettingFacts
  <2>5. Facts(p, i + 1, f, No, v, s, o)'
    BY <2>3, <2>4
  <2>6. Numbers'
    BY <1>0, <2>2, <2>3 DEF Numbers, history
  <2>7. Holds(t, v, s, o, c)
    BY <1>0, <2>1, Setting
  <2>8. QED
    BY <1>0, <2>1, <2>2, <2>5, <2>6, <2>7, Moving
<1>6. CASE SetRead(t)
  <2>1. At(t, "set_read") /\ Done(t) /\ UNCHANGED locals
    BY <1>6 DEF SetRead
  <2>2. /\ comm_read_flow_' = v
        /\ UNCHANGED <<to_read_, comm_curr_month_flow_, comm_last_day_flow_, current_day_,
                       flow_event_reported_, file, date, history, used>>
    BY <1>0, <1>6 DEF SetRead
  <2>3. (p = "boot" /\ i = 2 /\ i + 1 = 3) /\ f = file /\ Facts(p, i, f, No, v, s, o)
    BY <1>0, <2>1, TaskOf
  <2>4. Facts("boot", 3, f, No, v, s, o)'
    BY <1>0, <2>2, <2>3, TotalFacts
  <2>5. Facts(p, i + 1, f, No, v, s, o)'
    BY <2>3, <2>4
  <2>6. Numbers'
    BY <1>0, <2>2, <2>3 DEF Numbers, history
  <2>7. Holds(t, v, s, o, c)
    BY <1>0, <2>1, Setting
  <2>8. QED
    BY <1>0, <2>1, <2>2, <2>5, <2>6, <2>7, Moving
<1>7. CASE SetMonth(t)
  <2>1. At(t, "set_month") /\ Done(t) /\ UNCHANGED locals
    BY <1>7 DEF SetMonth
  <2>2. /\ comm_curr_month_flow_' = v
        /\ UNCHANGED <<to_read_, comm_read_flow_, comm_last_day_flow_, current_day_,
                       flow_event_reported_, file, date, history, used>>
    BY <1>0, <1>7 DEF SetMonth
  <2>3. ((p = "load" /\ i = 3) \/ (p = "boot" /\ i = 6)) /\ f = file /\ Facts(p, i, f, No, v, s, o)
    BY <1>0, <2>1, TaskOf
  <2>4. Facts(p, i + 1, f, No, v, s, o)'
    BY <1>0, <2>2, <2>3, MonthLoadedFacts
  <2>5. Facts(p, i + 1, f, No, v, s, o)'
    BY <2>3, <2>4
  <2>6. Numbers'
    BY <1>0, <2>2, <2>3 DEF Numbers, history
  <2>7. Holds(t, v, s, o, c)
    BY <1>0, <2>1, Setting
  <2>8. QED
    BY <1>0, <2>1, <2>2, <2>5, <2>6, <2>7, Moving
<1>8. CASE SetDay(t)
  <2>1. At(t, "set_day") /\ Done(t) /\ Set(t, "value", 0)
    BY <1>8 DEF SetDay
  <2>2. /\ comm_last_day_flow_' = v
        /\ UNCHANGED <<to_read_, comm_read_flow_, comm_curr_month_flow_, current_day_,
                       flow_event_reported_, file, date, history, used>>
    BY <1>0, <1>8 DEF SetDay
  <2>3. ((p = "load" /\ i = 5) \/ (p = "boot" /\ i = 8)) /\ f = file /\ Facts(p, i, f, No, v, s, o)
    BY <1>0, <2>1, TaskOf
  <2>4. Facts(p, i + 1, f, No, 0, s, o)'
    BY <1>0, <2>2, <2>3, DayLoadedFacts
  <2>5. Facts(p, i + 1, f, No, 0, s, o)'
    BY <2>3, <2>4
  <2>6. Numbers'
    BY <1>0, <2>2, <2>3 DEF Numbers, history
  <2>7. Holds(t, 0, s, o, c)
    BY <1>0, <2>1, Setting
  <2>8. QED
    BY <1>0, <2>1, <2>2, <2>5, <2>6, <2>7, Moving
<1>9. QED
  BY <1>1, <1>2, <1>3, <1>4, <1>5, <1>6, <1>7, <1>8
LEMMA LimitSteps ==
  ASSUME FlowAssumption, NEW t, NEW p, NEW i, NEW f, NEW m, NEW v, NEW s, NEW o, NEW c,
         Stands(t, p, i, f, m, v, s, o, c), TestLimit(t) \/ Mark(t) \/ RaiseEvent(t)
  PROVE  FlowInv'
<1>0. /\ Numbers /\ Frames /\ t \in Threads /\ v \in Nat /\ s \in Nat /\ o \in BOOLEAN
      /\ IsFile(f) /\ IsFile(c) /\ locals[t] = Locals(v, s, o, c) /\ locals[t].over = o
      /\ \A x : At(t, x) /\ x \notin {"mark", "truncate", "write"} =>
           f = file /\ Facts(p, i, f, No, v, s, o)
  BY Having
<1>00. Only(t) /\ p \in Plans /\ i \in 1 .. Size(p) + 1 /\ m \in BOOLEAN
       /\ Facts(p, i, f, m, v, s, o) /\ No \in BOOLEAN /\ Yes \in BOOLEAN /\ ~No /\ Yes
  BY Naming DEF Stands
<1>1. CASE TestLimit(t)
  <2>1. At(t, "limit") /\ UNCHANGED <<memory, file, date, history, used>> /\ UNCHANGED locals
        /\ (~OverLimit => Done(t)) /\ (OverLimit => Then(t, <<"mark">>))
    BY <1>1 DEF TestLimit
  <2>2. p = "deal" /\ i \in {7, 10} /\ f = file /\ Facts("deal", i, f, No, v, s, o)
    BY <1>0, <2>1, TaskOf
  <2>3. /\ ~OverLimit => Facts("deal", i + 1, f, No, v, s, o)
        /\ OverLimit => Facts("deal", i + 1, f, Yes, v, s, o)
    BY <1>0, <2>2, Testing
  <2>4. Holds(t, v, s, o, c)
    BY <1>0, <2>1, Setting
  <2>5. CASE ~OverLimit
    <3>1. Done(t) /\ Facts(p, i + 1, f, No, v, s, o)
      BY <2>1, <2>2, <2>3, <2>5
    <3>2. QED
      BY <1>0, <2>1, <2>4, <3>1, Computing
  <2>6. CASE OverLimit
    <3>1. PICK j : j = i + 1
      OBVIOUS
    <3>2. PICK q : q = <<"mark">> \o Rest(p, j)
      OBVIOUS
    <3>3. Goes(t, q) /\ j \in 1 .. Size(p) + 1
      <4>1. Tail(todo[t]) = Rest(p, i + 1) /\ i + 1 \in 1 .. Size(p) + 1
        BY <2>1, Places
      <4>2. QED
        BY <2>1, <2>6, <3>1, <3>2, <4>1 DEF Then, Goes
    <3>4. Facts(p, j, f, Yes, v, s, o)
      BY <2>2, <2>3, <2>6, <3>1
    <3>5. Facts(p, j, f, Yes, v, s, o)'
      BY <2>1, <3>4, StayingAlike
    <3>6. Numbers'
      BY <1>0, <2>1, <2>2, NumbersStay
    <3>7. Leads(q, p, j, f, Yes, c)
      BY <1>00, <2>1, <2>2, <3>2, Zenon DEF Leads
    <3>8. QED
      BY <1>0, <1>00, <2>4, <3>3, <3>5, <3>6, <3>7, Arriving
  <2>7. QED
    BY <2>5, <2>6
<1>2. CASE Mark(t)
  <2>1. At(t, "mark") /\ Done(t) /\ flow_event_reported_' = 1 /\ file' = file
        /\ UNCHANGED <<to_read_, comm_read_flow_, comm_curr_month_flow_, comm_last_day_flow_,
                       current_day_, file, date, history, used>>
    BY <1>2 DEF Mark
  <2>2. Set(t, "over", Yes)
    BY <1>2 DEF Mark, Yes
  <2>3. m /\ f = file /\ Tail(todo[t]) = Rest(p, i)
    BY <2>1, Places
  <2>4. Facts(p, i, f, Yes, v, s, o)
    <3>1. m = Yes
      BY <1>00, <2>3, Naming
    <3>2. QED
      BY <1>00, <3>1
  <2>5. Facts(p, i, f, No, v, s, Yes)'
    BY <1>0, <2>1, <2>3, <2>4, MarkingFacts
  <2>6. PICK q : q = Rest(p, i)
    OBVIOUS
  <2>7. Goes(t, q)
    BY <2>1, <2>3, <2>6 DEF Goes, Done
  <2>8. Leads(q, p, i, f, No, c)
    BY <1>00, <2>1, <2>3, <2>6, Zenon DEF Leads
  <2>9. Numbers'
    BY <1>0, <2>1, <2>3 DEF Numbers, history
  <2>10. Holds(t, v, s, Yes, c)
    BY <1>0, <2>2, Setting
  <2>11. QED
    BY <1>0, <1>00, <2>5, <2>7, <2>8, <2>9, <2>10, Arriving
<1>3. CASE RaiseEvent(t)
  <2>1. At(t, "event") /\ Done(t) /\ UNCHANGED locals
        /\ UNCHANGED <<memory, file, date, dealt, received, torn, used>>
        /\ (o => raised' = [raised EXCEPT ![current_day_] = raised[current_day_] + 1])
        /\ (~o => raised' = raised)
    BY <1>0, <1>3 DEF RaiseEvent
  <2>2. p = "deal" /\ i = 11 /\ i + 1 = 12 /\ f = file /\ Facts("deal", 11, f, No, v, s, o)
    BY <1>0, <2>1, TaskOf
  <2>3. Holds(t, v, s, o, c)
    BY <1>0, <2>1, Setting
  <2>4. CASE o
    <3>1. o = Yes
      BY <1>0, <2>4, Naming
    <3>2. Facts("deal", 11, f, No, v, s, Yes)
      BY <2>2, <3>1
    <3>3. raised' = [raised EXCEPT ![current_day_] = raised[current_day_] + 1]
      BY <2>1, <2>4
    <3>4. Facts("deal", 12, f, No, v, s, Yes)'
      BY <1>0, <2>1, <2>2, <3>2, <3>3, RaisingFacts
    <3>5. Facts(p, i + 1, f, No, v, s, o)'
      BY <2>2, <3>1, <3>4
    <3>6. Numbers'
      <4>1. current_day_ \in Date
        BY <2>2 DEF Facts, Calendar, Started
      <4>2. raised' \in [Date -> Nat]
        BY <1>0, <3>3, <4>1 DEF Numbers
      <4>3. QED
        BY <1>0, <2>1, <2>2, <4>2 DEF Numbers, memory, counters
    <3>7. QED
      BY <1>0, <2>1, <2>3, <3>5, <3>6, Moving
  <2>5. CASE ~o
    <3>1. o = No
      BY <1>0, <2>5, Naming
    <3>2. Facts("deal", 11, f, No, v, s, No)
      BY <2>2, <3>1
    <3>3. Facts("deal", 12, f, No, v, s, No)
      BY <1>0, <3>2, Leaving
    <3>4. Facts(p, i + 1, f, No, v, s, o)
      BY <2>2, <3>1, <3>3
    <3>5. UNCHANGED <<memory, file, date, history, used>>
      BY <2>1, <2>5 DEF history
    <3>6. QED
      BY <1>0, <2>1, <2>3, <3>4, <3>5, Computing
  <2>6. QED
    BY <1>0, <2>4, <2>5
<1>4. QED
  BY <1>1, <1>2, <1>3
LEMMA EmptyIsFile ==
  /\ IsFile(EmptyFile) /\ Covers(EmptyFile)
  /\ \A k : k \notin DOMAIN EmptyFile
<1>1. IsFile(EmptyFile) /\ \A k : k \notin DOMAIN EmptyFile
  BY DEF IsFile, EmptyFile
<1>2. Saved(EmptyFile, ReadKey) = 0
  BY <1>1 DEF Saved
<1>3. QED
  BY <1>1, <1>2, MonthSumEmpty DEF Covers

LEMMA SavingSteps ==
  ASSUME FlowAssumption, NEW t, NEW p, NEW i, NEW f, NEW m, NEW v, NEW s, NEW o, NEW c,
         Stands(t, p, i, f, m, v, s, o, c), Save(t)
  PROVE  FlowInv'
<1>0. /\ Numbers /\ Frames /\ t \in Threads /\ v \in Nat /\ s \in Nat /\ o \in BOOLEAN
      /\ IsFile(f) /\ locals[t] = Locals(v, s, o, c)
      /\ comm_read_flow_ \in Nat /\ comm_curr_month_flow_ \in Nat /\ 0 \in Nat
      /\ \A x : At(t, x) /\ x \notin {"mark", "truncate", "write"} =>
           f = file /\ Facts(p, i, f, No, v, s, o)
  BY Having
<1>00. UNCHANGED <<memory, file, date, history, used>>
  BY DEF Save
<1>1. CASE At(t, "save_month") /\ SaveValue(t, MonthKey(current_day_), comm_curr_month_flow_)
  <2>1. PICK g : g = Put(f, MonthKey(current_day_), comm_curr_month_flow_)
    OBVIOUS
  <2>2. ((p = "deal" /\ i = 12) \/ (p = "load" /\ i = 6)) /\ f = file /\ Facts(p, i, f, No, v, s, o)
    BY <1>0, <1>1, TaskOf
  <2>3. At(t, "save_month") /\ Set(t, "copy", g) /\ Then(t, <<"truncate", "write">>)
    BY <1>1, <2>1, <2>2 DEF SaveValue
  <2>4. Facts(p, i + 1, Put(f, MonthKey(current_day_), comm_curr_month_flow_), No, v, s, o)
    BY <1>0, <2>2, SavingMonth
  <2>5. MonthKey(current_day_) \in Keys
    <3>1. current_day_ \in Date
      BY <2>2 DEF Facts, Calendar, Started
    <3>2. QED
      BY <1>0, <3>1, FileKeys
  <2>6. IsFile(g) /\ Facts(p, i + 1, g, No, v, s, o)
    BY <1>0, <2>1, <2>4, <2>5, PutIsFile
  <2>7. Holds(t, v, s, o, g)
    BY <1>0, <2>3, Setting
  <2>8. QED
    BY <1>0, <1>00, <2>3, <2>6, <2>7, Rewriting
<1>2. CASE At(t, "save_day") /\ SaveValue(t, DayKey(current_day_), comm_read_flow_)
  <2>1. PICK g : g = Put(f, DayKey(current_day_), comm_read_flow_)
    OBVIOUS
  <2>2. ((p = "deal" /\ i = 13) \/ (p = "load" /\ i = 7)) /\ f = file /\ Facts(p, i, f, No, v, s, o)
    BY <1>0, <1>2, TaskOf
  <2>3. At(t, "save_day") /\ Set(t, "copy", g) /\ Then(t, <<"truncate", "write">>)
    BY <1>2, <2>1, <2>2 DEF SaveValue
  <2>4. Facts(p, i + 1, Put(f, DayKey(current_day_), comm_read_flow_), No, v, s, o)
    BY <1>0, <2>2, SavingDay
  <2>5. DayKey(current_day_) \in Keys
    <3>1. current_day_ \in Date
      BY <2>2 DEF Facts, Calendar, Started
    <3>2. QED
      BY <1>0, <3>1, FileKeys
  <2>6. IsFile(g) /\ Facts(p, i + 1, g, No, v, s, o)
    BY <1>0, <2>1, <2>4, <2>5, PutIsFile
  <2>7. Holds(t, v, s, o, g)
    BY <1>0, <2>3, Setting
  <2>8. QED
    BY <1>0, <1>00, <2>3, <2>6, <2>7, Rewriting
<1>3. CASE At(t, "save_read") /\ SaveValue(t, ReadKey, comm_read_flow_)
  <2>1. PICK g : g = Put(f, ReadKey, comm_read_flow_)
    OBVIOUS
  <2>2. ((p = "deal" /\ i = 14) \/ (p = "load" /\ i = 8)) /\ f = file /\ Facts(p, i, f, No, v, s, o)
    BY <1>0, <1>3, TaskOf
  <2>3. At(t, "save_read") /\ Set(t, "copy", g) /\ Then(t, <<"truncate", "write">>)
    BY <1>3, <2>1, <2>2 DEF SaveValue
  <2>4. Facts(p, i + 1, Put(f, ReadKey, comm_read_flow_), No, v, s, o)
    BY <1>0, <2>2, SavingRead
  <2>5. ReadKey \in Keys
    <3>1. current_day_ \in Date
      BY <2>2 DEF Facts, Calendar, Started
    <3>2. QED
      BY <1>0, <3>1, FileKeys
  <2>6. IsFile(g) /\ Facts(p, i + 1, g, No, v, s, o)
    BY <1>0, <2>1, <2>4, <2>5, PutIsFile
  <2>7. Holds(t, v, s, o, g)
    BY <1>0, <2>3, Setting
  <2>8. QED
    BY <1>0, <1>00, <2>3, <2>6, <2>7, Rewriting
<1>4. CASE At(t, "save_write") /\ SaveValue(t, WriteKey, 0)
  <2>1. PICK g : g = Put(f, WriteKey, 0)
    OBVIOUS
  <2>2. ((p = "deal" /\ i = 15) \/ (p = "load" /\ i = 9)) /\ f = file /\ Facts(p, i, f, No, v, s, o)
    BY <1>0, <1>4, TaskOf
  <2>3. At(t, "save_write") /\ Set(t, "copy", g) /\ Then(t, <<"truncate", "write">>)
    BY <1>4, <2>1, <2>2 DEF SaveValue
  <2>4. Facts(p, i + 1, Put(f, WriteKey, 0), No, v, s, o)
    BY <1>0, <2>2, SavingWrite
  <2>5. WriteKey \in Keys
    <3>1. current_day_ \in Date
      BY <2>2 DEF Facts, Calendar, Started
    <3>2. QED
      BY <1>0, <3>1, FileKeys
  <2>6. IsFile(g) /\ Facts(p, i + 1, g, No, v, s, o)
    BY <1>0, <2>1, <2>4, <2>5, PutIsFile
  <2>7. Holds(t, v, s, o, g)
    BY <1>0, <2>3, Setting
  <2>8. QED
    BY <1>0, <1>00, <2>3, <2>6, <2>7, Rewriting
<1>5. QED
  BY <1>1, <1>2, <1>3, <1>4 DEF Save

LEMMA GettingSteps ==
  ASSUME FlowAssumption, NEW t, NEW p, NEW i, NEW f, NEW m, NEW v, NEW s, NEW o, NEW c,
         Stands(t, p, i, f, m, v, s, o, c), Get(t)
  PROVE  FlowInv'
<1>0. /\ Numbers /\ Frames /\ t \in Threads /\ v \in Nat /\ s \in Nat /\ o \in BOOLEAN
      /\ IsFile(f) /\ locals[t] = Locals(v, s, o, c)
      /\ comm_read_flow_ \in Nat /\ 0 \in Nat
      /\ \A x : At(t, x) /\ x \notin {"mark", "truncate", "write"} =>
           f = file /\ Facts(p, i, f, No, v, s, o)
  BY Having
<1>00. UNCHANGED <<memory, file, date, history, used>>
  BY DEF Get
(* What is common to the four values, given what the load says of each.    *)
<1>1. ASSUME NEW x, x \notin {"mark", "truncate", "write"}, At(t, x), NEW k \in Keys, NEW d \in Nat,
             GetOrSave(t, k, d),
             k \in DOMAIN f => Facts(p, i + 1, f, No, f[k], s, o),
             k \notin DOMAIN f => Facts(p, i + 1, Put(f, k, d), No, d, s, o)
      PROVE  FlowInv'
  <2>1. f = file
    BY <1>0, <1>1
  <2>2. CASE k \in DOMAIN f
    <3>1. PICK w : w = f[k]
      OBVIOUS
    <3>2. Set(t, "value", w) /\ Done(t)
      BY <1>1, <2>1, <2>2, <3>1 DEF GetOrSave
    <3>3. w \in Nat /\ Facts(p, i + 1, f, No, w, s, o)
      BY <1>0, <1>1, <2>2, <3>1 DEF IsFile
    <3>4. Holds(t, w, s, o, c)
      BY <1>0, <3>2, Setting
    <3>5. QED
      BY <1>0, <1>00, <1>1, <3>2, <3>3, <3>4, Computing
  <2>3. CASE k \notin DOMAIN f
    <3>1. PICK g : g = Put(f, k, d)
      OBVIOUS
    <3>2. locals' = [locals EXCEPT ![t].value = d, ![t].copy = g]
          /\ Then(t, <<"truncate", "write">>)
      BY <1>1, <2>1, <2>3, <3>1 DEF GetOrSave
    <3>3. IsFile(g) /\ Facts(p, i + 1, g, No, d, s, o)
      BY <1>0, <1>1, <2>3, <3>1, PutIsFile
    <3>4. Holds(t, d, s, o, g)
      BY <1>0, <3>2, Setting
    <3>5. QED
      BY <1>0, <1>00, <1>1, <3>2, <3>3, <3>4, Rewriting
  <2>4. QED
    BY <2>2, <2>3
<1>2. CASE At(t, "get_read") /\ GetOrSave(t, ReadKey, 0)
  <2>1. PICK k, d : k = ReadKey /\ d = 0
    OBVIOUS
  <2>2. (p = "boot" /\ i = 1 /\ i + 1 = 2) /\ f = file /\ Facts(p, i, f, No, v, s, o)
    BY <1>0, <1>2, TaskOf
  <2>3. IF ReadKey \in DOMAIN f
          THEN Facts(p, i + 1, f, No, f[ReadKey], s, o)
          ELSE Facts(p, i + 1, Put(f, ReadKey, 0), No, 0, s, o)
    BY <1>0, <2>2, GettingRead
  <2>4. /\ k \in DOMAIN f => Facts(p, i + 1, f, No, f[k], s, o)
        /\ k \notin DOMAIN f => Facts(p, i + 1, Put(f, k, d), No, d, s, o)
    BY <2>1, <2>3
  <2>5. k \in Keys /\ d \in Nat
    BY <1>0, <2>1, FileKeys
  <2>6. At(t, "get_read") /\ GetOrSave(t, k, d) /\ "get_read" \notin {"mark", "truncate", "write"}
    BY <1>2, <2>1
  <2>7. QED
    BY <1>1, <2>4, <2>5, <2>6
<1>3. CASE At(t, "get_write") /\ GetOrSave(t, WriteKey, 0)
  <2>1. PICK k, d : k = WriteKey /\ d = 0
    OBVIOUS
  <2>2. (p = "boot" /\ i = 3 /\ i + 1 = 4) /\ f = file /\ Facts(p, i, f, No, v, s, o)
    BY <1>0, <1>3, TaskOf
  <2>3. IF WriteKey \in DOMAIN f
          THEN Facts(p, i + 1, f, No, f[WriteKey], s, o)
          ELSE Facts(p, i + 1, Put(f, WriteKey, 0), No, 0, s, o)
    BY <1>0, <2>2, GettingWrite
  <2>4. /\ k \in DOMAIN f => Facts(p, i + 1, f, No, f[k], s, o)
        /\ k \notin DOMAIN f => Facts(p, i + 1, Put(f, k, d), No, d, s, o)
    BY <2>1, <2>3
  <2>5. k \in Keys /\ d \in Nat
    BY <1>0, <2>1, FileKeys
  <2>6. At(t, "get_write") /\ GetOrSave(t, k, d) /\ "get_write" \notin {"mark", "truncate", "write"}
    BY <1>3, <2>1
  <2>7. QED
    BY <1>1, <2>4, <2>5, <2>6
<1>4. CASE At(t, "get_month") /\ GetOrSave(t, MonthKey(current_day_), 0)
  <2>1. PICK k, d : k = MonthKey(current_day_) /\ d = 0
    OBVIOUS
  <2>2. ((p = "load" /\ i = 2) \/ (p = "boot" /\ i = 5)) /\ f = file /\ Facts(p, i, f, No, v, s, o)
    BY <1>0, <1>4, TaskOf
  <2>3. IF MonthKey(current_day_) \in DOMAIN f
          THEN Facts(p, i + 1, f, No, f[MonthKey(current_day_)], s, o)
          ELSE Facts(p, i + 1, Put(f, MonthKey(current_day_), 0), No, 0, s, o)
    BY <1>0, <2>2, GettingMonth
  <2>4. /\ k \in DOMAIN f => Facts(p, i + 1, f, No, f[k], s, o)
        /\ k \notin DOMAIN f => Facts(p, i + 1, Put(f, k, d), No, d, s, o)
    BY <2>1, <2>3
  <2>5. k \in Keys /\ d \in Nat
    <3>1. current_day_ \in Date
      BY <2>2 DEF Facts, Calendar, Started
    <3>2. QED
      BY <1>0, <2>1, <3>1, FileKeys
  <2>6. At(t, "get_month") /\ GetOrSave(t, k, d) /\ "get_month" \notin {"mark", "truncate", "write"}
    BY <1>4, <2>1
  <2>7. QED
    BY <1>1, <2>4, <2>5, <2>6
<1>5. CASE At(t, "get_day") /\ GetOrSave(t, DayKey(date - 1), comm_read_flow_)
  <2>1. PICK k, d : k = DayKey(date - 1) /\ d = comm_read_flow_
    OBVIOUS
  <2>2. ((p = "load" /\ i = 4) \/ (p = "boot" /\ i = 7)) /\ f = file /\ Facts(p, i, f, No, v, s, o)
    BY <1>0, <1>5, TaskOf
  <2>3. IF DayKey(date - 1) \in DOMAIN f
          THEN Facts(p, i + 1, f, No, f[DayKey(date - 1)], s, o)
          ELSE Facts(p, i + 1, Put(f, DayKey(date - 1), comm_read_flow_), No, comm_read_flow_, s, o)
    BY <1>0, <2>2, GettingDay
  <2>4. /\ k \in DOMAIN f => Facts(p, i + 1, f, No, f[k], s, o)
        /\ k \notin DOMAIN f => Facts(p, i + 1, Put(f, k, d), No, d, s, o)
    BY <2>1, <2>3
  <2>5. k \in Keys /\ d \in Nat
    BY <1>0, <2>1, FileKeys
  <2>6. At(t, "get_day") /\ GetOrSave(t, k, d) /\ "get_day" \notin {"mark", "truncate", "write"}
    BY <1>5, <2>1
  <2>7. QED
    BY <1>1, <2>4, <2>5, <2>6
<1>6. QED
  BY <1>2, <1>3, <1>4, <1>5 DEF Get

LEMMA WritingSteps ==
  ASSUME FlowAssumption, NEW t, NEW p, NEW i, NEW f, NEW m, NEW v, NEW s, NEW o, NEW c,
         Stands(t, p, i, f, m, v, s, o, c), Truncate(t) \/ Write(t)
  PROVE  FlowInv'
<1>0. /\ Numbers /\ Frames /\ t \in Threads /\ v \in Nat /\ s \in Nat /\ o \in BOOLEAN
      /\ IsFile(f) /\ IsFile(c) /\ locals[t] = Locals(v, s, o, c) /\ locals[t].copy = c
  BY Having
<1>00. Only(t) /\ p \in Plans /\ i \in 1 .. Size(p) + 1 /\ m \in BOOLEAN
       /\ Facts(p, i, f, m, v, s, o)
  BY DEF Stands
<1>1. CASE Truncate(t)
  <2>1. At(t, "truncate") /\ Done(t) /\ file' = EmptyFile /\ UNCHANGED locals
        /\ UNCHANGED <<memory, date, history, used>>
    BY <1>1 DEF Truncate
  <2>2. f = c /\ ~m /\ Tail(todo[t]) = <<"write">> \o Rest(p, i)
    BY <2>1, Places
  <2>3. PICK q : q = <<"write">> \o Rest(p, i)
    OBVIOUS
  <2>4. Goes(t, q)
    BY <2>1, <2>2, <2>3 DEF Goes, Done
  <2>5. Leads(q, p, i, f, m, c)
    BY <2>1, <2>2, <2>3, Zenon DEF Leads
  <2>6. IsFile(file') /\ Covers(file')
    BY <2>1, EmptyIsFile
  <2>7. Facts(p, i, f, m, v, s, o)'
    BY <1>00, <2>1, <2>6, Staying
  <2>8. Numbers'
    BY <1>0, <2>1, <2>6, NumbersStay
  <2>9. Holds(t, v, s, o, c)
    BY <1>0, <2>1, Setting
  <2>10. QED
    BY <1>0, <1>00, <2>4, <2>5, <2>7, <2>8, <2>9, Arriving
<1>2. CASE Write(t)
  <2>1. At(t, "write") /\ Done(t) /\ file' = c /\ Set(t, "copy", EmptyFile)
        /\ UNCHANGED <<memory, date, history, used>>
    BY <1>0, <1>2 DEF Write
  <2>2. f = c /\ ~m /\ Tail(todo[t]) = Rest(p, i)
    BY <2>1, Places
  <2>3. PICK q : q = Rest(p, i)
    OBVIOUS
  <2>4. Goes(t, q)
    BY <2>1, <2>2, <2>3 DEF Goes, Done
  <2>5. Leads(q, p, i, f, m, EmptyFile)
    BY <2>1, <2>2, <2>3, Zenon DEF Leads
  <2>6. IsFile(file') /\ (used["inits"] = 0 => Covers(file'))
    <3>1. Cover(p, i, f, v, s)
      BY <1>00 DEF Facts
    <3>2. used["inits"] = 0 => Covers(f)
      BY <3>1 DEF Cover
    <3>3. QED
      BY <1>0, <2>1, <2>2, <3>2
  <2>7. Facts(p, i, f, m, v, s, o)'
    BY <1>00, <2>1, <2>6, Staying
  <2>8. Numbers'
    BY <1>0, <2>1, <2>6, NumbersStay
  <2>9. PICK e : e = EmptyFile
    OBVIOUS
  <2>10. Set(t, "copy", e) /\ IsFile(e) /\ Leads(q, p, i, f, m, e)
    BY <2>1, <2>5, <2>9, EmptyIsFile
  <2>11. Holds(t, v, s, o, e)
    BY <1>0, <2>10, Setting
  <2>12. QED
    BY <1>0, <1>00, <2>4, <2>7, <2>8, <2>10, <2>11, Arriving
<1>3. QED
  BY <1>1, <1>2
LEMMA CheckingSteps ==
  ASSUME FlowAssumption, NEW t, NEW p, NEW i, NEW f, NEW m, NEW v, NEW s, NEW o, NEW c,
         Stands(t, p, i, f, m, v, s, o, c), Check(t)
  PROVE  FlowInv'
<1>0. /\ Numbers /\ Frames /\ t \in Threads /\ v \in Nat /\ s \in Nat /\ o \in BOOLEAN
      /\ IsFile(f) /\ locals[t] = Locals(v, s, o, c)
      /\ \A x : At(t, x) /\ x \notin {"mark", "truncate", "write"} =>
           f = file /\ Facts(p, i, f, No, v, s, o)
  BY Having
<1>00. Only(t) /\ No \in BOOLEAN /\ ~No
  BY Naming DEF Stands
<1>1. /\ At(t, "check") /\ locals' = [locals EXCEPT ![t] = NoLocals]
      /\ UNCHANGED <<memory, file, date, history, used>>
      /\ date # current_day_ => Then(t, LoadTasks \o SaveTasks)
      /\ date = current_day_ => Done(t)
  BY DEF Check
<1>2. p = "deal" /\ i = 16 /\ i + 1 = 17 /\ f = file /\ Facts("deal", 16, f, No, v, s, o)
  BY <1>0, <1>1, TaskOf
<1>3. Tail(todo[t]) = Rest("deal", 17)
  <2>1. Tail(todo[t]) = Rest(p, i + 1)
    BY <1>1, Places
  <2>2. QED
    BY <1>2, <2>1
<1>4. Size("deal") = 16 /\ Rest("deal", 17) = <<>> /\ "deal" \in Plans /\ "load" \in Plans
      /\ Size("load") = 9 /\ Rest("load", 1) = Plan("load")
  <2>1. "deal" \in Plans /\ "load" \in Plans /\ Size("deal") = 16 /\ Size("load") = 9
    BY DEF Plans, Size
  <2>2. Rest("deal", Size("deal") + 1) = <<>> /\ Rest("load", 1) = Plan("load")
    BY <2>1, RestIs
  <2>3. QED
    BY <2>1, <2>2
<1>5. IF date # current_day_ THEN Facts("load", 1, f, No, 0, 0, No)
                             ELSE Facts("deal", 17, f, No, 0, 0, No)
  BY <1>0, <1>2, Leaving
<1>6. PICK e : e = EmptyFile
  OBVIOUS
<1>7. IsFile(e) /\ Holds(t, 0, 0, No, e)
  BY <1>0, <1>1, <1>6, EmptyIsFile, Setting
<1>8. Numbers'
  BY <1>0, <1>1, <1>2, NumbersStay
<1>9. CASE date # current_day_
  <2>1. PICK q : q = Rest("load", 1)
    OBVIOUS
  <2>2. Goes(t, q)
    <3>1. Plan("load") \in Seq(Task_)
      BY <1>4, PlanIsSeq
    <3>2. Plan("load") \o <<>> = Plan("load")
      BY <3>1, ConcatEmptySeq
    <3>3. Plan("load") = LoadTasks \o SaveTasks
      BY DEF Plan
    <3>4. todo' = [todo EXCEPT ![t] = (LoadTasks \o SaveTasks) \o Tail(todo[t])]
      BY <1>1, <1>9 DEF Then
    <3>5. (LoadTasks \o SaveTasks) \o Tail(todo[t]) = q
      BY <1>3, <1>4, <2>1, <3>2, <3>3, Zenon
    <3>6. QED
      BY <3>4, <3>5, Zenon DEF Goes
  <2>3. Leads(q, "load", 1, f, No, e)
    BY <1>00, <1>1, <1>2, <2>1, Zenon DEF Leads
  <2>4. Facts("load", 1, f, No, 0, 0, No)
    BY <1>5, <1>9
  <2>5. Facts("load", 1, f, No, 0, 0, No)'
    BY <1>1, <2>4, StayingAlike
  <2>6. 1 \in 1 .. Size("load") + 1 /\ 0 \in Nat
    BY <1>4
  <2>7. QED
    BY <1>0, <1>00, <1>4, <1>7, <1>8, <2>2, <2>3, <2>5, <2>6, Arriving
<1>10. CASE date = current_day_
  <2>1. PICK q : q = Rest("deal", 17)
    OBVIOUS
  <2>2. Goes(t, q)
    BY <1>1, <1>3, <1>10, <2>1 DEF Done, Goes
  <2>3. Leads(q, "deal", 17, f, No, e)
    BY <1>00, <1>1, <1>2, <2>1, Zenon DEF Leads
  <2>4. Facts("deal", 17, f, No, 0, 0, No)
    BY <1>5, <1>10
  <2>5. Facts("deal", 17, f, No, 0, 0, No)'
    BY <1>1, <2>4, StayingAlike
  <2>6. 17 \in 1 .. Size("deal") + 1 /\ 0 \in Nat
    BY <1>4
  <2>7. QED
    BY <1>0, <1>00, <1>4, <1>7, <1>8, <2>2, <2>3, <2>5, <2>6, Arriving
<1>11. QED
  BY <1>9, <1>10

(* Every step of a call.                                                   *)
LEMMA ThreadSteps ==
  ASSUME FlowAssumption, FlowInv, NEW u \in Threads, Step(u)
  PROVE  FlowInv'
<1>1. PICK t, p, i, f, m, v, s, o, c : Stands(t, p, i, f, m, v, s, o, c)
  BY Standing
<1>2. u = t
  <2>1. \E x : At(u, x)
    BY DEF Step, StorePiece, Copy, Clear, AddRead, StoreRead, AddMonth, StoreMonth, TestLimit,
           Mark, RaiseEvent, Save, Truncate, Write, Check, Reset, Get, SetRead, SetMonth, SetDay
  <2>2. QED
    BY <1>1, <2>1, AtIsHere
<1>3. CASE Copy(t) \/ AddRead(t) \/ AddMonth(t)
  BY <1>1, <1>3, ComputingSteps
<1>4. CASE \/ StorePiece(t) \/ Clear(t) \/ StoreRead(t) \/ StoreMonth(t)
           \/ Reset(t) \/ SetRead(t) \/ SetMonth(t) \/ SetDay(t)
  BY <1>1, <1>4, MemorySteps
<1>5. CASE TestLimit(t) \/ Mark(t) \/ RaiseEvent(t)
  BY <1>1, <1>5, LimitSteps
<1>6. CASE Save(t)
  BY <1>1, <1>6, SavingSteps
<1>7. CASE Truncate(t) \/ Write(t)
  BY <1>1, <1>7, WritingSteps
<1>8. CASE Get(t)
  BY <1>1, <1>8, GettingSteps
<1>9. CASE Check(t)
  BY <1>1, <1>9, CheckingSteps
<1>10. QED
  BY <1>2, <1>3, <1>4, <1>5, <1>6, <1>7, <1>8, <1>9, Zenon DEF Step
-----------------------------------------------------------------------------
(* Between calls any thread may be taken for the one whose call is over.   *)
LEMMA AtRest ==
  ASSUME FlowAssumption, FlowInv, Idle, NEW u \in Threads
  PROVE  \E v, s, c : /\ Stands(u, "piece", 2, file, No, v, s, No, c)
                      /\ \A w \in Nat, r \in Nat : Facts("piece", 2, file, No, w, r, No)
<1>1. PICK t, p, i, f, m, v, s, o, c : Stands(t, p, i, f, m, v, s, o, c)
  BY Standing
<1>2. /\ Numbers /\ Frames /\ t \in Threads /\ p \in Plans /\ v \in Nat /\ s \in Nat
      /\ o \in BOOLEAN /\ locals[t] = Locals(v, s, o, c) /\ Only(t) /\ Facts(p, i, f, m, v, s, o)
  BY <1>1 DEF Stands
<1>3. todo[t] = <<>> /\ todo[u] = <<>>
  BY <1>2 DEF Idle
<1>4. i = Size(p) + 1 /\ f = file
  BY <1>1, <1>3, Places
<1>5. Facts(p, Size(p) + 1, file, m, v, s, o)
  BY <1>2, <1>4
<1>6. ~o /\ \A w \in Nat, r \in Nat : Facts("piece", 2, file, No, w, r, No)
  BY <1>2, <1>5, Resting
<1>7. \A x \in Threads : ~locals[x].over
  BY <1>2, <1>6 DEF Only, Locals
<1>8. Only(u)
  BY <1>7 DEF Only, Idle
<1>9. PICK w, r, b, g : w = locals[u].value /\ r = locals[u].sum /\ b = locals[u].over
                        /\ g = locals[u].copy
  OBVIOUS
<1>10. IsLocals(locals[u])
  BY <1>2 DEF Frames
<1>11. w \in Nat /\ r \in Nat /\ b \in BOOLEAN /\ IsFile(g) /\ locals[u] = Locals(w, r, b, g)
  BY <1>9, <1>10 DEF IsLocals
<1>12. b = No
  BY <1>7, <1>9, <1>11, Naming
<1>13. "piece" \in Plans /\ Size("piece") = 1 /\ 2 \in 1 .. Size("piece") + 1
       /\ Rest("piece", 2) = <<>>
  <2>1. "piece" \in Plans /\ Size("piece") = 1
    BY DEF Plans, Size
  <2>2. Rest("piece", Size("piece") + 1) = <<>>
    BY <2>1, RestIs
  <2>3. QED
    BY <2>1, <2>2
<1>14. Place(u, "piece", 2, file, No)
  BY <1>3, <1>13, Naming DEF Place
<1>15. IsFile(file) /\ No \in BOOLEAN
  BY <1>2, Naming DEF Numbers
<1>16. Facts("piece", 2, file, No, w, r, No) /\ locals[u] = Locals(w, r, No, g)
  BY <1>6, <1>11, <1>12
<1>17. Stands(u, "piece", 2, file, No, w, r, No, g)
  BY <1>2, <1>8, <1>11, <1>13, <1>14, <1>15, <1>16 DEF Stands
<1>18. QED
  BY <1>6, <1>17

(* A step of the world around leaves every thread where it is.             *)
LEMMA Remaining ==
  ASSUME NEW t, NEW p, NEW i, NEW f, NEW m, NEW v, NEW s, NEW o, NEW c,
         Stands(t, p, i, f, m, v, s, o, c), UNCHANGED <<file, todo, locals>>, Numbers',
         Facts(p, i, f, m, v, s, o)'
  PROVE  FlowInv'
<1>1. /\ Frames /\ t \in Threads /\ p \in Plans /\ i \in 1 .. Size(p) + 1 /\ m \in BOOLEAN
      /\ v \in Nat /\ s \in Nat /\ o \in BOOLEAN /\ IsFile(c) /\ Only(t)
      /\ locals[t] = Locals(v, s, o, c) /\ locals[t].copy = c /\ Place(t, p, i, f, m)
  BY DEF Stands, Locals
<1>2. PICK q : q = todo[t]
  OBVIOUS
<1>3. Goes(t, q)
  BY <1>1, <1>2 DEF Goes, Frames
<1>4. Leads(q, p, i, f, m, c)
  BY <1>1, <1>2 DEF Leads, Place
<1>5. Holds(t, v, s, o, c)
  BY <1>1, Setting
<1>6. QED
  BY <1>1, <1>3, <1>4, <1>5, Arriving

LEMMA ThreadsAre == \A t : t \in Worker \/ t \in Dealer => t \in Threads
BY DEF Threads, Dealer

LEMMA ReceiveStep ==
  ASSUME FlowAssumption, Overlap = FALSE, FlowInv, NEW t, Receive(t)
  PROVE  FlowInv'
<1>1. t \in Threads /\ Idle
  BY ThreadsAre DEF Receive, Begin
<1>2. PICK v, s, c : /\ Stands(t, "piece", 2, file, No, v, s, No, c)
                     /\ \A w \in Nat, r \in Nat : Facts("piece", 2, file, No, w, r, No)
  BY <1>1, AtRest
<1>3. /\ Numbers /\ Frames /\ v \in Nat /\ IsFile(c) /\ IsFile(file) /\ to_read_ \in Nat
      /\ locals[t] = Locals(v, s, No, c)
  BY <1>2, Having
<1>4. PICK q, w : q = <<"store_piece">> /\ w = to_read_ + 1
  OBVIOUS
<1>5. /\ Goes(t, q) /\ Set(t, "sum", w) /\ used' = [used EXCEPT !["pieces"] = used["pieces"] + 1]
      /\ UNCHANGED <<memory, file, date, history>>
  BY <1>4 DEF Receive, Begin, Goes, Spend
<1>6. used \in [{"pieces", "cuts", "inits", "sets"} -> Nat]
  BY <1>3 DEF Numbers
<1>7. /\ \A b \in {"cuts", "inits", "sets"} : used'[b] = used[b]
      /\ used' \in [{"pieces", "cuts", "inits", "sets"} -> Nat]
  BY <1>5, <1>6
<1>8. Numbers'
  BY <1>3, <1>5, <1>7 DEF Numbers, memory, counters, history
<1>9. Facts("piece", 1, file, No, v, w, No)
  <2>1. w \in Nat /\ Facts("piece", 2, file, No, v, w, No)
    BY <1>2, <1>3, <1>4
  <2>2. QED
    BY <1>3, <1>4, <2>1, Calling
<1>10. PICK f : f = file
  OBVIOUS
<1>11. Facts("piece", 1, f, No, v, w, No)'
  <2>1. used["inits"] = 0 => Covers(file')
    BY <1>5, <1>9 DEF Facts, Cover
  <2>2. Facts("piece", 1, f, No, v, w, No)
    BY <1>9, <1>10
  <2>3. QED
    BY <1>5, <1>7, <2>1, <2>2, Staying
<1>12. "piece" \in Plans /\ 1 \in 1 .. Size("piece") + 1 /\ q = Rest("piece", 1)
  <2>1. "piece" \in Plans /\ Size("piece") = 1
    BY DEF Plans, Size
  <2>2. Rest("piece", 1) = Plan("piece")
    BY <2>1, RestIs
  <2>3. QED
    BY <1>4, <2>1, <2>2, PlanIs
<1>13. Only(t) /\ No \in BOOLEAN /\ ~No
  BY <1>2, Naming DEF Stands
<1>14. Leads(q, "piece", 1, f, No, c)
  <2>1. f = file'
    BY <1>5, <1>10
  <2>2. QED
    BY <1>12, <1>13, <2>1, Zenon DEF Leads
<1>15. Holds(t, v, w, No, c)
  BY <1>1, <1>3, <1>5, Setting
<1>16. w \in Nat
  BY <1>3, <1>4
<1>17. QED
  BY <1>1, <1>3, <1>5, <1>8, <1>11, <1>12, <1>13, <1>14, <1>15, <1>16, Arriving

LEMMA DealStep ==
  ASSUME FlowAssumption, Overlap = FALSE, FlowInv, NEW t, Deal(t)
  PROVE  FlowInv'
<1>1. t \in Threads /\ Idle
  BY ThreadsAre DEF Deal, Begin
<1>2. PICK v, s, c : Stands(t, "piece", 2, file, No, v, s, No, c)
  BY <1>1, AtRest
<1>3. /\ Numbers /\ Frames /\ v \in Nat /\ s \in Nat /\ IsFile(c) /\ IsFile(file)
      /\ locals[t] = Locals(v, s, No, c)
  BY <1>2, Having
<1>4. PICK q : q = DealTasks
  OBVIOUS
<1>5. Goes(t, q) /\ UNCHANGED <<memory, file, date, history, used>> /\ UNCHANGED locals
  BY <1>4 DEF Deal, Begin, Goes
<1>6. Facts("deal", 1, file, No, v, s, No)
  <2>1. Facts("piece", 2, file, No, v, s, No)
    BY <1>2 DEF Stands
  <2>2. QED
    BY <1>3, <2>1, Calling
<1>7. PICK f : f = file
  OBVIOUS
<1>8. Facts("deal", 1, f, No, v, s, No)'
  <2>1. Facts("deal", 1, f, No, v, s, No)
    BY <1>6, <1>7
  <2>2. QED
    BY <1>5, <2>1, StayingAlike
<1>9. Numbers'
  BY <1>3, <1>5, NumbersStay
<1>10. "deal" \in Plans /\ 1 \in 1 .. Size("deal") + 1 /\ q = Rest("deal", 1)
  <2>1. "deal" \in Plans /\ Size("deal") = 16
    BY DEF Plans, Size
  <2>2. Rest("deal", 1) = Plan("deal")
    BY <2>1, RestIs
  <2>3. Plan("deal") = DealTasks
    BY DEF Plan
  <2>4. QED
    BY <1>4, <2>1, <2>2, <2>3
<1>11. Only(t) /\ No \in BOOLEAN /\ ~No
  BY <1>2, Naming DEF Stands
<1>12. Leads(q, "deal", 1, f, No, c)
  <2>1. f = file'
    BY <1>5, <1>7
  <2>2. QED
    BY <1>10, <1>11, <2>1, Zenon DEF Leads
<1>13. Holds(t, v, s, No, c)
  BY <1>1, <1>3, <1>5, Setting
<1>14. QED
  BY <1>1, <1>3, <1>5, <1>8, <1>9, <1>10, <1>11, <1>12, <1>13, Arriving
LEMMA FlowDataInitStep ==
  ASSUME FlowAssumption, Overlap = FALSE, FlowInv, NEW t, FlowDataInit(t)
  PROVE  FlowInv'
<1>1. t \in Threads /\ Idle
  BY ThreadsAre DEF FlowDataInit, Begin
<1>2. PICK v, s, c : Stands(t, "piece", 2, file, No, v, s, No, c)
  BY <1>1, AtRest
<1>3. /\ Numbers /\ Frames /\ v \in Nat /\ s \in Nat /\ IsFile(c) /\ locals[t] = Locals(v, s, No, c)
  BY <1>2, Having
<1>4. PICK q, e : q = <<>> /\ e = EmptyFile
  OBVIOUS
<1>5. /\ Goes(t, q) /\ UNCHANGED locals /\ file' = EmptyFile /\ UNCHANGED <<memory, date, history>>
      /\ used["cuts"] = 0 /\ used["sets"] = 0
      /\ used' = [used EXCEPT !["inits"] = used["inits"] + 1]
  BY <1>4 DEF FlowDataInit, Begin, Goes, Spend, Never
<1>6. used \in [{"pieces", "cuts", "inits", "sets"} -> Nat]
  BY <1>3 DEF Numbers
<1>7. /\ used'["inits"] > 0 /\ used'["cuts"] = 0 /\ used'["sets"] = 0
      /\ used' \in [{"pieces", "cuts", "inits", "sets"} -> Nat]
  BY <1>5, <1>6
<1>8. Numbers'
  <2>1. IsFile(file')
    BY <1>5, EmptyIsFile
  <2>2. QED
    BY <1>3, <1>5, <1>7, <2>1 DEF Numbers, memory, counters, history
<1>9. Facts("piece", 2, e, No, v, s, No)'
  <2>1. Facts("piece", 2, file, No, v, s, No)
    BY <1>2 DEF Stands
  <2>2. Facts("piece", 2, EmptyFile, No, v, s, No)'
    BY <1>3, <1>5, <1>7, <2>1, InitialisedFacts
  <2>3. QED
    BY <1>4, <2>2
<1>10. "piece" \in Plans /\ 2 \in 1 .. Size("piece") + 1 /\ q = Rest("piece", 2)
  <2>1. "piece" \in Plans /\ Size("piece") = 1
    BY DEF Plans, Size
  <2>2. Rest("piece", Size("piece") + 1) = <<>>
    BY <2>1, RestIs
  <2>3. QED
    BY <1>4, <2>1, <2>2
<1>11. Only(t) /\ No \in BOOLEAN /\ ~No
  BY <1>2, Naming DEF Stands
<1>12. Leads(q, "piece", 2, e, No, c)
  <2>1. e = file'
    BY <1>4, <1>5
  <2>2. QED
    BY <1>10, <1>11, <2>1, Zenon DEF Leads
<1>13. Holds(t, v, s, No, c)
  BY <1>1, <1>3, <1>5, Setting
<1>14. QED
  BY <1>1, <1>3, <1>5, <1>8, <1>9, <1>10, <1>11, <1>12, <1>13, Arriving

LEMMA NextDayStep ==
  ASSUME FlowAssumption, FlowInv, NextDay
  PROVE  FlowInv'
<1>1. PICK t, p, i, f, m, v, s, o, c : Stands(t, p, i, f, m, v, s, o, c)
  BY Standing
<1>2. /\ Numbers /\ t \in Threads /\ v \in Nat /\ s \in Nat /\ o \in BOOLEAN
      /\ Facts(p, i, f, m, v, s, o) /\ i \in 1 .. Size(p) + 1
  BY <1>1 DEF Stands
<1>3. /\ date < LastDate /\ date' = date + 1 /\ (Idle \/ current_day_ \in {date, -1})
      /\ UNCHANGED <<memory, file, todo, locals, history, used>>
  BY DEF NextDay
<1>4. Numbers'
  <2>1. date' \in Date
    BY <1>2, <1>3 DEF Numbers, Date, FlowAssumption
  <2>2. QED
    BY <1>2, <1>3, <2>1 DEF Numbers, memory, counters, history
<1>5. CASE Idle
  <2>1. PICK w, r, g : Stands(t, "piece", 2, file, No, w, r, No, g)
    BY <1>2, <1>5, AtRest
  <2>2. PICK h : h = file
    OBVIOUS
  <2>3. Stands(t, "piece", 2, h, No, w, r, No, g) /\ w \in Nat /\ r \in Nat /\ No \in BOOLEAN
        /\ Facts("piece", 2, h, No, w, r, No)
    BY <2>1, <2>2 DEF Stands
  <2>4. Facts("piece", 2, h, No, w, r, No)'
    BY <1>2, <1>3, <2>3, MidnightFacts
  <2>5. QED
    BY <1>3, <1>4, <2>3, <2>4, Remaining
<1>6. CASE current_day_ \in {date, -1}
  <2>1. Facts(p, i, f, m, v, s, o)'
    BY <1>2, <1>3, <1>6, MidnightFacts
  <2>2. QED
    BY <1>1, <1>3, <1>4, <2>1, Remaining
<1>7. QED
  BY <1>3, <1>5, <1>6

LEMMA SetClockStep ==
  ASSUME FlowAssumption, FlowInv, SetClock
  PROVE  FlowInv'
<1>1. PICK t, p, i, f, m, v, s, o, c : Stands(t, p, i, f, m, v, s, o, c)
  BY Standing
<1>2. /\ Numbers /\ v \in Nat /\ s \in Nat /\ o \in BOOLEAN /\ Facts(p, i, f, m, v, s, o)
      /\ used \in [{"pieces", "cuts", "inits", "sets"} -> Nat]
  BY <1>1 DEF Stands, Numbers
<1>3. /\ date' \in Date /\ used["inits"] = 0
      /\ used' = [used EXCEPT !["sets"] = used["sets"] + 1]
      /\ UNCHANGED <<memory, file, todo, locals, history>>
  BY DEF SetClock, Spend, Never
<1>4. /\ used'["inits"] = 0 /\ used'["cuts"] = used["cuts"] /\ used'["sets"] > 0
      /\ used' \in [{"pieces", "cuts", "inits", "sets"} -> Nat]
  BY <1>2, <1>3
<1>5. Numbers'
  BY <1>2, <1>3, <1>4 DEF Numbers, memory, counters, history
<1>6. Facts(p, i, f, m, v, s, o)'
  BY <1>2, <1>3, <1>4, ClockFacts
<1>7. QED
  BY <1>1, <1>3, <1>5, <1>6, Remaining

(* The program as it starts: main is about to load the counters.           *)
Fresh ==
  /\ Numbers
  /\ todo = [t \in Threads |-> IF t = Main THEN BootTasks ELSE <<>>]
  /\ locals = [t \in Threads |-> NoLocals]
  /\ Facts("boot", 1, file, No, 0, 0, No)

LEMMA Starting == Fresh => FlowInv
<1> SUFFICES ASSUME Fresh PROVE FlowInv
  OBVIOUS
<1>1. Main \in Threads /\ Numbers /\ \A u \in Threads : locals[u] = NoLocals
  BY DEF Threads, Fresh
<1>2. IsLocals(NoLocals) /\ NoLocals.value = 0 /\ NoLocals.sum = 0 /\ ~NoLocals.over
      /\ NoLocals.over = No
  BY EmptyIsFile DEF NoLocals, IsLocals, Locals, No
<1>3. Frames
  <2>1. todo = [u \in Threads |-> todo[u]] /\ locals = [u \in Threads |-> locals[u]]
    BY DEF Fresh
  <2>2. QED
    BY <1>1, <1>2, <2>1 DEF Frames
<1>4. Only(Main)
  BY <1>1, <1>2 DEF Only, Fresh
<1>5. "boot" \in Plans /\ 1 \in 1 .. Size("boot") + 1 /\ todo[Main] = Rest("boot", 1)
  <2>1. "boot" \in Plans /\ Size("boot") = 8
    BY DEF Plans, Size
  <2>2. Rest("boot", 1) = Plan("boot")
    BY <2>1, RestIs
  <2>3. Plan("boot") = BootTasks
    BY DEF Plan
  <2>4. todo[Main] = BootTasks
    BY <1>1 DEF Fresh
  <2>5. QED
    BY <2>1, <2>2, <2>3, <2>4
<1>6. No \in BOOLEAN /\ Place(Main, "boot", 1, file, No)
  BY <1>5, Naming DEF Place
<1>7. Facts("boot", 1, file, No, locals[Main].value, locals[Main].sum, locals[Main].over)
  <2>1. locals[Main].value = 0 /\ locals[Main].sum = 0 /\ locals[Main].over = No
    BY <1>1, <1>2
  <2>2. QED
    BY <2>1 DEF Fresh
<1>8. Here(Main, "boot", 1, file, No)
  BY <1>4, <1>6, <1>7 DEF Here
<1>9. QED
  BY <1>1, <1>3, <1>5, <1>6, <1>8 DEF FlowInv

LEMMA PowerCutStep ==
  ASSUME FlowAssumption, FlowInv, PowerCut
  PROVE  FlowInv'
<1>1. PICK t, p, i, f, m, v, s, o, c : Stands(t, p, i, f, m, v, s, o, c)
  BY Standing
<1>2. /\ Numbers /\ t \in Threads /\ v \in Nat /\ s \in Nat /\ o \in BOOLEAN
      /\ Facts(p, i, f, m, v, s, o)
      /\ used \in [{"pieces", "cuts", "inits", "sets"} -> Nat] /\ torn \in BOOLEAN
      /\ received \in Int /\ to_read_ \in Nat
  BY <1>1 DEF Stands, Numbers
<1>3. /\ used["inits"] = 0 /\ used' = [used EXCEPT !["cuts"] = used["cuts"] + 1]
      /\ to_read_' = 0 /\ comm_read_flow_' = 0 /\ comm_curr_month_flow_' = 0
      /\ comm_last_day_flow_' = 0 /\ current_day_' = -1 /\ flow_event_reported_' = 0
      /\ todo' = [u \in Threads |-> IF u = Main THEN BootTasks ELSE <<>>]
      /\ locals' = [u \in Threads |-> NoLocals]
      /\ received' = received - to_read_ /\ torn' = (torn \/ ~Idle)
      /\ UNCHANGED <<file, date, dealt, raised>>
  BY DEF PowerCut, PowerUp, Spend, Never
<1>4. /\ used'["inits"] = 0 /\ used'["cuts"] > 0 /\ used'["sets"] = used["sets"]
      /\ used' \in [{"pieces", "cuts", "inits", "sets"} -> Nat]
  BY <1>2, <1>3
<1>5. torn' \in BOOLEAN /\ (torn' = torn \/ torn' = TRUE) /\ (Idle \/ torn')
  BY <1>2, <1>3, Zenon
<1>6. torn' \/ Facts("piece", 2, file, No, v, s, No)
  <2>1. CASE Idle
    <3>1. \A w \in Nat, r \in Nat : Facts("piece", 2, file, No, w, r, No)
      BY <1>2, <2>1, AtRest
    <3>2. QED
      BY <1>2, <3>1
  <2>2. QED
    BY <1>5, <2>1
<1>7. Facts("boot", 1, file, No, 0, 0, No)'
  BY <1>2, <1>3, <1>4, <1>5, <1>6, PowerFacts, ZenonT(60)
<1>8. Numbers'
  BY <1>2, <1>3, <1>4, <1>5 DEF Numbers
<1>9. Fresh'
  BY <1>3, <1>7, <1>8 DEF Fresh
<1>10. (Fresh => FlowInv)'
  BY Starting, PTL
<1>11. QED
  BY <1>9, <1>10
LEMMA InitIsFresh ==
  ASSUME FlowAssumption, Init
  PROVE  Fresh
<1> USE DEF Init, Deal_, Load_, Boot_, Started, No
<1>1. /\ used = [b \in {"pieces", "cuts", "inits", "sets"} |-> 0]
      /\ 0 \in Date /\ -1 \notin Date /\ \A d \in Date : d \in Int /\ dealt[d] = 0 /\ raised[d] = 0
  BY DEF FlowAssumption, Date
<1>2. Numbers
  <2>1. to_read_ \in Nat /\ comm_read_flow_ \in Nat /\ comm_curr_month_flow_ \in Nat
        /\ comm_last_day_flow_ \in Nat /\ received \in Int
    OBVIOUS
  <2>2. current_day_ \in Date \union {-1} /\ flow_event_reported_ \in {0, 1} /\ date \in Date
    BY <1>1
  <2>3. IsFile(file)
    BY EmptyIsFile
  <2>4. dealt \in [Date -> Nat] /\ raised \in [Date -> Nat]
    OBVIOUS
  <2>5. used \in [{"pieces", "cuts", "inits", "sets"} -> Nat]
    BY <1>1
  <2>6. torn \in BOOLEAN
    OBVIOUS
  <2>7. QED
    BY <2>1, <2>2, <2>3, <2>4, <2>5, <2>6 DEF Numbers
<1>3. \A n : DealtIn(n) = 0
  <2>1. TAKE n
  <2>2. DealtIn(n) = SumMap(dealt, InMonth(n)) /\ IsFiniteSet(InMonth(n))
    BY <1>2, DealtInIs DEF Numbers
  <2>3. \A d \in InMonth(n) : dealt[d] = 0
    BY <1>1 DEF InMonth
  <2>4. QED
    BY <2>2, <2>3, SumZero
<1>4. /\ Saved(file, ReadKey) = 0 /\ (\A n : SavedIn(file, n) = 0) /\ \A n : DayKey(n) \notin DOMAIN file
  BY EmptyIsFile DEF Saved, SavedIn
<1>5. Registers("boot", 1, 0, 0)
  BY DEF Registers
<1>6. Calendar("boot", 1)
  BY <1>1 DEF Calendar
<1>7. Traffic("boot", 1, file, 0, 0)
  BY <1>4 DEF Traffic
<1>8. MonthKept("boot", 1, file, 0, 0)
  BY <1>3, <1>4 DEF MonthKept
<1>9. Cover("boot", 1, file, 0, 0)
  BY EmptyIsFile DEF Cover
<1>10. Limit("boot", 1, No, No)
  BY <1>1 DEF Limit
<1>11. DayKept("boot", 1, file, 0)
  <2>1. Boot(-1, file)
    BY <1>1, <1>4 DEF Boot, Days
  <2>2. QED
    BY <2>1 DEF DayKept
<1>12. Facts("boot", 1, file, No, 0, 0, No)
  BY <1>5, <1>6, <1>7, <1>8, <1>9, <1>10, <1>11 DEF Facts
<1>13. QED
  BY <1>2, <1>12 DEF Fresh

LEMMA FlowNext ==
  ASSUME FlowAssumption, Overlap = FALSE, FlowInv, [Next]_vars
  PROVE  FlowInv'
<1>1. ASSUME NEW t \in Threads, Step(t) PROVE FlowInv'
  BY <1>1, ThreadSteps
<1>2. ASSUME NEW t \in Threads, Receive(t) PROVE FlowInv'
  BY <1>2, ReceiveStep
<1>3. ASSUME NEW t \in Threads, Deal(t) PROVE FlowInv'
  BY <1>3, DealStep
<1>4. ASSUME NEW t \in Threads, FlowDataInit(t) PROVE FlowInv'
  BY <1>4, FlowDataInitStep
<1>5. CASE NextDay
  BY <1>5, NextDayStep
<1>6. CASE SetClock
  BY <1>6, SetClockStep
<1>7. CASE PowerCut
  BY <1>7, PowerCutStep
<1>8. CASE UNCHANGED vars
  <2>1. PICK t, p, i, f, m, v, s, o, c : Stands(t, p, i, f, m, v, s, o, c)
    BY Standing
  <2>2. UNCHANGED <<memory, file, date, history, used>> /\ UNCHANGED <<file, todo, locals>>
    BY <1>8 DEF vars
  <2>3. Numbers /\ IsFile(file) /\ Facts(p, i, f, m, v, s, o)
    BY <2>1 DEF Stands, Numbers
  <2>4. Numbers'
    BY <2>2, <2>3, NumbersStay
  <2>5. Facts(p, i, f, m, v, s, o)'
    BY <2>2, <2>3, StayingAlike
  <2>6. QED
    BY <2>1, <2>2, <2>4, <2>5, Remaining
<1>9. QED
  BY <1>1, <1>2, <1>3, <1>4, <1>5, <1>6, <1>7, <1>8, Zenon DEF Next

(* When no two calls overlap, the thread in a call is always at one of the *)
(* places of its plan, and there the counters, its local variables and the *)
(* file agree as the place says, whatever the station does to the clock or *)
(* the file and wherever the power fails.                                  *)
THEOREM FlowInvariant == FlowAssumption /\ Overlap = FALSE /\ Spec => []FlowInv
<1> SUFFICES ASSUME FlowAssumption, Overlap = FALSE PROVE Spec => []FlowInv
  OBVIOUS
<1>1. Init => FlowInv
  BY InitIsFresh, Starting
<1>2. FlowInv /\ [Next]_vars => FlowInv'
  BY FlowNext
<1>3. QED
  BY <1>1, <1>2, PTL DEF Spec

(* bytes_to_read, set_comm_read_flow, save and load: between calls every   *)
(* byte received is in to_read_ or in the cumulative count, also after     *)
(* days, changes of the clock, initialisations and power cuts.             *)
THEOREM NoByteLost == FlowAssumption /\ Overlap = FALSE /\ Spec => []TrafficConserved
<1> SUFFICES ASSUME FlowAssumption, Overlap = FALSE PROVE Spec => []TrafficConserved
  OBVIOUS
<1>1. FlowInv => TrafficConserved
  <2>1. SUFFICES ASSUME FlowInv, Idle, ~torn PROVE comm_read_flow_ + to_read_ = received
    BY DEF TrafficConserved
  <2>2. Main \in Threads
    BY DEF Threads
  <2>3. PICK v, s, c : Stands(Main, "piece", 2, file, No, v, s, No, c)
    BY <2>1, <2>2, AtRest
  <2>4. Traffic("piece", 2, file, v, s) /\ Numbers
    BY <2>3 DEF Stands, Facts
  <2>5. QED
    BY <2>1, <2>4 DEF Traffic, Deal_, Boot_, Numbers
<1>2. QED
  BY <1>1, FlowInvariant, PTL

(* load_comm_flow_month_without_lock and save_comm_flow: between calls the *)
(* month's counter is what was dealt with in that month, and what          *)
(* get_curr_day_flow answers with is what was dealt with on that day.      *)
THEOREM CountersExact == FlowAssumption /\ Overlap = FALSE /\ Spec => []CalendarExact
<1> SUFFICES ASSUME FlowAssumption, Overlap = FALSE PROVE Spec => []CalendarExact
  OBVIOUS
<1>1. FlowInv => CalendarExact
  <2>1. SUFFICES ASSUME FlowInv, Idle, ~torn PROVE CalendarExact
    BY DEF CalendarExact, DayExact, MonthExact
  <2>2. Main \in Threads
    BY DEF Threads
  <2>3. PICK v, s, c : Stands(Main, "piece", 2, file, No, v, s, No, c)
    BY <2>1, <2>2, AtRest
  <2>4. MonthKept("piece", 2, file, v, s) /\ DayKept("piece", 2, file, v)
    BY <2>3 DEF Stands, Facts
  <2>5. MonthExact
    BY <2>1, <2>4 DEF MonthKept, MonthExact, DealtIn, Now, Deal_, Load_, Boot_
  <2>6. DayExact
    BY <2>1, <2>4 DEF DayKept, DayExact, Never, Deal_, Load_, Boot_
  <2>7. QED
    BY <2>5, <2>6 DEF CalendarExact
<1>2. QED
  BY <1>1, FlowInvariant, PTL

(* save_comm_flow_month_without_lock saves the month before the total:     *)
(* wherever the power fails, the months in the file account for the total  *)
(* in the file.                                                            *)
THEOREM MonthsAccount == FlowAssumption /\ Overlap = FALSE /\ Spec => []MonthsCoverTotal
<1> SUFFICES ASSUME FlowAssumption, Overlap = FALSE PROVE Spec => []MonthsCoverTotal
  OBVIOUS
<1>1. FlowInv => MonthsCoverTotal
  <2>1. SUFFICES ASSUME FlowInv, used["inits"] = 0 PROVE Covers(file)
    BY DEF MonthsCoverTotal, Never, Covers
  <2>2. PICK t, p, i, f, m, v, s, o, c : Stands(t, p, i, f, m, v, s, o, c)
    BY <2>1, Standing
  <2>3. Cover(p, i, f, v, s)
    BY <2>2 DEF Stands, Facts
  <2>4. QED
    BY <2>1, <2>3 DEF Cover
<1>2. QED
  BY <1>1, FlowInvariant, PTL

(* set_month_flows_ and dealFlow: the limit event is raised at most once   *)
(* under one date, and a month over the limit is reported when dealFlow    *)
(* ends.                                                                   *)
THEOREM LimitReported == FlowAssumption /\ Overlap = FALSE /\ Spec => []LimitEventRight
<1> SUFFICES ASSUME FlowAssumption, Overlap = FALSE PROVE Spec => []LimitEventRight
  OBVIOUS
<1>1. ASSUME FlowInv PROVE LimitEventRight
  <2>1. PICK t, p, i, f, m, v, s, o, c : Stands(t, p, i, f, m, v, s, o, c)
    BY <1>1, Standing
  <2>2. Limit(p, i, m, o) /\ Numbers /\ p \in Plans /\ i \in 1 .. Size(p) + 1
    BY <2>1 DEF Stands, Facts
  <2>3. EventOncePerDay
    BY <2>2 DEF EventOncePerDay, Never, Limit
  <2>4. ASSUME NEW u \in Dealer, todo[u] = SaveTasks \o <<"check">>, Over
        PROVE  raised[current_day_] > 0
    <3> DEFINE a == <<"check">>
               q == SaveTasks \o a
    <3>1. q # <<>> /\ Head(q) = "save_month" /\ Len(q) = 5
      <4>1. SaveTasks \in Seq(Task_) /\ Len(SaveTasks) = 4 /\ SaveTasks[1] = "save_month"
        BY SMTT(60) DEF SaveTasks, Task_
      <4>2. a \in Seq(Task_) /\ Len(a) = 1
        BY SMTT(60) DEF Task_
      <4> HIDE DEF a
      <4>3. q \in Seq(Task_) /\ Len(q) = 5 /\ q[1] = "save_month"
        <5>1. /\ q \in Seq(Task_) /\ Len(q) = Len(SaveTasks) + Len(a)
              /\ \A j \in 1 .. Len(SaveTasks) + Len(a) :
                   q[j] = IF j <= Len(SaveTasks) THEN SaveTasks[j] ELSE a[j - Len(SaveTasks)]
          BY <4>1, <4>2, ConcatProperties
        <5> HIDE DEF q
        <5>2. QED
          BY <4>1, <4>2, <5>1
      <4> HIDE DEF q
      <4>4. QED
        BY <4>3
    <3>2. At(u, "save_month") /\ Len(todo[u]) = 5
      BY <2>4, <3>1 DEF At
    <3>3. u = t
      BY <2>1, <3>2, ThreadsAre, AtIsHere
    <3>4. todo[t] = Rest(p, i) /\ i \in 1 .. Size(p) /\ ~m
      BY <2>1, <3>2, <3>3, Places
    <3>5. (p = "deal" /\ i = 12) \/ (p = "load" /\ i = 6)
      BY <2>1, <3>2, <3>3, TaskOf
    <3>6. Len(Rest(p, i)) = Size(p) + 1 - i
      BY <2>2, RestIs
    <3>7. p = "deal" /\ i = 12
      <4>1. CASE p = "load" /\ i = 6
        BY <3>2, <3>3, <3>4, <3>6, <4>1 DEF Size
      <4>2. QED
        BY <3>5, <4>1
    <3>8. QED
      BY <2>2, <2>4, <3>4, <3>7 DEF Limit, Deal_
  <2>5. OverLimitReported
    BY <2>4 DEF OverLimitReported, Over
  <2>6. QED
    BY <2>3, <2>5 DEF LimitEventRight
<1>2. QED
  BY <1>1, FlowInvariant, PTL
=================================================================================
