------------------------------ MODULE EventProofs ------------------------------
(***************************************************************************)
(* What holds of the event store and of its reporting, for every number of *)
(* kinds, threads, channels and saves.                                     *)
(*                                                                         *)
(* The store: the variables keep their types; while no two threads save    *)
(* the same kind and the database works, no kind ever has more records     *)
(* than it may have.  A save: a success is in its table, an eviction takes *)
(* the earliest record of a full kind, and the counters cover the records. *)
(* Each holds until a named cause has occurred, so each invariant is one   *)
(* that only the steps without that cause have to keep.                    *)
(*                                                                         *)
(* The reporting: an event that was queued costs three frames at most,     *)
(* however many channels share the queue.  Every event in the queue or in  *)
(* the hands of a channel is entitled to the frames it has not used of its *)
(* three.  A right to a frame is a pair of a place and a number, so the    *)
(* rights to frames with one record are a finite set, and the invariant is *)
(* that the frames sent and the rights left are together three at most for *)
(* each time the record was queued.                                        *)
(*                                                                         *)
(* With one connection, and as long as no record is deleted, each          *)
(* important record is queued once, and a flag is cleared only when the    *)
(* record was sent or is on its way.  The argument is that then rowids are *)
(* positions, so the flag, the record in EventBuf and the row that is      *)
(* updated are of one record; and that a frame and an event have the same  *)
(* number just when they are of the same record, so a confirmation takes   *)
(* out the right event.                                                    *)
(***************************************************************************)
EXTENDS EventReport, FiniteSetTheorems, SequenceTheorems, TLAPS

(* A non-empty set of naturals has a smallest element.                     *)
LEMMA NatHasMin ==
  ASSUME NEW S \in SUBSET Nat, S # {}
  PROVE  \E m \in S : \A y \in S : m <= y
<1>1. PICK m \in S : \A y \in S : ~(<<y, m>> \in OpToRel(<, Nat))
  BY NatLessThanWellFounded, WFMin, Zenon
<1>2. \A y \in S : ~(y < m)
  BY <1>1 DEF OpToRel
<1>3. QED
  BY <1>2

(* A finite, non-empty set of naturals has a largest element.  A smallest  *)
(* set without one would leave a smaller one when an element is taken out. *)
LEMMA FiniteSetHasMax ==
  ASSUME NEW S \in SUBSET Nat, IsFiniteSet(S), S # {}
  PROVE  \E m \in S : \A y \in S : m >= y
<1> DEFINE HasMax(U) == \E m \in U : \A y \in U : m >= y
<1> DEFINE Bad == {n \in Nat : \E U \in SUBSET Nat :
                      IsFiniteSet(U) /\ U # {} /\ Cardinality(U) = n /\ ~HasMax(U)}
<1>1. SUFFICES ASSUME Bad # {} PROVE FALSE
  <2>1. Cardinality(S) \in Nat
    BY FS_CardinalityType
  <2>2. QED
    BY <2>1
<1>2. PICK n \in Bad : \A k \in Bad : n <= k
  <2>1. Bad \in SUBSET Nat
    OBVIOUS
  <2>2. QED
    BY <1>1, <2>1, NatHasMin, Zenon
<1>3. \A k \in Bad : ~(k < n)
  BY <1>2
<1>4. PICK U \in SUBSET Nat :
        IsFiniteSet(U) /\ U # {} /\ Cardinality(U) = n /\ ~HasMax(U)
  OBVIOUS
<1>5. PICK x : x \in U
  BY <1>4
<1> DEFINE V == U \ {x}
<1>6. IsFiniteSet(V) /\ Cardinality(V) = n - 1
  BY <1>4, <1>5, FS_RemoveElement
<1>7. Cardinality(V) \in Nat /\ n \in Nat
  BY <1>6, FS_CardinalityType
<1>8. V # {}
  <2>1. SUFFICES ASSUME V = {} PROVE FALSE
    OBVIOUS
  <2>2. U = {x}
    BY <2>1, <1>5
  <2>3. QED
    BY <2>2, <1>4
<1>9. HasMax(V)
  <2>1. n - 1 < n /\ n - 1 \in Nat
    BY <1>6, <1>7
  <2>2. n - 1 \notin Bad
    BY <1>3, <2>1
  <2>3. V \in SUBSET Nat
    OBVIOUS
  <2>4. QED
    BY <1>6, <1>8, <2>1, <2>2, <2>3
<1>10. PICK m \in V : \A y \in V : m >= y
  BY <1>9
<1>11. HasMax(U)
  <2>1. CASE m >= x
    BY <1>4, <1>5, <1>10, <2>1
  <2>2. CASE ~(m >= x)
    BY <1>4, <1>5, <1>10, <2>2
  <2>3. QED
    BY <2>1, <2>2
<1>12. QED
  BY <1>4, <1>11

--------------------------------------------------------------------------------
(* Facts about the statements of EventDb.                                  *)

(* A new rowid is a positive number.                                       *)
LEMMA FreshIdType ==
  ASSUME NEW T \in SUBSET Row, IsFiniteSet(T)
  PROVE  FreshId(T) \in Nat \ {0}
<1>1. CASE T = {}
  BY <1>1 DEF FreshId
<1>2. CASE T # {}
  <2> DEFINE Ids == {r.rowid : r \in T}
             f == [r \in T |-> r.rowid]
  <2>1. f \in Surjection(T, Ids)
    BY DEF Surjection
  <2>2. IsFiniteSet(Ids)
    BY <2>1, FS_Surjection
  <2>3. Ids \in SUBSET Nat /\ Ids # {}
    BY <1>2 DEF Row
  <2>4. \E m \in Ids : \A y \in Ids : m >= y
    BY <2>2, <2>3, FiniteSetHasMax
  <2>5. Max(Ids) \in Nat
    BY <2>3, <2>4 DEF Max
  <2>6. FreshId(T) = 1 + Max(Ids)
    BY <1>2 DEF FreshId
  <2>7. QED
    BY <2>5, <2>6
<1>3. QED
  BY <1>1, <1>2

(* The rows of a kind are finitely many, and fewer rows count for less.    *)
LEMMA CountType ==
  ASSUME NEW T, IsFiniteSet(T), NEW e
  PROVE  IsFiniteSet(Rows(T, e)) /\ Count(T, e) \in Nat
<1>1. Rows(T, e) \subseteq T
  BY DEF Rows
<1>2. IsFiniteSet(Rows(T, e))
  BY <1>1, FS_Subset
<1>3. QED
  BY <1>2, FS_CardinalityType DEF Count

LEMMA CountSubset ==
  ASSUME NEW T, IsFiniteSet(T), NEW U \in SUBSET T, NEW e
  PROVE  IsFiniteSet(U) /\ Count(U, e) <= Count(T, e)
<1>1. IsFiniteSet(U)
  BY FS_Subset
<1>2. Rows(U, e) \subseteq Rows(T, e)
  BY DEF Rows
<1>3. QED
  BY <1>1, <1>2, CountType, FS_Subset DEF Count

LEMMA CountZero ==
  ASSUME NEW T, IsFiniteSet(T), NEW e
  PROVE  Count(T, e) = 0 <=> Rows(T, e) = {}
BY CountType, FS_EmptySet DEF Count

LEMMA CountEmpty ==
  ASSUME NEW e
  PROVE  Count({}, e) = 0
<1>1. Rows({}, e) = {}
  BY DEF Rows
<1>2. QED
  BY <1>1, FS_EmptySet DEF Count

(* An insert adds one record of its kind at most, and none of another.     *)
LEMMA CountInserted ==
  ASSUME NEW T, IsFiniteSet(T), NEW e, NEW t, NEW flag, NEW k
  PROVE  /\ IsFiniteSet(Inserted(T, e, t, flag))
         /\ Count(Inserted(T, e, t, flag), e) <= Count(T, e) + 1
         /\ k # e => Count(Inserted(T, e, t, flag), k) = Count(T, k)
<1> DEFINE row == [rowid |-> FreshId(T), erc |-> e, time |-> t, report |-> flag]
<1>1. Inserted(T, e, t, flag) = T \cup {row}
  BY DEF Inserted
<1>2. Rows(T \cup {row}, e) = Rows(T, e) \cup {row}
  BY DEF Rows
<1>3. Cardinality(Rows(T, e) \cup {row}) <= Count(T, e) + 1
  <2>1. IsFiniteSet(Rows(T, e)) /\ Cardinality(Rows(T, e)) \in Nat
    BY CountType DEF Count
  <2>2. Cardinality(Rows(T, e) \cup {row}) =
          IF row \in Rows(T, e) THEN Cardinality(Rows(T, e))
                                ELSE Cardinality(Rows(T, e)) + 1
    BY <2>1, FS_AddElement
  <2>3. QED
    BY <2>1, <2>2 DEF Count
<1>4. k # e => Rows(T \cup {row}, k) = Rows(T, k)
  BY DEF Rows
<1>5. IsFiniteSet(T \cup {row})
  BY FS_AddElement
<1>6. QED
  BY <1>1, <1>2, <1>3, <1>4, <1>5 DEF Count

(* Deleting the earliest leaves fewer records of the kind, if there were   *)
(* any: some record has the smallest time.                                 *)
LEMMA CountWithoutOldest ==
  ASSUME NEW T \in SUBSET Row, IsFiniteSet(T), NEW e
  PROVE  \/ Count(WithoutOldest(T, e), e) = 0
         \/ Count(WithoutOldest(T, e), e) < Count(T, e)
<1>1. CASE Rows(T, e) = {}
  <2>1. Rows(WithoutOldest(T, e), e) = {}
    BY <1>1 DEF Rows, WithoutOldest
  <2>2. QED
    BY <2>1, FS_EmptySet DEF Count
<1>2. CASE Rows(T, e) # {}
  <2> DEFINE Times == {r.time : r \in Rows(T, e)}
  <2>1. Times \subseteq Nat /\ Times # {}
    BY <1>2, StoreAssumption DEF Rows, Row
  <2>2. Times \in SUBSET Nat
    BY <2>1
  <2>3. PICK m \in Times : \A y \in Times : m <= y
    BY <2>1, <2>2, NatHasMin, Zenon
  <2>4. PICK r \in Rows(T, e) : r.time = m
    OBVIOUS
  <2>5. r \in Oldest(T, e)
    BY <2>3, <2>4 DEF Oldest
  <2>6. Rows(WithoutOldest(T, e), e) \subseteq Rows(T, e) \ {r}
    BY <2>5 DEF Rows, WithoutOldest
  <2>7. IsFiniteSet(Rows(T, e) \ {r}) /\ Cardinality(Rows(T, e) \ {r}) = Count(T, e) - 1
    BY CountType, FS_RemoveElement DEF Count
  <2>8. Count(WithoutOldest(T, e), e) <= Count(T, e) - 1
    BY <2>6, <2>7, FS_Subset DEF Count
  <2>9. IsFiniteSet(WithoutOldest(T, e))
    BY FS_Subset DEF WithoutOldest
  <2>10. QED
    BY <2>8, <2>9, CountType
<1>3. QED
  BY <1>1, <1>2
--------------------------------------------------------------------------------
(* The types.                                                              *)

(* A thread that is not saving has well-typed locals.                      *)
LEMMA NotSavingType == NotSaving \in Locals
BY StoreAssumption DEF NotSaving, Saving, Locals, Label, Priority, OrdinaryEvent

LEMMA InitTypeOK == Init => TypeOK
<1>1. SUFFICES ASSUME Init PROVE TypeOK
  OBVIOUS
<1>2. NotSaving \in Locals
  BY NotSavingType
<1>3. tab \in [Priority -> SUBSET Row] /\ \A p \in Priority : IsFiniteSet(tab[p])
  BY <1>1, FS_EmptySet DEF Init, Priority
<1>4. QED
  BY <1>1, <1>2, <1>3, StoreAssumption DEF Init, TypeOK, SavedEC, Priority

(* What a bounded cause, or a database call that works or fails, leaves.   *)
LEMMA UsingType ==
  ASSUME TypeOK, NEW c \in Causes, Using(c)
  PROVE  used' \in [Causes -> Nat]
BY DEF TypeOK, Using

LEMMA CallType ==
  ASSUME TypeOK, Works \/ Fails
  PROVE  used' \in [Causes -> Nat]
<1>1. used \in [Causes -> Nat] /\ "failures" \in Causes
  BY DEF TypeOK, Causes
<1>2. QED
  BY <1>1, UsingType DEF Works, Fails

LEMMA TypeStep == TypeOK /\ [Next]_vars => TypeOK'
<1> SUFFICES ASSUME TypeOK, [Next]_vars PROVE TypeOK'
  OBVIOUS
<1> USE StoreAssumption
<1>1. ASSUME NEW s \in Saver, NEW e \in Saves[s], Begin(s, e) PROVE TypeOK'
  <2>1. e \in Erc
    OBVIOUS
  <2>2. used' \in [Causes -> Nat]
    BY <1>1, UsingType DEF Begin, Causes
  <2>3. saving' \in [Saver -> Locals]
    BY <1>1, <2>1 DEF Begin, TypeOK, Saving, Locals, Label
  <2>4. QED
    BY <1>1, <2>2, <2>3 DEF Begin, TypeOK, db, globals, config
<1>2. ASSUME NEW s \in Saver, DeleteEvent(s) PROVE TypeOK'
  <2>1. used' \in [Causes -> Nat]
    BY <1>2, CallType DEF DeleteEvent
  <2>2. saving' \in [Saver -> Locals]
    BY <1>2 DEF DeleteEvent, Goto, TypeOK, Locals, Label
  <2>3. saving[s].prio \in Priority
    BY DEF TypeOK, Locals
  <2>4. /\ tab' \in [Priority -> SUBSET Row]
        /\ \A p \in Priority : IsFiniteSet(tab'[p])
    <3>1. \A p \in Priority : /\ tab[p] \in SUBSET Row
                              /\ IsFiniteSet(WithoutOldest(tab[p], saving[s].erc))
                              /\ WithoutOldest(tab[p], saving[s].erc) \in SUBSET Row
      BY FS_Subset DEF TypeOK, WithoutOldest
    <3>2. QED
      BY <1>2, <2>3, <3>1 DEF DeleteEvent, TypeOK
  <2>5. QED
    BY <1>2, <2>1, <2>2, <2>4 DEF DeleteEvent, TypeOK, globals, config
<1>3. ASSUME NEW s \in Saver, GetEvent_Num(s) PROVE TypeOK'
  <2>1. used' \in [Causes -> Nat]
    BY <1>3, CallType DEF GetEvent_Num
  <2>2. saving[s] \in Locals
    BY DEF TypeOK
  <2>3. \A p \in Priority, e \in Erc : Count(tab[p], e) \in Nat
    BY CountType DEF TypeOK
  <2>4. ercNum' \in [Erc -> Nat]
    BY <1>3, <2>2, <2>3 DEF GetEvent_Num, TypeOK, Locals
  <2>5. saving' \in [Saver -> Locals]
    BY <1>3, <2>2, <2>4 DEF GetEvent_Num, TypeOK, Locals, Label
  <2>6. QED
    BY <1>3, <2>1, <2>4, <2>5 DEF GetEvent_Num, TypeOK, db, config
<1>4. ASSUME NEW s \in Saver, InsertEvent(s) PROVE TypeOK'
  <2>1. used' \in [Causes -> Nat]
    BY <1>4, CallType DEF InsertEvent
  <2>2. saving[s] \in Locals
    BY DEF TypeOK
  <2>3. ec' \in [Priority -> 0 .. EveMax]
    BY <1>4, <2>2 DEF InsertEvent, TypeOK, Locals, CounterUp
  <2>4. saving' \in [Saver -> Locals]
    BY <1>4, <2>2, <2>3 DEF InsertEvent, TypeOK, Locals, Label, CounterToSave
  <2>5. /\ tab' \in [Priority -> SUBSET Row]
        /\ \A p \in Priority : IsFiniteSet(tab'[p])
    <3> DEFINE p == saving[s].prio
               flag == IF p = OrdinaryEvent THEN 0 ELSE 1
               U == Inserted(tab[p], saving[s].erc, saving[s].time, flag)
    <3>1. p \in Priority /\ tab[p] \in SUBSET Row /\ IsFiniteSet(tab[p])
      BY <2>2 DEF TypeOK, Locals
    <3>2. FreshId(tab[p]) \in Nat \ {0}
      BY <3>1, FreshIdType
    <3>3. U \in SUBSET Row
      BY <2>2, <3>1, <3>2 DEF Inserted, Row, Locals
    <3>4. IsFiniteSet(U)
      BY <3>1, CountInserted
    <3>5. CASE tab' = [tab EXCEPT ![p] = U]
      BY <3>1, <3>3, <3>4, <3>5 DEF TypeOK
    <3>6. CASE UNCHANGED tab
      BY <3>6 DEF TypeOK
    <3>7. QED
      BY <1>4, <3>5, <3>6 DEF InsertEvent
  <2>6. QED
    BY <1>4, <2>1, <2>3, <2>4, <2>5 DEF InsertEvent, TypeOK, config
<1>5. ASSUME NEW s \in Saver, UpdateEC(s) PROVE TypeOK'
  <2>1. used' \in [Causes -> Nat]
    BY <1>5, CallType DEF UpdateEC
  <2>2. saving[s] \in Locals
    BY DEF TypeOK
  <2>3. dbEC' \in [Priority -> SavedEC] /\ sqlite_lock' \in Saver \cup {NoSaver}
    BY <1>5, <2>2 DEF UpdateEC, TypeOK, SavedEC
  <2>4. saving' \in [Saver -> Locals]
    <3>1. ec[saving[s].prio] \in 0 .. EveMax
      BY <2>2 DEF TypeOK, Locals
    <3>2. CASE EndUpdate(s, -1)
      BY <2>2, <3>1, <3>2 DEF EndUpdate, TypeOK, Locals, Label, After, CounterToSave
    <3>3. CASE Goto(s, IF saving[s].pc = "ec1" THEN "ec1_insert" ELSE "ec2_insert")
      BY <2>2, <3>3 DEF Goto, TypeOK, Locals, Label
    <3>4. QED
      BY <1>5, <3>2, <3>3 DEF UpdateEC
  <2>5. QED
    BY <1>5, <2>1, <2>3, <2>4 DEF UpdateEC, TypeOK, globals, config
<1>6. ASSUME NEW s \in Saver, UpdateEC_insert(s) PROVE TypeOK'
  <2>1. used' \in [Causes -> Nat]
    BY <1>6, CallType DEF UpdateEC_insert, TypeOK
  <2>2. saving[s] \in Locals
    BY DEF TypeOK
  <2>3. dbEC' \in [Priority -> SavedEC]
    BY <1>6, <2>2 DEF UpdateEC_insert, TypeOK, SavedEC, Locals
  <2>4. saving' \in [Saver -> Locals]
    <3>1. ec[saving[s].prio] \in 0 .. EveMax
      BY <2>2 DEF TypeOK, Locals
    <3>2. ASSUME NEW r \in {0, -1}, EndUpdate(s, r) PROVE saving' \in [Saver -> Locals]
      BY <2>2, <3>1, <3>2 DEF EndUpdate, TypeOK, Locals, Label, After, CounterToSave
    <3>3. QED
      BY <1>6, <3>2 DEF UpdateEC_insert
  <2>5. QED
    BY <1>6, <2>1, <2>3, <2>4 DEF UpdateEC_insert, TypeOK, globals, config
<1>7. ASSUME NEW s \in Saver, DelERC(s) PROVE TypeOK'
  <2>1. used' \in [Causes -> Nat]
    BY <1>7, CallType DEF DelERC
  <2>2. saving[s] \in Locals /\ NotSaving \in Locals
    BY NotSavingType DEF TypeOK
  <2>3. saving' \in [Saver -> Locals]
    BY <1>7, <2>2 DEF DelERC, TypeOK, Locals, Label
  <2>4. /\ tab' \in [Priority -> SUBSET Row]
        /\ \A p \in Priority : IsFiniteSet(tab'[p])
    <3>1. \A p \in Priority : /\ tab[p] \in SUBSET Row
                              /\ IsFiniteSet(WithoutErc(tab[p], saving[s].erc))
                              /\ WithoutErc(tab[p], saving[s].erc) \in SUBSET Row
      BY FS_Subset DEF TypeOK, WithoutErc
    <3>2. Other(saving[s].prio) \in Priority
      BY <2>2 DEF Other, Locals, Priority
    <3>3. QED
      BY <1>7, <3>1, <3>2 DEF DelERC, TypeOK
  <2>5. QED
    BY <1>7, <2>1, <2>3, <2>4 DEF DelERC, TypeOK, globals, config
<1>8. ASSUME NEW s \in Saver, CountRecord(s) PROVE TypeOK'
  <2>1. saving[s] \in Locals /\ NotSaving \in Locals
    BY NotSavingType DEF TypeOK
  <2>2. QED
    BY <1>8, <2>1 DEF CountRecord, TypeOK, Locals, db, config
<1>9. ASSUME Environment PROVE TypeOK'
  <2>1. CASE Tick
    BY <2>1 DEF Tick, TypeOK, db, globals, config
  <2>2. ASSUME NEW t \in 0 .. MaxTime, SetClock(t) PROVE TypeOK'
    BY <2>2, UsingType DEF SetClock, TypeOK, db, globals, config, Causes
  <2>3. ASSUME NEW e \in Erc, NEW v \in BOOLEAN, NEW p \in Priority, SetF9(e, v, p)
        PROVE TypeOK'
    BY <2>3, UsingType DEF SetF9, TypeOK, db, globals, Causes
  <2>4. CASE RemoveFile
    BY <2>4, UsingType, FS_EmptySet
       DEF RemoveFile, TypeOK, globals, config, Causes, SavedEC
  <2>5. CASE create_table
    BY <2>5 DEF create_table, TypeOK, globals, config
  <2>6. CASE Restart
    <3>1. used' \in [Causes -> Nat]
      BY <2>6, UsingType DEF Restart, Causes
    <3>2. NotSaving \in Locals
      BY NotSavingType
    <3>3. \A p \in Priority : GetEC(p) \in 0 .. EveMax
      BY DEF TypeOK, GetEC, SavedEC
    <3>4. \A e \in Erc : Recounted(e) \in Nat
      BY CountType DEF TypeOK, Recounted, Priority
    <3>5. QED
      BY <2>6, <3>1, <3>2, <3>3, <3>4 DEF Restart, TypeOK, config
  <2>7. QED
    BY <1>9, <2>1, <2>2, <2>3, <2>4, <2>5, <2>6 DEF Environment
<1>10. CASE UNCHANGED vars
  BY <1>10 DEF vars, TypeOK
<1>11. QED
  BY <1>1, <1>2, <1>3, <1>4, <1>5, <1>6, <1>7, <1>8, <1>9, <1>10 DEF Next, SaverStep

(* The store keeps its types, whatever fails, restarts or is erased: m_EC1 *)
(* and m_EC2 stay within EveMax, and so do the persisted counters.         *)
THEOREM StoreTypes == Spec => []TypeOK
BY InitTypeOK, TypeStep, PTL DEF Spec
--------------------------------------------------------------------------------
(* The limit of a kind.  StoreInv is inductive when the database works and *)
(* every kind has one saving thread.                                       *)

LEMMA InitStoreInv == Init => StoreInv
<1>1. SUFFICES ASSUME Init PROVE StoreInv
  OBVIOUS
<1>2. \A p \in Priority, e \in Erc : Count(tab[p], e) = 0
  BY <1>1, CountEmpty DEF Init
<1>3. \A s \in Saver : saving[s].pc = "idle"
  BY <1>1 DEF Init, NotSaving, Saving
<1>4. QED
  BY <1>1, <1>2, <1>3, StoreAssumption
     DEF Init, StoreInv, ErcBound, NoUndercount, NothingWithoutTables, SaveInv, Occupied

(* A database call can only fail when the tables are gone, and then there  *)
(* are no records.                                                         *)
LEMMA FailsOnlyWithoutTables ==
  ASSUME NoFailures, TypeOK, StoreInv, Fails
  PROVE  \A p \in Priority : tab[p] = {}
BY StoreAssumption
   DEF NoFailures, TypeOK, StoreInv, Fails, May, NothingWithoutTables, Causes

(* A step of one thread leaves the kinds of the others alone: the tables   *)
(* hold no more of them, m_ErcNum does not change for them.                *)
LEMMA OthersUndisturbed ==
  ASSUME TypeOK, TypeOK', StoreInv, OneThreadPerKind,
         NEW s \in Saver, NEW e \in Saves[s],
         saving[s].pc = "idle" \/ saving[s].erc = e,
         saving'[s].pc = "idle" \/ saving'[s].erc = e,
         \A t \in Saver : t # s => saving'[t] = saving[t],
         \A p \in Priority, k \in Erc : k # e => Count(tab'[p], k) <= Count(tab[p], k),
         \A k \in Erc : k # e => ercNum'[k] = ercNum[k],
         \A p \in Priority : Count(tab'[p], e) <= MAX_NUM_EACH_ERC,
         NothingWithoutTables',
         SaveInv(s)',
         saving'[s].pc = "idle" => \A p \in Priority : Count(tab'[p], e) <= ercNum'[e]
  PROVE  StoreInv'
<1> USE StoreAssumption
<1>1. /\ \A p \in Priority, k \in Erc : Count(tab[p], k) \in Nat /\ Count(tab'[p], k) \in Nat
      /\ \A t \in Saver : saving[t] \in Locals /\ saving'[t] \in Locals
      /\ ercNum \in [Erc -> Nat] /\ ercNum' \in [Erc -> Nat]
      /\ e \in Erc
  BY CountType DEF TypeOK
<1>2. ErcBound'
  BY <1>1 DEF StoreInv, ErcBound
<1>3. \A t \in Saver : t # s /\ saving[t].pc # "idle" => saving[t].erc # e
  BY DEF StoreInv, SaveInv, OneThreadPerKind
<1>4. NoUndercount'
  <2>1. SUFFICES ASSUME NEW k \in Erc, ~Occupied(k)', NEW p \in Priority
                 PROVE  Count(tab'[p], k) <= ercNum'[k]
    BY DEF NoUndercount
  <2>2. CASE k = e
    <3>1. saving'[s].pc = "idle"
      BY <2>1, <2>2 DEF Occupied
    <3>2. QED
      BY <2>2, <3>1
  <2>3. CASE k # e
    <3>1. ~Occupied(k)
      BY <2>1, <2>3 DEF Occupied
    <3>2. Count(tab[p], k) <= ercNum[k]
      BY <3>1 DEF StoreInv, NoUndercount
    <3>3. QED
      BY <1>1, <2>3, <3>2
  <2>4. QED
    BY <2>2, <2>3
<1>5. ASSUME NEW t \in Saver PROVE SaveInv(t)'
  <2>1. CASE t = s
    BY <2>1
  <2>2. CASE t # s
    <3> DEFINE k == saving[t].erc
               p == saving[t].prio
    <3>1. saving'[t] = saving[t] /\ SaveInv(t) /\ saving[t] \in Locals
      BY <1>1, <2>2 DEF StoreInv
    <3>2. CASE saving[t].pc = "idle"
      BY <3>1, <3>2 DEF SaveInv
    <3>3. CASE saving[t].pc # "idle"
      <4>1. k # e /\ k \in Erc /\ p \in Priority /\ Other(p) \in Priority
        BY <1>3, <2>2, <3>1, <3>3 DEF Locals, Other, Priority
      <4>2. /\ Count(tab'[p], k) <= Count(tab[p], k)
            /\ Count(tab'[Other(p)], k) <= Count(tab[Other(p)], k)
            /\ ercNum'[k] = ercNum[k]
        BY <4>1
      <4>3. /\ Count(tab[p], k) \in Nat /\ Count(tab'[p], k) \in Nat
            /\ Count(tab[Other(p)], k) \in Nat /\ Count(tab'[Other(p)], k) \in Nat
            /\ ercNum[k] \in Nat
        BY <1>1, <4>1
      <4>4. QED
        BY <3>1, <4>2, <4>3 DEF SaveInv
    <3>4. QED
      BY <3>2, <3>3
  <2>3. QED
    BY <2>1, <2>2
<1>6. QED
  BY <1>2, <1>4, <1>5 DEF StoreInv

(* Deletions never raise a count.                                          *)
LEMMA DeletionsLower ==
  ASSUME NEW T \in SUBSET Row, IsFiniteSet(T), NEW e, NEW k
  PROVE  /\ Count(WithoutOldest(T, e), k) <= Count(T, k)
         /\ Count(WithoutErc(T, e), k) <= Count(T, k)
         /\ Count(WithoutErc(T, e), e) = 0
<1>1. WithoutOldest(T, e) \in SUBSET T /\ WithoutErc(T, e) \in SUBSET T
  BY DEF WithoutOldest, WithoutErc
<1>2. Rows(WithoutErc(T, e), e) = {}
  BY DEF WithoutErc, Rows
<1>3. QED
  BY <1>1, <1>2, CountSubset, FS_EmptySet DEF Count

LEMMA SaverKeepsStoreInv ==
  ASSUME TypeOK, TypeOK', StoreInv, OneThreadPerKind, NoFailures,
         NEW s \in Saver, SaverStep(s)
  PROVE  StoreInv'
<1> USE StoreAssumption
<1>1. /\ \A p \in Priority : tab[p] \in SUBSET Row /\ IsFiniteSet(tab[p])
      /\ \A p \in Priority, k \in Erc : Count(tab[p], k) \in Nat /\ Count(tab'[p], k) \in Nat
      /\ saving[s] \in Locals /\ saving'[s] \in Locals
      /\ ercNum \in [Erc -> Nat] /\ ercNum' \in [Erc -> Nat]
      /\ \A k \in Saves[s] : k \in Erc
  BY CountType DEF TypeOK
<1>2. /\ SaveInv(s)
      /\ \A p \in Priority, k \in Erc : Count(tab[p], k) <= MAX_NUM_EACH_ERC
  BY DEF StoreInv, ErcBound
<1>3. /\ Other(saving[s].prio) \in Priority
      /\ Priority = {saving[s].prio, Other(saving[s].prio)}
      /\ Other(saving[s].prio) # saving[s].prio
  BY <1>1 DEF Locals, Other, Priority
<1>4. \A p \in Priority : ~tables => tab[p] = {}
  BY DEF StoreInv, NothingWithoutTables
<1>5. \A k : Count({}, k) = 0
  BY CountEmpty
<1>6. Fails => \A p \in Priority : tab[p] = {}
  BY FailsOnlyWithoutTables
<1>6a. ASSUME Fails PROVE \A p \in Priority, k \in Erc : Count(tab[p], k) = 0
  <2>1. ASSUME NEW p \in Priority PROVE tab[p] = {}
    BY <1>6, <1>6a, <2>1
  <2>2. ASSUME NEW p \in Priority, NEW k \in Erc PROVE Count(tab[p], k) = 0
    BY <1>5, <2>1, <2>2, Zenon
  <2>3. QED
    BY <2>2, Zenon
<1>7. ASSUME NEW e \in Saves[s], Begin(s, e) PROVE StoreInv'
  <2>1. saving[s].pc = "idle" /\ saving'[s].erc = e /\ UNCHANGED <<tab, tables, ercNum>>
    BY <1>7 DEF Begin, TypeOK, Saving, db, globals
  <2>2. ~Occupied(e)
    <3>1. \A t \in Saver : t # s /\ saving[t].pc # "idle" => saving[t].erc # e
      BY DEF StoreInv, SaveInv, OneThreadPerKind
    <3>2. QED
      BY <2>1, <3>1 DEF Occupied
  <2>3. \A p \in Priority : Count(tab[p], e) <= ercNum[e]
    BY <1>1, <2>2 DEF StoreInv, NoUndercount
  <2>4. rating[e] \in Priority /\ e \in Erc
    BY <1>1 DEF TypeOK
  <2>5. /\ saving'[s].pc = IF IsFull(ercNum[e]) THEN "evict" ELSE "insert"
        /\ saving'[s].old = ercNum[e] /\ saving'[s].prio = rating[e]
    BY <1>7 DEF Begin, TypeOK, Saving
  <2>6. SaveInv(s)'
    <3>1. saving'[s].res = 0
      BY <1>7 DEF Begin, TypeOK, Saving
    <3>2. QED
      BY <1>1, <2>1, <2>3, <2>4, <2>5, <3>1 DEF SaveInv, IsFull
  <2>7. \A t \in Saver : t # s => saving'[t] = saving[t]
    BY <1>7 DEF Begin, TypeOK
  <2>8. NothingWithoutTables'
    BY <1>4, <2>1 DEF NothingWithoutTables
  <2>9. QED
    BY <1>1, <1>2, <2>1, <2>5, <2>6, <2>7, <2>8, OthersUndisturbed
<1> DEFINE e == saving[s].erc
           p0 == saving[s].prio
<1>8. ASSUME saving[s].pc # "idle" PROVE e \in Saves[s] /\ e \in Erc /\ p0 \in Priority
  BY <1>1, <1>2, <1>8 DEF SaveInv, Locals
<1>9. CASE DeleteEvent(s)
  <2>1. saving[s].pc = "evict"
    BY <1>9 DEF DeleteEvent, Calls
  <2>2. /\ saving'[s] = [saving[s] EXCEPT !.pc = "recount"]
        /\ \A t \in Saver : t # s => saving'[t] = saving[t]
        /\ UNCHANGED <<tables, ercNum>>
    BY <1>9 DEF DeleteEvent, Goto, TypeOK, globals
  <2>3. \A p \in Priority, k \in Erc : Count(tab'[p], k) <= Count(tab[p], k)
    BY <1>1, <1>8, <1>9, <2>1, DeletionsLower DEF DeleteEvent, TypeOK
  <2>4. Count(tab'[p0], e) < MAX_NUM_EACH_ERC
    <3>1. CASE Fails /\ UNCHANGED tab
      <4>1. Count(tab[p0], e) = 0
        BY <1>6a, <1>8, <2>1, <3>1
      <4>2. Count(tab'[p0], e) = Count(tab[p0], e)
        BY <3>1
      <4>3. QED
        BY <4>1, <4>2
    <3>2. CASE tab' = [tab EXCEPT ![p0] = WithoutOldest(@, e)]
      <4>1. tab'[p0] = WithoutOldest(tab[p0], e)
        BY <1>8, <2>1, <3>2 DEF TypeOK
      <4>2. Count(tab'[p0], e) = 0 \/ Count(tab'[p0], e) < Count(tab[p0], e)
        BY <1>1, <1>8, <2>1, <4>1, CountWithoutOldest
      <4>3. QED
        BY <1>1, <1>2, <1>8, <2>1, <4>2
    <3>3. QED
      BY <1>9, <3>1, <3>2 DEF DeleteEvent
  <2>5. SaveInv(s)'
    BY <1>1, <1>2, <1>8, <2>1, <2>2, <2>4 DEF SaveInv, Locals
  <2>6. NothingWithoutTables'
    BY <1>4, <1>9, <2>2 DEF NothingWithoutTables, DeleteEvent, Works
  <2>7. saving'[s].pc = "recount" /\ saving'[s].erc = e
    BY <1>1, <2>2 DEF Locals
  <2>8. \A p \in Priority : Count(tab'[p], e) <= MAX_NUM_EACH_ERC
    BY <1>1, <1>2, <1>8, <2>1, <2>3
  <2>9. QED
    BY <1>8, <2>1, <2>2, <2>3, <2>5, <2>6, <2>7, <2>8, OthersUndisturbed
<1>10. CASE GetEvent_Num(s)
  <2>1. saving[s].pc = "recount"
    BY <1>10 DEF GetEvent_Num, Calls
  <2>2. /\ UNCHANGED <<tab, tables>>
        /\ \A t \in Saver : t # s => saving'[t] = saving[t]
        /\ saving'[s].erc = e /\ saving'[s].prio = p0 /\ saving'[s].old = ercNum'[e]
        /\ saving'[s].res = saving[s].res
        /\ saving'[s].pc = IF ercNum'[e] < saving[s].old /\ IsFull(ercNum'[e])
                            THEN "evict" ELSE "insert"
    BY <1>1, <1>10 DEF GetEvent_Num, TypeOK, Locals, db
  <2>3. \A k \in Erc : k # e => ercNum'[k] = ercNum[k]
    BY <1>8, <1>10, <2>1 DEF GetEvent_Num, TypeOK
  <2>4. /\ saving'[s].pc = "insert"
        /\ Count(tab[p0], e) <= ercNum'[e]
        /\ Count(tab[p0], e) < MAX_NUM_EACH_ERC
    <3>1. Count(tab[p0], e) < MAX_NUM_EACH_ERC /\ saving[s].old = ercNum[e]
      BY <1>2, <2>1 DEF SaveInv
    <3>2. CASE Fails /\ UNCHANGED ercNum
      <4>1. Count(tab[p0], e) = 0
        BY <1>6a, <1>8, <2>1, <3>2
      <4>2. ercNum'[e] = ercNum[e] /\ ercNum[e] \in Nat
        BY <1>1, <1>8, <2>1, <3>2
      <4>3. saving'[s].pc = "insert"
        BY <2>2, <3>1, <4>2
      <4>4. QED
        BY <4>1, <4>2, <4>3
    <3>3. CASE ercNum' = [ercNum EXCEPT ![e] = Count(tab[p0], e)]
      BY <1>1, <1>8, <2>1, <2>2, <3>1, <3>3 DEF IsFull
    <3>4. QED
      BY <1>10, <3>2, <3>3 DEF GetEvent_Num
  <2>5. SaveInv(s)'
    BY <1>1, <1>2, <1>8, <2>1, <2>2, <2>4 DEF SaveInv
  <2>6. NothingWithoutTables'
    BY <1>4, <2>2 DEF NothingWithoutTables
  <2>7. QED
    BY <1>1, <1>2, <1>8, <2>1, <2>2, <2>3, <2>4, <2>5, <2>6, OthersUndisturbed
<1>11. CASE InsertEvent(s)
  <2>1. saving[s].pc = "insert"
    BY <1>11 DEF InsertEvent, Calls
  <2>2. /\ \A t \in Saver : t # s => saving'[t] = saving[t]
        /\ saving'[s].erc = e /\ saving'[s].prio = p0 /\ saving'[s].pc = "ec1"
        /\ saving'[s].res = saving[s].res
        /\ UNCHANGED <<tables, ercNum>>
    BY <1>1, <1>11 DEF InsertEvent, TypeOK, Locals
  <2>3. /\ \A p \in Priority, k \in Erc : k # e => Count(tab'[p], k) <= Count(tab[p], k)
        /\ Count(tab'[p0], e) <= Count(tab[p0], e) + 1
        /\ Count(tab'[Other(p0)], e) <= Count(tab[Other(p0)], e)
    <3>1. CASE UNCHANGED tab
      BY <1>1, <1>3, <1>8, <2>1, <3>1
    <3>2. CASE tab' = [tab EXCEPT ![p0] = Inserted(@, e, saving[s].time,
                                         IF p0 = OrdinaryEvent THEN 0 ELSE 1)]
      <4> DEFINE U == Inserted(tab[p0], e, saving[s].time,
                               IF p0 = OrdinaryEvent THEN 0 ELSE 1)
      <4>1. Count(U, e) <= Count(tab[p0], e) + 1 /\ \A k : k # e => Count(U, k) = Count(tab[p0], k)
        BY <1>1, <1>8, <2>1, CountInserted
      <4>2. /\ tab'[p0] = U
            /\ tab'[Other(p0)] = tab[Other(p0)]
        BY <1>3, <1>8, <2>1, <3>2 DEF TypeOK
      <4>3. QED
        BY <1>1, <1>3, <1>8, <2>1, <4>1, <4>2
    <3>3. QED
      BY <1>11, <3>1, <3>2 DEF InsertEvent
  <2>4. /\ Count(tab[p0], e) < MAX_NUM_EACH_ERC
        /\ Count(tab[p0], e) <= ercNum[e]
        /\ saving[s].res = 0
    BY <1>2, <2>1 DEF SaveInv
  <2>5. SaveInv(s)'
    BY <1>1, <1>8, <2>1, <2>2, <2>3, <2>4 DEF SaveInv
  <2>6. NothingWithoutTables'
    BY <1>4, <1>11, <2>2 DEF NothingWithoutTables, InsertEvent, Works
  <2>7. \A p \in Priority : Count(tab'[p], e) <= MAX_NUM_EACH_ERC
    BY <1>1, <1>2, <1>3, <1>8, <2>1, <2>3, <2>4
  <2>8. QED
    BY <1>8, <2>1, <2>2, <2>3, <2>5, <2>6, <2>7, OthersUndisturbed
<1>12. ASSUME NEW r \in {0, -1}, EndUpdate(s, r), UNCHANGED <<tab, tables, ercNum>>,
             saving[s].pc \in {"ec1", "ec1_insert", "ec2", "ec2_insert"},
             r = -1 => \A p \in Priority : tab[p] = {}
       PROVE StoreInv'
  <2>1. /\ \A t \in Saver : t # s => saving'[t] = saving[t]
        /\ saving'[s].erc = e /\ saving'[s].prio = p0
        /\ saving'[s].pc \in {"ec2", "other"}
        /\ saving'[s].res \in {r, saving[s].res}
    BY <1>1, <1>12 DEF EndUpdate, After, TypeOK, Locals
  <2>2. /\ Count(tab[p0], e) <= ercNum[e] + 1
        /\ saving[s].res = -1 => Count(tab[p0], e) = 0
        /\ r = -1 => Count(tab[p0], e) = 0
    BY <1>2, <1>5, <1>8, <1>12 DEF SaveInv
  <2>3. saving'[s].res = -1 => Count(tab[p0], e) = 0
    BY <2>1, <2>2
  <2>4. SaveInv(s)'
    BY <1>8, <1>12, <2>1, <2>2, <2>3 DEF SaveInv
  <2>5. NothingWithoutTables'
    BY <1>4, <1>12 DEF NothingWithoutTables
  <2>6. QED
    BY <1>1, <1>2, <1>8, <1>12, <2>1, <2>4, <2>5, OthersUndisturbed
<1>13. CASE UpdateEC(s)
  <2>1. saving[s].pc \in {"ec1", "ec2"} /\ UNCHANGED <<tab, tables, ercNum>>
    BY <1>13 DEF UpdateEC, Calls, globals
  <2>2. CASE Fails /\ EndUpdate(s, -1)
    BY <1>6, <1>12, <2>1, <2>2
  <2>3. CASE Goto(s, IF saving[s].pc = "ec1" THEN "ec1_insert" ELSE "ec2_insert")
    <3>1. /\ \A t \in Saver : t # s => saving'[t] = saving[t]
          /\ saving'[s].erc = e /\ saving'[s].prio = p0
          /\ saving'[s].pc \in {"ec1_insert", "ec2_insert"}
          /\ saving'[s].res = saving[s].res
      BY <1>1, <2>3 DEF Goto, TypeOK, Locals
    <3>2. SaveInv(s)'
      BY <1>2, <1>8, <2>1, <3>1 DEF SaveInv
    <3>3. NothingWithoutTables'
      BY <1>4, <2>1 DEF NothingWithoutTables
    <3>4. QED
      BY <1>1, <1>2, <1>8, <2>1, <3>1, <3>2, <3>3, OthersUndisturbed
  <2>4. QED
    BY <1>13, <2>2, <2>3 DEF UpdateEC
<1>14. CASE UpdateEC_insert(s)
  <2>1. /\ saving[s].pc \in {"ec1_insert", "ec2_insert"}
        /\ UNCHANGED <<tab, tables, ercNum>>
        /\ EndUpdate(s, 0) \/ (Fails /\ EndUpdate(s, -1))
    BY <1>14 DEF UpdateEC_insert, globals
  <2>2. QED
    BY <1>6, <1>12, <2>1
<1>15. CASE DelERC(s)
  <2>1. saving[s].pc = "other" /\ UNCHANGED <<tables, ercNum>>
    BY <1>15 DEF DelERC, Calls, globals
  <2>2. /\ \A p \in Priority, k \in Erc : Count(tab'[p], k) <= Count(tab[p], k)
        /\ Count(tab'[Other(p0)], e) = 0
    <3>1. CASE Fails /\ UNCHANGED tab
      <4>1. \A p \in Priority, k \in Erc : Count(tab[p], k) = 0
        BY <1>6a, <3>1
      <4>2. \A p \in Priority, k \in Erc : Count(tab'[p], k) = Count(tab[p], k)
        BY <3>1
      <4>3. e \in Erc
        BY <1>8, <2>1
      <4>4. QED
        BY <1>3, <4>1, <4>2, <4>3
    <3>2. CASE tab' = [tab EXCEPT ![Other(p0)] = WithoutErc(@, e)]
      <4>1. /\ tab'[Other(p0)] = WithoutErc(tab[Other(p0)], e)
            /\ tab'[p0] = tab[p0]
        BY <1>3, <1>8, <2>1, <3>2 DEF TypeOK
      <4>2. QED
        BY <1>1, <1>3, <1>8, <2>1, <4>1, DeletionsLower
    <3>3. QED
      BY <1>15, <3>1, <3>2 DEF DelERC
  <2>3. /\ \A t \in Saver : t # s => saving'[t] = saving[t]
        /\ \/ /\ saving[s].res = -1
              /\ saving'[s].pc = "idle"
           \/ /\ saving[s].res = 0
              /\ saving'[s] = [saving[s] EXCEPT !.pc = "count"]
    BY <1>1, <1>15 DEF DelERC, TypeOK, Locals, NotSaving, Saving
  <2>4. /\ Count(tab[p0], e) <= ercNum[e] + 1
        /\ saving[s].res = -1 => Count(tab[p0], e) = 0
    BY <1>2, <2>1 DEF SaveInv
  <2>5. saving'[s].pc = "idle" \/ (saving'[s].erc = e /\ saving'[s].prio = p0
                                   /\ saving'[s].pc = "count")
    BY <1>1, <2>3 DEF Locals
  <2>6. SaveInv(s)'
    BY <1>1, <1>3, <1>8, <2>1, <2>2, <2>4, <2>5 DEF SaveInv
  <2>7. saving'[s].pc = "idle" => \A p \in Priority : Count(tab'[p], e) <= ercNum'[e]
    <3>1. e \in Erc /\ p0 \in Priority /\ ercNum'[e] = ercNum[e] /\ ercNum[e] \in Nat
      BY <1>1, <1>8, <2>1
    <3>2. Count(tab'[p0], e) <= Count(tab[p0], e)
      BY <2>2, <3>1
    <3>3. CASE saving[s].res = -1
      <4>1. Count(tab'[p0], e) = 0 /\ Count(tab'[Other(p0)], e) = 0
        BY <1>1, <2>2, <2>4, <3>1, <3>2, <3>3
      <4>2. \A p \in Priority : p = p0 \/ p = Other(p0)
        BY <1>3
      <4>3. QED
        BY <3>1, <4>1, <4>2
    <3>4. CASE saving'[s] = [saving[s] EXCEPT !.pc = "count"]
      BY <1>1, <3>4 DEF Locals
    <3>5. QED
      BY <2>3, <3>3, <3>4
  <2>8. NothingWithoutTables'
    BY <1>4, <1>15, <2>1 DEF NothingWithoutTables, DelERC, Works
  <2>9. \A p \in Priority : Count(tab'[p], e) <= MAX_NUM_EACH_ERC
    BY <1>1, <1>2, <1>8, <2>1, <2>2
  <2>10. QED
    BY <1>8, <2>1, <2>2, <2>3, <2>5, <2>6, <2>7, <2>8, <2>9, OthersUndisturbed
<1>16. CASE CountRecord(s)
  <2>1. /\ saving[s].pc = "count" /\ UNCHANGED <<tab, tables>>
        /\ saving'[s].pc = "idle"
        /\ \A t \in Saver : t # s => saving'[t] = saving[t]
        /\ ercNum' = [ercNum EXCEPT ![e] = @ + 1]
    BY <1>16 DEF CountRecord, TypeOK, NotSaving, Saving, db
  <2>2. Count(tab[p0], e) <= ercNum[e] + 1 /\ Count(tab[Other(p0)], e) = 0
    BY <1>2, <2>1 DEF SaveInv
  <2>3. \A p \in Priority : Count(tab'[p], e) <= ercNum'[e]
    BY <1>1, <1>3, <1>8, <2>1, <2>2
  <2>4. SaveInv(s)'
    BY <2>1 DEF SaveInv
  <2>5. NothingWithoutTables'
    BY <1>4, <2>1 DEF NothingWithoutTables
  <2>6. QED
    BY <1>1, <1>2, <1>8, <2>1, <2>3, <2>4, <2>5, OthersUndisturbed
<1>17. QED
  BY <1>7, <1>9, <1>10, <1>11, <1>13, <1>14, <1>15, <1>16 DEF SaverStep

(* Erasing the file empties every table, a restart counts the records      *)
(* anew, and the rest of the environment leaves the records alone.         *)
LEMMA EnvironmentKeepsStoreInv ==
  ASSUME TypeOK, TypeOK', StoreInv, Environment
  PROVE  StoreInv'
<1> USE StoreAssumption
<1>1. /\ \A p \in Priority, k \in Erc : Count(tab[p], k) \in Nat
      /\ \A t \in Saver : saving[t] \in Locals
      /\ ercNum \in [Erc -> Nat]
  BY CountType DEF TypeOK
<1>2. ASSUME UNCHANGED <<tab, ercNum, saving>>, tables => tables' PROVE StoreInv'
  <2>1. NothingWithoutTables'
    BY <1>2 DEF StoreInv, NothingWithoutTables
  <2>2. ErcBound' /\ NoUndercount'
    BY <1>2 DEF StoreInv, ErcBound, NoUndercount, Occupied
  <2>3. \A s \in Saver : SaveInv(s)'
    BY <1>2 DEF StoreInv, SaveInv
  <2>4. QED
    BY <2>1, <2>2, <2>3 DEF StoreInv
<1>3. CASE RemoveFile
  <2>1. \A p \in Priority, k \in Erc : Count(tab'[p], k) = 0
    BY <1>3, CountEmpty DEF RemoveFile
  <2>2. UNCHANGED <<ercNum, saving>> /\ \A p \in Priority : tab'[p] = {}
    BY <1>3 DEF RemoveFile, globals
  <2>3. ErcBound' /\ NoUndercount' /\ NothingWithoutTables'
    BY <1>1, <2>1, <2>2 DEF ErcBound, NoUndercount, NothingWithoutTables
  <2>4. ASSUME NEW s \in Saver PROVE SaveInv(s)'
    <3>1. /\ saving[s].erc \in Erc /\ saving[s].prio \in Priority
          /\ Other(saving[s].prio) \in Priority
      BY <1>1 DEF Locals, Other, Priority
    <3>2. SaveInv(s)
      BY DEF StoreInv
    <3>3. QED
      BY <1>1, <2>1, <2>2, <3>1, <3>2 DEF SaveInv
  <2>5. QED
    BY <2>3, <2>4 DEF StoreInv
<1>4. CASE Restart
  <2>1. /\ UNCHANGED tab /\ tables'
        /\ \A s \in Saver : saving'[s].pc = "idle"
        /\ \A k \in Erc : ercNum'[k] = Recounted(k)
    BY <1>4 DEF Restart, NotSaving, Saving
  <2>2. \A p \in Priority, k \in Erc : Count(tab[p], k) <= Recounted(k)
    BY <1>1 DEF Recounted, Priority
  <2>3. ErcBound' /\ NoUndercount' /\ NothingWithoutTables'
    BY <1>1, <2>1, <2>2 DEF StoreInv, ErcBound, NoUndercount, NothingWithoutTables
  <2>4. \A s \in Saver : SaveInv(s)'
    BY <2>1 DEF SaveInv
  <2>5. QED
    BY <2>3, <2>4 DEF StoreInv
<1>5. CASE Tick \/ \E t \in 0 .. MaxTime : SetClock(t)
  BY <1>2, <1>5 DEF Tick, SetClock, db, globals
<1>6. CASE \E e \in Erc, v \in BOOLEAN, p \in Priority : SetF9(e, v, p)
  BY <1>2, <1>6 DEF SetF9, db, globals
<1>7. CASE create_table
  BY <1>2, <1>7 DEF create_table, globals
<1>8. QED
  BY <1>3, <1>4, <1>5, <1>6, <1>7 DEF Environment

LEMMA StoreNext ==
  ASSUME OneThreadPerKind, NoFailures
  PROVE  TypeOK /\ TypeOK' /\ StoreInv /\ [Next]_vars => StoreInv'
<1>1. SUFFICES ASSUME TypeOK, TypeOK', StoreInv, [Next]_vars PROVE StoreInv'
  OBVIOUS
<1>2. CASE \E s \in Saver : SaverStep(s)
  BY <1>1, <1>2, SaverKeepsStoreInv
<1>3. CASE Environment
  BY <1>1, <1>3, EnvironmentKeepsStoreInv
<1>4. CASE UNCHANGED vars
  BY <1>1, <1>4 DEF vars, StoreInv, ErcBound, NoUndercount, NothingWithoutTables,
                    SaveInv, Occupied
<1>5. QED
  BY <1>1, <1>2, <1>3, <1>4 DEF Next

(* The invariant behind the next two theorems, as the run store_own_kinds  *)
(* checks it: m_ErcNum is exact enough at every point of a save.           *)
THEOREM StoreInvariant ==
  ASSUME OneThreadPerKind, NoFailures
  PROVE  Spec => []StoreInv
BY InitTypeOK, InitStoreInv, TypeStep, StoreNext, PTL DEF Spec

(* However many threads save, and whatever the clock, the configuration,   *)
(* erasure of the file and power failures do in between: as long as each   *)
(* kind has one saving thread and the database works, neither table ever   *)
(* holds more than MAX_NUM_EACH_ERC records of a kind (saveEventFile).     *)
THEOREM AtMostTenOfAKind ==
  ASSUME OneThreadPerKind, NoFailures
  PROVE  Spec => []ErcBound
<1>1. StoreInv => ErcBound
  BY DEF StoreInv
<1>2. QED
  BY <1>1, StoreInvariant, PTL

(* Under the same conditions m_ErcNum is never behind the tables when a    *)
(* save begins.                                                            *)
THEOREM CountedBeforeSave ==
  ASSUME OneThreadPerKind, NoFailures
  PROVE  Spec => []NoUndercount
<1>1. StoreInv => NoUndercount
  BY DEF StoreInv
<1>2. QED
  BY <1>1, StoreInvariant, PTL

--------------------------------------------------------------------------------
(* What a save promises.                                                    *)

(* Causes are counted, and no count goes down.                             *)
LEMMA UsedGrows ==
  ASSUME TypeOK, [Next]_vars
  PROVE  \A c \in Causes : used'[c] >= used[c]
<1>1. used \in [Causes -> Nat]
  BY DEF TypeOK
<1>2. ASSUME NEW c \in Causes, Using(c) PROVE \A d \in Causes : used'[d] >= used[d]
  BY <1>1, <1>2 DEF Using
<1>3. ASSUME UNCHANGED used PROVE \A d \in Causes : used'[d] >= used[d]
  BY <1>1, <1>3
<1>4. ASSUME Works \/ Fails PROVE \A d \in Causes : used'[d] >= used[d]
  <2>1. "failures" \in Causes
    BY DEF Causes
  <2>2. QED
    BY <1>2, <1>3, <1>4, <2>1 DEF Works, Fails
<1>5. ASSUME NEW s \in Saver, SaverStep(s) PROVE \A d \in Causes : used'[d] >= used[d]
  <2>1. CASE \E e \in Saves[s] : Begin(s, e)
    <3>1. Using("saves") /\ "saves" \in Causes
      BY <2>1 DEF Begin, Causes
    <3>2. QED
      BY <1>2, <3>1
  <2>2. CASE DeleteEvent(s) \/ GetEvent_Num(s) \/ InsertEvent(s) \/ UpdateEC(s) \/ DelERC(s)
    BY <1>4, <2>2 DEF DeleteEvent, GetEvent_Num, InsertEvent, UpdateEC, DelERC
  <2>3. CASE UpdateEC_insert(s)
    BY <1>3, <1>4, <2>3 DEF UpdateEC_insert
  <2>4. CASE CountRecord(s)
    BY <1>3, <2>4 DEF CountRecord
  <2>5. QED
    BY <1>5, <2>1, <2>2, <2>3, <2>4 DEF SaverStep
<1>6. ASSUME Environment PROVE \A d \in Causes : used'[d] >= used[d]
  <2>1. CASE Tick \/ create_table
    BY <1>3, <2>1 DEF Tick, create_table
  <2>2. ASSUME NEW t \in 0 .. MaxTime, SetClock(t) PROVE \A d \in Causes : used'[d] >= used[d]
    BY <1>2, <2>2 DEF SetClock, Causes
  <2>3. ASSUME NEW e \in Erc, NEW v \in BOOLEAN, NEW p \in Priority, SetF9(e, v, p)
        PROVE \A d \in Causes : used'[d] >= used[d]
    BY <1>2, <2>3 DEF SetF9, Causes
  <2>4. CASE RemoveFile \/ Restart
    BY <1>2, <2>4 DEF RemoveFile, Restart, Causes
  <2>5. QED
    BY <1>6, <2>1, <2>2, <2>3, <2>4 DEF Environment
<1>7. QED
  BY <1>3, <1>5, <1>6 DEF Next, vars

LEMMA WithoutBefore ==
  ASSUME TypeOK, TypeOK', [Next]_vars, NEW C \in SUBSET Causes, Without(C)'
  PROVE  Without(C)
<1>1. \A c \in Causes : used'[c] >= used[c] /\ used[c] \in Nat /\ used'[c] \in Nat
  BY UsedGrows DEF TypeOK
<1>2. QED
  BY <1>1 DEF Without

(* A call that fails counts as a failure, unless there are no tables.      *)
LEMMA FailureCounts ==
  ASSUME TypeOK, Fails, tables
  PROVE  used'["failures"] # 0
BY DEF TypeOK, Fails, Using, Causes

(* A step of a save leaves the other threads, F9, the clock and the kinds  *)
(* of the others alone.                                                    *)
LEMMA SaverFrame ==
  ASSUME TypeOK, NEW s \in Saver, SaverStep(s)
  PROVE  /\ \A t \in Saver : t # s => saving'[t] = saving[t]
         /\ UNCHANGED <<tables, rating, clock>>
         /\ \A p \in Priority, k \in Erc :
              k # saving[s].erc => Rows(tab'[p], k) = Rows(tab[p], k)
         /\ \A k \in Erc : k # saving[s].erc => ercNum'[k] = ercNum[k]
<1>1. saving[s] \in Locals /\ saving \in [Saver -> Locals]
  BY DEF TypeOK
<1>2. Other(saving[s].prio) \in Priority /\ saving[s].prio \in Priority
  BY <1>1 DEF Locals, Other, Priority
<1>3. CASE \E e \in Saves[s] : Begin(s, e)
  BY <1>1, <1>3 DEF Begin, db, globals, config
<1>4. CASE DeleteEvent(s)
  <2>1. /\ \A t \in Saver : t # s => saving'[t] = saving[t]
        /\ UNCHANGED <<tables, rating, clock, ercNum>>
    BY <1>1, <1>4 DEF DeleteEvent, Goto, globals, config
  <2>2. ASSUME NEW p \in Priority, NEW k \in Erc, k # saving[s].erc
        PROVE  Rows(tab'[p], k) = Rows(tab[p], k)
    <3>1. tab'[p] = tab[p] \/ tab'[p] = WithoutOldest(tab[p], saving[s].erc)
      BY <1>2, <1>4 DEF DeleteEvent, TypeOK
    <3>2. QED
      BY <2>2, <3>1 DEF WithoutOldest, Oldest, Rows
  <2>3. QED
    BY <2>1, <2>2
<1>5. CASE GetEvent_Num(s)
  <2>1. /\ \A t \in Saver : t # s => saving'[t] = saving[t]
        /\ UNCHANGED <<tab, tables, rating, clock>>
    BY <1>1, <1>5 DEF GetEvent_Num, db, config
  <2>2. \A k \in Erc : k # saving[s].erc => ercNum'[k] = ercNum[k]
    BY <1>1, <1>5 DEF GetEvent_Num, TypeOK
  <2>3. QED
    BY <2>1, <2>2
<1>6. CASE InsertEvent(s)
  <2>1. /\ \A t \in Saver : t # s => saving'[t] = saving[t]
        /\ UNCHANGED <<tables, rating, clock, ercNum>>
    BY <1>1, <1>6 DEF InsertEvent, config
  <2>2. ASSUME NEW p \in Priority, NEW k \in Erc, k # saving[s].erc
        PROVE  Rows(tab'[p], k) = Rows(tab[p], k)
    <3>1. PICK flag \in {0, 1} :
            tab'[p] = tab[p] \/ tab'[p] = Inserted(tab[p], saving[s].erc, saving[s].time, flag)
      BY <1>2, <1>6 DEF InsertEvent, TypeOK
    <3>2. QED
      BY <2>2, <3>1 DEF Inserted, Rows
  <2>3. QED
    BY <2>1, <2>2
<1>7. CASE UpdateEC(s)
  BY <1>1, <1>7 DEF UpdateEC, Goto, EndUpdate, globals, config
<1>8. CASE UpdateEC_insert(s)
  BY <1>1, <1>8 DEF UpdateEC_insert, EndUpdate, globals, config
<1>9. CASE DelERC(s)
  <2>1. /\ \A t \in Saver : t # s => saving'[t] = saving[t]
        /\ UNCHANGED <<tables, rating, clock, ercNum>>
    BY <1>1, <1>9 DEF DelERC, globals, config
  <2>2. ASSUME NEW p \in Priority, NEW k \in Erc, k # saving[s].erc
        PROVE  Rows(tab'[p], k) = Rows(tab[p], k)
    <3>1. tab'[p] = tab[p] \/ tab'[p] = WithoutErc(tab[p], saving[s].erc)
      BY <1>2, <1>9 DEF DelERC, TypeOK
    <3>2. QED
      BY <2>2, <3>1 DEF WithoutErc, Rows
  <2>3. QED
    BY <2>1, <2>2
<1>10. CASE CountRecord(s)
  BY <1>1, <1>10 DEF CountRecord, TypeOK, db, config
<1>11. QED
  BY <1>3, <1>4, <1>5, <1>6, <1>7, <1>8, <1>9, <1>10 DEF SaverStep

(* Until it ends, a save is of the kind, the class and the time with which *)
(* it began, and the kind is one of its thread's.                          *)
LEMMA SaverKeepsLocals ==
  ASSUME TypeOK, NEW s \in Saver, SaverStep(s), saving[s].pc # "idle"
  PROVE  \/ saving'[s].pc = "idle"
         \/ /\ saving'[s].erc = saving[s].erc
            /\ saving'[s].prio = saving[s].prio
            /\ saving'[s].time = saving[s].time
<1>1. saving[s] \in Locals /\ saving \in [Saver -> Locals]
  BY DEF TypeOK
<1>2. CASE \E e \in Saves[s] : Begin(s, e)
  BY <1>2 DEF Begin
<1>3. CASE DeleteEvent(s)
  BY <1>1, <1>3 DEF DeleteEvent, Goto, Locals
<1>4. CASE GetEvent_Num(s)
  BY <1>1, <1>4 DEF GetEvent_Num, Locals
<1>5. CASE InsertEvent(s)
  BY <1>1, <1>5 DEF InsertEvent, Locals
<1>6. CASE UpdateEC(s)
  BY <1>1, <1>6 DEF UpdateEC, Goto, EndUpdate, Locals
<1>7. CASE UpdateEC_insert(s)
  BY <1>1, <1>7 DEF UpdateEC_insert, EndUpdate, Locals
<1>8. CASE DelERC(s)
  BY <1>1, <1>8 DEF DelERC, NotSaving, Saving, Locals
<1>9. CASE CountRecord(s)
  BY <1>1, <1>9 DEF CountRecord, NotSaving, Saving
<1>10. QED
  BY <1>2, <1>3, <1>4, <1>5, <1>6, <1>7, <1>8, <1>9 DEF SaverStep

OwnsKind == \A s \in Saver : saving[s].pc # "idle" => saving[s].erc \in Saves[s]

LEMMA InitOwnsKind == Init => OwnsKind
BY DEF Init, OwnsKind, NotSaving, Saving

LEMMA OwnsKindStep == TypeOK /\ OwnsKind /\ [Next]_vars => OwnsKind'
<1> SUFFICES ASSUME TypeOK, OwnsKind, [Next]_vars PROVE OwnsKind'
  OBVIOUS
<1>1. ASSUME NEW s \in Saver, SaverStep(s) PROVE OwnsKind'
  <2>1. \A t \in Saver : t # s => saving'[t] = saving[t]
    BY <1>1, SaverFrame
  <2>2. saving'[s].pc # "idle" => saving'[s].erc \in Saves[s]
    <3>1. CASE saving[s].pc = "idle"
      <4>1. PICK e \in Saves[s] : Begin(s, e)
        BY <1>1, <3>1 DEF SaverStep, DeleteEvent, GetEvent_Num, InsertEvent, UpdateEC,
                          UpdateEC_insert, DelERC, CountRecord, Calls
      <4>2. saving'[s].erc = e
        BY <4>1 DEF Begin, Saving, TypeOK
      <4>3. QED
        BY <4>2
    <3>2. CASE saving[s].pc # "idle"
      BY <1>1, <3>2, SaverKeepsLocals DEF OwnsKind
    <3>3. QED
      BY <3>1, <3>2
  <2>3. QED
    BY <2>1, <2>2 DEF OwnsKind
<1>2. CASE Restart
  BY <1>2 DEF Restart, OwnsKind, NotSaving, Saving
<1>3. CASE UNCHANGED saving
  BY <1>3 DEF OwnsKind
<1>4. CASE Environment
  BY <1>2, <1>3, <1>4 DEF Environment, Tick, SetClock, SetF9, RemoveFile, create_table
<1>5. QED
  BY <1>1, <1>3, <1>4 DEF Next, vars

(* No two threads are saving the same kind.                                *)
LEMMA OthersKinds ==
  ASSUME OneThreadPerKind, OwnsKind, NEW s \in Saver, NEW t \in Saver, s # t,
         saving[s].pc # "idle", saving[t].pc # "idle"
  PROVE  saving[s].erc # saving[t].erc
BY DEF OneThreadPerKind, OwnsKind
--------------------------------------------------------------------------------
(* A success is stored.                                                    *)

Recorded == {"ec1", "ec1_insert", "ec2", "ec2_insert", "other", "count"}

StoredBy(s) ==
  /\ saving[s].pc \in Recorded =>
       \E r \in Rows(tab[saving[s].prio], saving[s].erc) : r.time = saving[s].time
  /\ saving[s].pc = "count" => Rows(tab[Other(saving[s].prio)], saving[s].erc) = {}

(* From the insert to the end of a save its record is in the table, and    *)
(* the other class is empty of its kind when the save is counted.          *)
StoredInv ==
  Without({"resets", "failures"}) => tables /\ \A s \in Saver : StoredBy(s)

LEMMA InitStored == Init => StoredInv
BY DEF Init, StoredInv, StoredBy, Recorded, NotSaving, Saving

LEMMA StoredSaver ==
  ASSUME TypeOK, TypeOK', OwnsKind, OneThreadPerKind,
         Without({"resets", "failures"})', tables, \A s \in Saver : StoredBy(s),
         NEW s \in Saver, SaverStep(s)
  PROVE  \A t \in Saver : StoredBy(t)'
<1>1. /\ saving[s] \in Locals /\ saving \in [Saver -> Locals]
      /\ Other(saving[s].prio) \in Priority /\ saving[s].prio \in Priority
      /\ Other(saving[s].prio) # saving[s].prio
  BY DEF TypeOK, Locals, Other, Priority
<1>2. ~Fails
  BY FailureCounts DEF Without
<1>3. ASSUME NEW t \in Saver, t # s PROVE StoredBy(t)'
  <2>1. saving'[t] = saving[t] /\ StoredBy(t)
    BY <1>3, SaverFrame
  <2>2. CASE saving[t].pc = "idle"
    BY <2>1, <2>2 DEF StoredBy, Recorded
  <2>3. CASE saving[t].pc # "idle"
    <3>1. saving[s].pc = "idle" => UNCHANGED tab
      BY DEF SaverStep, DeleteEvent, GetEvent_Num, InsertEvent, UpdateEC,
             UpdateEC_insert, DelERC, CountRecord, Calls, Begin, db
    <3>2. /\ saving[t].erc \in Erc /\ saving[t].prio \in Priority
          /\ Other(saving[t].prio) \in Priority
      BY DEF TypeOK, Locals, Other, Priority
    <3>3. saving[s].pc # "idle" => saving[t].erc # saving[s].erc
      BY <1>3, <2>3, OthersKinds
    <3>4. /\ Rows(tab'[saving[t].prio], saving[t].erc) = Rows(tab[saving[t].prio], saving[t].erc)
          /\ Rows(tab'[Other(saving[t].prio)], saving[t].erc)
               = Rows(tab[Other(saving[t].prio)], saving[t].erc)
      BY <3>1, <3>2, <3>3, SaverFrame
    <3>5. QED
      BY <2>1, <3>4 DEF StoredBy
  <2>4. QED
    BY <2>2, <2>3
<1>4. StoredBy(s)'
  <2>1. CASE \E e \in Saves[s] : Begin(s, e)
    <3>1. saving'[s].pc \in {"evict", "insert"}
      BY <1>1, <2>1 DEF Begin, Saving
    <3>2. QED
      BY <3>1 DEF StoredBy, Recorded
  <2>2. CASE DeleteEvent(s)
    <3>1. saving'[s].pc = "recount"
      BY <1>1, <2>2 DEF DeleteEvent, Goto, Locals
    <3>2. QED
      BY <3>1 DEF StoredBy, Recorded
  <2>3. CASE GetEvent_Num(s)
    <3>1. saving'[s].pc \in {"evict", "insert"}
      BY <1>1, <2>3 DEF GetEvent_Num, Locals
    <3>2. QED
      BY <3>1 DEF StoredBy, Recorded
  <2>4. CASE InsertEvent(s)
    <3>1. PICK flag \in {0, 1} :
            tab'[saving[s].prio] = Inserted(tab[saving[s].prio], saving[s].erc, saving[s].time, flag)
      BY <1>1, <1>2, <2>4 DEF InsertEvent, TypeOK
    <3> DEFINE row == [rowid |-> FreshId(tab[saving[s].prio]), erc |-> saving[s].erc,
                       time |-> saving[s].time, report |-> flag]
    <3>2. row \in Rows(tab'[saving[s].prio], saving[s].erc) /\ row.time = saving[s].time
      BY <3>1 DEF Inserted, Rows
    <3>3. saving'[s].pc = "ec1" /\ saving[s].pc = "insert"
      BY <1>1, <2>4 DEF InsertEvent, Calls, Locals
    <3>4. saving'[s].erc = saving[s].erc /\ saving'[s].prio = saving[s].prio
            /\ saving'[s].time = saving[s].time
      BY <3>3, SaverKeepsLocals
    <3>5. QED
      BY <3>2, <3>3, <3>4 DEF StoredBy
  <2>5. CASE UpdateEC(s) \/ UpdateEC_insert(s)
    <3>1. saving[s].pc \in Recorded /\ saving'[s].pc \in Recorded \ {"count"} /\ UNCHANGED tab
      <4>1. CASE UpdateEC(s)
        <5>1. saving[s].pc \in {"ec1", "ec2"} /\ UNCHANGED tab
          BY <4>1 DEF UpdateEC, Calls
        <5>2. saving'[s].pc \in {"ec1_insert", "ec2_insert", "ec2", "other"}
          BY <1>1, <4>1, <5>1 DEF UpdateEC, Goto, EndUpdate, After, Locals
        <5>3. QED
          BY <5>1, <5>2 DEF Recorded
      <4>2. CASE UpdateEC_insert(s)
        <5>1. saving[s].pc \in {"ec1_insert", "ec2_insert"} /\ UNCHANGED tab
          BY <4>2 DEF UpdateEC_insert
        <5>2. saving'[s].pc \in {"ec2", "other"}
          BY <1>1, <4>2, <5>1 DEF UpdateEC_insert, EndUpdate, After, Locals
        <5>3. QED
          BY <5>1, <5>2 DEF Recorded
      <4>3. QED
        BY <2>5, <4>1, <4>2
    <3>2. saving'[s].erc = saving[s].erc /\ saving'[s].prio = saving[s].prio
            /\ saving'[s].time = saving[s].time
      BY <3>1, SaverKeepsLocals DEF Recorded
    <3>3. QED
      BY <3>1, <3>2 DEF StoredBy
  <2>6. CASE DelERC(s)
    <3>1. /\ tab'[saving[s].prio] = tab[saving[s].prio]
          /\ tab'[Other(saving[s].prio)] = WithoutErc(tab[Other(saving[s].prio)], saving[s].erc)
      BY <1>1, <1>2, <2>6 DEF DelERC, TypeOK
    <3>2. Rows(tab'[Other(saving[s].prio)], saving[s].erc) = {}
      BY <3>1 DEF WithoutErc, Rows
    <3>3. saving[s].pc = "other"
      BY <2>6 DEF DelERC, Calls
    <3>4. CASE saving'[s].pc = "idle"
      BY <3>4 DEF StoredBy, Recorded
    <3>5. CASE saving'[s].pc # "idle"
      <4>1. saving'[s].erc = saving[s].erc /\ saving'[s].prio = saving[s].prio
              /\ saving'[s].time = saving[s].time
        BY <3>3, <3>5, SaverKeepsLocals
      <4>2. QED
        BY <3>1, <3>2, <3>3, <4>1 DEF StoredBy, Recorded
    <3>6. QED
      BY <3>4, <3>5
  <2>7. CASE CountRecord(s)
    <3>1. saving'[s].pc = "idle"
      BY <1>1, <2>7 DEF CountRecord, NotSaving, Saving
    <3>2. QED
      BY <3>1 DEF StoredBy, Recorded
  <2>8. QED
    BY <2>1, <2>2, <2>3, <2>4, <2>5, <2>6, <2>7 DEF SaverStep
<1>5. QED
  BY <1>3, <1>4

LEMMA StoredStep ==
  ASSUME OneThreadPerKind
  PROVE  TypeOK /\ TypeOK' /\ OwnsKind /\ StoredInv /\ [Next]_vars => StoredInv'
<1> SUFFICES ASSUME TypeOK, TypeOK', OwnsKind, StoredInv, [Next]_vars,
                    Without({"resets", "failures"})'
             PROVE  tables' /\ \A s \in Saver : StoredBy(s)'
  BY DEF StoredInv
<1>1. Without({"resets", "failures"})
  BY WithoutBefore DEF Causes
<1>2. tables /\ \A s \in Saver : StoredBy(s)
  BY <1>1 DEF StoredInv
<1>3. CASE \E s \in Saver : SaverStep(s)
  <2>1. PICK s \in Saver : SaverStep(s)
    BY <1>3
  <2>2. tables'
    BY <1>2, <2>1, SaverFrame
  <2>3. QED
    BY <1>2, <2>1, <2>2, StoredSaver
<1>4. CASE RemoveFile
  <2>1. used'["resets"] # 0
    BY <1>4 DEF RemoveFile, Using, TypeOK, Causes
  <2>2. QED
    BY <2>1 DEF Without
<1>5. CASE Restart
  BY <1>5 DEF Restart, StoredBy, Recorded, NotSaving, Saving
<1>6. CASE UNCHANGED <<tab, tables, saving>>
  BY <1>2, <1>6 DEF StoredBy
<1>7. CASE Environment
  BY <1>2, <1>4, <1>5, <1>6, <1>7 DEF Environment, Tick, SetClock, SetF9, create_table, db
<1>8. QED
  BY <1>3, <1>6, <1>7 DEF Next, vars, db

(* When saveEventFile is about to answer 0, the record is in its table and *)
(* the other class has none of the kind, unless the file was erased or a   *)
(* database call failed: SavedIsStored of the run store_one.               *)
THEOREM SuccessIsStored ==
  ASSUME OneThreadPerKind
  PROVE  Spec => []SavedIsStored
<1>1. StoredInv => SavedIsStored
  BY DEF StoredInv, StoredBy, Recorded, SavedIsStored
<1>2. QED
  BY InitTypeOK, TypeStep, InitOwnsKind, OwnsKindStep, InitStored, StoredStep, <1>1, PTL DEF Spec
--------------------------------------------------------------------------------
(* The oldest goes: until the station sets the clock, rowids and times grow *)
(* together.                                                               *)

Pending == {"evict", "recount", "insert"}

UniqueIds == \A p \in Priority : \A r, q \in tab[p] : r.rowid = q.rowid => r = q

InOrder ==
  \A p \in Priority : \A r, q \in tab[p] :
    r.erc = q.erc /\ r.rowid < q.rowid => r.time <= q.time

BeforeNow == \A p \in Priority : \A r \in tab[p] : r.time <= clock

(* The record that a save is going to insert is the latest of its kind.    *)
Latest(s) ==
  /\ saving[s].pc # "idle" => saving[s].time <= clock
  /\ saving[s].pc \in Pending =>
       \A p \in Priority : \A r \in Rows(tab[p], saving[s].erc) : r.time <= saving[s].time

ByTime == InOrder /\ BeforeNow /\ \A s \in Saver : Latest(s)

OrderInv == UniqueIds /\ (Without({"clocksets"}) => ByTime)

(* SQLite's new rowid is larger than every other of the table.             *)
LEMMA FreshIdLarger ==
  ASSUME NEW T \in SUBSET Row, IsFiniteSet(T), NEW r \in T
  PROVE  r.rowid < FreshId(T)
<1> DEFINE Ids == {q.rowid : q \in T}
           f == [q \in T |-> q.rowid]
<1>1. f \in Surjection(T, Ids)
  BY DEF Surjection
<1>2. IsFiniteSet(Ids)
  BY <1>1, FS_Surjection
<1>3. Ids \in SUBSET Nat /\ Ids # {} /\ r.rowid \in Ids
  BY DEF Row
<1>4. \E m \in Ids : \A y \in Ids : m >= y
  BY <1>2, <1>3, FiniteSetHasMax
<1>5. Max(Ids) \in Nat /\ Max(Ids) >= r.rowid
  BY <1>3, <1>4 DEF Max
<1>6. FreshId(T) = 1 + Max(Ids)
  BY DEF FreshId
<1>7. r.rowid \in Nat
  BY DEF Row
<1>8. QED
  BY <1>5, <1>6, <1>7

(* Only the insert adds a record.                                          *)
LEMMA OnlyInsertAdds ==
  ASSUME TypeOK, NEW s \in Saver, SaverStep(s), ~InsertEvent(s)
  PROVE  \A p \in Priority : tab'[p] \subseteq tab[p]
<1>1. saving[s].prio \in Priority /\ Other(saving[s].prio) \in Priority
  BY DEF TypeOK, Locals, Other, Priority
<1>2. CASE DeleteEvent(s)
  BY <1>1, <1>2 DEF DeleteEvent, TypeOK, WithoutOldest
<1>3. CASE DelERC(s)
  BY <1>1, <1>3 DEF DelERC, TypeOK, WithoutErc
<1>4. CASE UNCHANGED tab
  BY <1>4
<1>5. QED
  BY <1>2, <1>3, <1>4
     DEF SaverStep, Begin, GetEvent_Num, UpdateEC, UpdateEC_insert, CountRecord, db

(* Deletions, the passing of time and the begin of a save keep the order.  *)
LEMMA DeletionsKeepOrder ==
  ASSUME TypeOK, TypeOK', ByTime, clock <= clock',
         \A p \in Priority : tab'[p] \subseteq tab[p],
         \A t \in Saver :
           \/ saving'[t].pc = "idle"
           \/ saving'[t].time = clock
           \/ /\ saving[t].pc # "idle"
              /\ saving'[t].time = saving[t].time /\ saving'[t].erc = saving[t].erc
              /\ saving'[t].pc \in Pending => saving[t].pc \in Pending
  PROVE  ByTime'
<1>1. /\ \A p \in Priority : tab[p] \in SUBSET Row
      /\ \A r \in Row : r.time \in Int
      /\ clock \in Int /\ clock' \in Int
      /\ \A t \in Saver : saving[t].time \in Int /\ saving'[t].time \in Int
  BY StoreAssumption DEF TypeOK, Locals, Row
<1>2. InOrder'
  BY DEF ByTime, InOrder
<1>3. \A p \in Priority : \A r \in tab'[p] : r.time <= clock /\ r.time <= clock'
  BY <1>1 DEF ByTime, BeforeNow
<1>4. BeforeNow'
  BY <1>3 DEF BeforeNow
<1>5. ASSUME NEW t \in Saver PROVE Latest(t)'
  <2>1. CASE saving'[t].pc = "idle"
    BY <2>1 DEF Latest, Pending
  <2>2. CASE saving'[t].time = clock
    BY <1>1, <1>3, <2>2 DEF Latest, Rows
  <2>3. CASE /\ saving[t].pc # "idle"
             /\ saving'[t].time = saving[t].time /\ saving'[t].erc = saving[t].erc
             /\ saving'[t].pc \in Pending => saving[t].pc \in Pending
    <3>1. Latest(t)
      BY DEF ByTime
    <3>2. saving'[t].time <= clock'
      BY <1>1, <2>3, <3>1 DEF Latest
    <3>3. \A p \in Priority : Rows(tab'[p], saving[t].erc) \subseteq Rows(tab[p], saving[t].erc)
      BY DEF Rows
    <3>4. QED
      BY <2>3, <3>1, <3>2, <3>3 DEF Latest
  <2>4. QED
    BY <2>1, <2>2, <2>3
<1>6. QED
  BY <1>2, <1>4, <1>5 DEF ByTime

(* The pending record goes behind all others of its kind.                  *)
LEMMA InsertKeepsOrder ==
  ASSUME TypeOK, TypeOK', ByTime, OwnsKind, OneThreadPerKind,
         NEW s \in Saver, InsertEvent(s)
  PROVE  ByTime'
<1>1. /\ saving[s] \in Locals /\ saving \in [Saver -> Locals]
      /\ saving[s].prio \in Priority /\ saving[s].erc \in Erc
      /\ saving[s].pc = "insert"
      /\ \A p \in Priority : tab[p] \in SUBSET Row /\ IsFiniteSet(tab[p])
      /\ \A r \in Row : r.time \in Int /\ r.rowid \in Int
      /\ clock \in Int /\ saving[s].time \in Int
  BY StoreAssumption DEF TypeOK, Locals, Row, InsertEvent, Calls
<1>2. /\ saving'[s].pc = "ec1" /\ saving'[s].erc = saving[s].erc
      /\ saving'[s].time = saving[s].time
      /\ \A t \in Saver : t # s => saving'[t] = saving[t]
      /\ UNCHANGED clock
  BY <1>1 DEF InsertEvent, Locals
<1>3. /\ saving[s].time <= clock
      /\ \A p \in Priority : \A r \in Rows(tab[p], saving[s].erc) : r.time <= saving[s].time
  BY <1>1 DEF ByTime, Latest, Pending
<1>4. CASE UNCHANGED tab
  BY <1>1, <1>2, <1>4, DeletionsKeepOrder DEF ByTime, Latest, Pending, InOrder, BeforeNow
<1>5. CASE ~UNCHANGED tab
  <2> DEFINE p0 == saving[s].prio
             Row0(flag) == [rowid |-> FreshId(tab[p0]), erc |-> saving[s].erc,
                            time |-> saving[s].time, report |-> flag]
  <2>1. PICK flag \in {0, 1} : tab' = [tab EXCEPT ![p0] = tab[p0] \cup {Row0(flag)}]
    BY <1>1, <1>5 DEF InsertEvent, Inserted
  <2> DEFINE row == Row0(flag)
  <2>2. /\ tab'[p0] = tab[p0] \cup {row}
        /\ \A p \in Priority : p # p0 => tab'[p] = tab[p]
    BY <1>1, <2>1 DEF TypeOK
  <2>3. \A r \in tab[p0] : r.rowid < row.rowid
    BY <1>1, FreshIdLarger
  <2>4. row.time = saving[s].time /\ row.erc = saving[s].erc
    OBVIOUS
  <2>5. row.rowid \in Int
    BY <1>1, FreshIdType
  <2> HIDE DEF row
  <2>6. BeforeNow'
    BY <1>2, <1>3, <2>2, <2>4 DEF ByTime, BeforeNow
  <2>7. InOrder'
    <3>1. SUFFICES ASSUME NEW p \in Priority, NEW r \in tab'[p], NEW q \in tab'[p],
                          r.erc = q.erc, r.rowid < q.rowid
                   PROVE  r.time <= q.time
      BY DEF InOrder
    <3>2. CASE r \in tab[p] /\ q \in tab[p]
      BY <3>1, <3>2 DEF ByTime, InOrder
    <3>3. CASE r \in tab[p] /\ q \notin tab[p]
      <4>1. p = p0 /\ q = row
        BY <2>2, <3>3
      <4>2. r \in Rows(tab[p], saving[s].erc)
        BY <2>4, <3>1, <3>3, <4>1 DEF Rows
      <4>3. QED
        BY <1>3, <2>4, <4>1, <4>2
    <3>4. CASE r \notin tab[p]
      <4>1. p = p0 /\ r = row
        BY <2>2, <3>4
      <4>2. q = row \/ q.rowid < row.rowid
        BY <2>2, <2>3, <4>1
      <4>3. q = row \/ q.rowid \in Int
        BY <1>1, <2>2, <4>1
      <4>4. QED
        BY <2>5, <3>1, <4>1, <4>2, <4>3
    <3>5. QED
      BY <3>2, <3>3, <3>4
  <2>8. ASSUME NEW t \in Saver PROVE Latest(t)'
    <3>1. Latest(t)
      BY DEF ByTime
    <3>2. CASE t = s
      BY <1>2, <1>3, <3>2 DEF Latest, Pending
    <3>3. CASE t # s
      <4>1. saving'[t] = saving[t] /\ clock' = clock
        BY <1>2, <3>3
      <4>2. CASE saving[t].pc = "idle"
        BY <4>1, <4>2 DEF Latest, Pending
      <4>3. CASE saving[t].pc # "idle"
        <5>1. saving[t].erc # saving[s].erc
          BY <1>1, <3>3, <4>3, OthersKinds
        <5>2. \A p \in Priority : Rows(tab'[p], saving[t].erc) = Rows(tab[p], saving[t].erc)
          BY <2>2, <2>4, <5>1 DEF Rows
        <5>3. QED
          BY <3>1, <4>1, <5>2 DEF Latest
      <4>4. QED
        BY <4>2, <4>3
    <3>4. QED
      BY <3>2, <3>3
  <2>9. QED
    BY <2>6, <2>7, <2>8 DEF ByTime
<1>6. QED
  BY <1>4, <1>5

LEMMA InitOrder == Init => OrderInv
<1> SUFFICES ASSUME Init PROVE OrderInv
  OBVIOUS
<1>1. \A p \in Priority : tab[p] = {}
  BY DEF Init
<1>2. \A s \in Saver : saving[s].pc = "idle"
  BY DEF Init, NotSaving, Saving
<1>3. QED
  BY <1>1, <1>2 DEF OrderInv, UniqueIds, ByTime, InOrder, BeforeNow, Latest, Pending, Rows

LEMMA UniqueStep == TypeOK /\ UniqueIds /\ [Next]_vars => UniqueIds'
<1> SUFFICES ASSUME TypeOK, UniqueIds, [Next]_vars PROVE UniqueIds'
  OBVIOUS
<1>1. ASSUME \A p \in Priority : tab'[p] \subseteq tab[p] PROVE UniqueIds'
  BY <1>1 DEF UniqueIds
<1>2. ASSUME NEW s \in Saver, InsertEvent(s) PROVE UniqueIds'
  <2> DEFINE p0 == saving[s].prio
             Row0(flag) == [rowid |-> FreshId(tab[p0]), erc |-> saving[s].erc,
                            time |-> saving[s].time, report |-> flag]
  <2>1. p0 \in Priority /\ tab[p0] \in SUBSET Row /\ IsFiniteSet(tab[p0])
    BY DEF TypeOK, Locals
  <2>2. CASE UNCHANGED tab
    BY <1>1, <2>2
  <2>3. CASE ~UNCHANGED tab
    <3>1. PICK flag \in {0, 1} : tab' = [tab EXCEPT ![p0] = tab[p0] \cup {Row0(flag)}]
      BY <1>2, <2>1, <2>3 DEF InsertEvent, Inserted
    <3> DEFINE row == Row0(flag)
    <3>2. /\ tab'[p0] = tab[p0] \cup {row}
          /\ \A p \in Priority : p # p0 => tab'[p] = tab[p]
      BY <2>1, <3>1 DEF TypeOK
    <3>3. \A r \in tab[p0] : r.rowid < row.rowid
      BY <2>1, FreshIdLarger
    <3>4. \A r \in tab[p0] : r.rowid # row.rowid
      <4>1. row.rowid \in Int
        BY <2>1, FreshIdType
      <4>2. \A r \in tab[p0] : r.rowid \in Int
        BY <2>1 DEF Row
      <4>3. QED
        BY <3>3, <4>1, <4>2
    <3> HIDE DEF row
    <3>5. QED
      BY <3>2, <3>4 DEF UniqueIds
  <2>4. QED
    BY <2>2, <2>3
<1>3. ASSUME NEW s \in Saver, SaverStep(s) PROVE UniqueIds'
  BY <1>1, <1>2, <1>3, OnlyInsertAdds
<1>4. CASE Environment \/ UNCHANGED vars
  <2>1. UNCHANGED tab \/ tab' = [p \in Priority |-> {}]
    BY <1>4 DEF Environment, Tick, SetClock, SetF9, RemoveFile, create_table, Restart, db, vars
  <2>2. QED
    BY <1>1, <2>1
<1>5. QED
  BY <1>3, <1>4 DEF Next

LEMMA OrderStep ==
  ASSUME OneThreadPerKind
  PROVE  TypeOK /\ TypeOK' /\ OwnsKind /\ OrderInv /\ [Next]_vars => OrderInv'
<1> SUFFICES ASSUME TypeOK, TypeOK', OwnsKind, OrderInv, [Next]_vars,
                    Without({"clocksets"})'
             PROVE  ByTime'
  BY UniqueStep DEF OrderInv
<1>1. Without({"clocksets"}) /\ ByTime
  <2>1. Without({"clocksets"})
    BY WithoutBefore DEF Causes
  <2>2. QED
    BY <2>1 DEF OrderInv
<1>2. clock \in Int /\ saving \in [Saver -> Locals] /\ saving' \in [Saver -> Locals]
  BY DEF TypeOK
<1>3. ASSUME NEW s \in Saver, SaverStep(s), ~InsertEvent(s) PROVE ByTime'
  <2>1. /\ \A t \in Saver : t # s => saving'[t] = saving[t]
        /\ clock' = clock
    BY <1>3, SaverFrame
  <2>2. \A p \in Priority : tab'[p] \subseteq tab[p]
    BY <1>3, OnlyInsertAdds
  <2>3. \/ saving'[s].pc = "idle"
        \/ saving'[s].time = clock
        \/ /\ saving[s].pc # "idle"
           /\ saving'[s].time = saving[s].time /\ saving'[s].erc = saving[s].erc
           /\ saving'[s].pc \in Pending => saving[s].pc \in Pending
    <3>1. CASE saving[s].pc = "idle"
      <4>1. PICK e \in Saves[s] : Begin(s, e)
        BY <1>3, <3>1 DEF SaverStep, DeleteEvent, GetEvent_Num, InsertEvent, UpdateEC,
                          UpdateEC_insert, DelERC, CountRecord, Calls
      <4>2. saving'[s].time = clock
        BY <1>2, <4>1 DEF Begin, Saving
      <4>3. QED
        BY <4>2
    <3>2. CASE saving[s].pc \in Pending
      BY <1>3, <3>2, SaverKeepsLocals DEF Pending
    <3>3. CASE saving[s].pc \in Recorded
      <4>1. saving'[s].pc \notin Pending
        <5>1. UpdateEC(s) \/ UpdateEC_insert(s) \/ DelERC(s) \/ CountRecord(s)
          BY <1>3, <3>3 DEF SaverStep, Begin, DeleteEvent, GetEvent_Num, InsertEvent, Calls, Recorded
        <5>2. CASE UpdateEC(s)
          <6>1. saving[s].pc \in {"ec1", "ec2"}
            BY <5>2 DEF UpdateEC, Calls
          <6>2. saving'[s].pc \in {"ec1_insert", "ec2_insert", "ec2", "other"}
            BY <1>2, <5>2, <6>1 DEF UpdateEC, Goto, EndUpdate, After, Locals
          <6>3. QED
            BY <6>2 DEF Pending
        <5>3. CASE UpdateEC_insert(s)
          BY <1>2, <5>3 DEF UpdateEC_insert, EndUpdate, After, Locals, Pending
        <5>4. CASE DelERC(s)
          BY <1>2, <5>4 DEF DelERC, NotSaving, Saving, Locals, Pending
        <5>5. CASE CountRecord(s)
          BY <1>2, <5>5 DEF CountRecord, NotSaving, Saving, Pending
        <5>6. QED
          BY <5>1, <5>2, <5>3, <5>4, <5>5
      <4>2. QED
        BY <1>3, <3>3, <4>1, SaverKeepsLocals DEF Recorded
    <3>4. QED
      BY <1>2, <3>1, <3>2, <3>3 DEF Locals, Label, Pending, Recorded
  <2>4. ASSUME NEW t \in Saver
        PROVE \/ saving'[t].pc = "idle"
              \/ saving'[t].time = clock
              \/ /\ saving[t].pc # "idle"
                 /\ saving'[t].time = saving[t].time /\ saving'[t].erc = saving[t].erc
                 /\ saving'[t].pc \in Pending => saving[t].pc \in Pending
    BY <2>1, <2>3
  <2>5. clock <= clock'
    BY <1>2, <2>1
  <2>6. QED
    BY <1>1, <2>2, <2>4, <2>5, DeletionsKeepOrder
<1>4. CASE Environment \/ UNCHANGED vars
  <2>1. ~\E t \in 0 .. MaxTime : SetClock(t)
    BY DEF SetClock, Using, Without, TypeOK, Causes
  <2>2. \A p \in Priority : tab'[p] \subseteq tab[p]
    <3>1. UNCHANGED tab \/ tab' = [p \in Priority |-> {}]
      BY <1>4 DEF Environment, Tick, SetClock, SetF9, RemoveFile, create_table, Restart, db, vars
    <3>2. QED
      BY <3>1
  <2>3. clock <= clock'
    BY <1>2, <1>4, <2>1
       DEF Environment, Tick, SetF9, RemoveFile, create_table, Restart, vars
  <2>4. ASSUME NEW t \in Saver PROVE saving'[t] = saving[t] \/ saving'[t].pc = "idle"
    BY <1>4 DEF Environment, Tick, SetClock, SetF9, RemoveFile, create_table, Restart, vars,
                NotSaving, Saving
  <2>5. QED
    BY <1>1, <2>2, <2>3, <2>4, DeletionsKeepOrder
<1>5. CASE \E s \in Saver : SaverStep(s)
  BY <1>1, <1>3, <1>5, InsertKeepsOrder
<1>6. QED
  BY <1>4, <1>5 DEF Next

(* While rowids and times grow together, what an eviction takes has the    *)
(* smaller rowid.                                                          *)
LEMMA OldestGoesStep ==
  ASSUME TypeOK, OrderInv, [Next]_vars
  PROVE  OldestGoes
<1> SUFFICES ASSUME Without({"clocksets"}), NEW p \in Priority,
                    NEW g \in Gone(p), NEW k \in tab[p] \cap tab'[p], g.erc = k.erc
             PROVE  g.rowid < k.rowid
  BY DEF OldestGoes
<1>1. InOrder /\ UniqueIds
  BY DEF OrderInv, ByTime
<1>2. /\ tab[p] \in SUBSET Row
      /\ g \in tab[p] /\ g \notin tab'[p] /\ k \in tab[p] /\ k \in tab'[p]
  BY DEF TypeOK, Gone
<1>3. /\ g.rowid \in Int /\ k.rowid \in Int /\ g.time \in Int /\ k.time \in Int
  BY <1>2, StoreAssumption DEF Row
<1>4. ASSUME NEW e, tab'[p] = WithoutOldest(tab[p], e) PROVE g.rowid < k.rowid
  <2>1. g \in Oldest(tab[p], e) /\ k \notin Oldest(tab[p], e)
    BY <1>2, <1>4 DEF WithoutOldest
  <2>2. k \in Rows(tab[p], e)
    BY <1>2, <2>1 DEF Oldest, Rows
  <2>3. PICK q \in Rows(tab[p], e) : ~(k.time <= q.time)
    BY <2>1, <2>2 DEF Oldest
  <2>4. g.time <= q.time /\ q.time \in Int
    BY <1>2, <2>1, StoreAssumption DEF Oldest, Rows, Row
  <2>5. g.time < k.time
    BY <1>3, <2>3, <2>4
  <2>6. ~(k.rowid < g.rowid)
    BY <1>1, <1>2, <1>3, <2>5 DEF InOrder
  <2>7. k.rowid # g.rowid
    BY <1>1, <1>2 DEF UniqueIds
  <2>8. QED
    BY <1>3, <2>6, <2>7
<1>5. CASE \E s \in Saver : SaverStep(s)
  <2>1. PICK s \in Saver : SaverStep(s)
    BY <1>5
  <2>2. saving[s].prio \in Priority /\ Other(saving[s].prio) \in Priority
    BY DEF TypeOK, Locals, Other, Priority
  <2>3. CASE DeleteEvent(s)
    <3>1. tab'[p] = WithoutOldest(tab[p], saving[s].erc)
      BY <1>2, <2>2, <2>3 DEF DeleteEvent, TypeOK
    <3>2. QED
      BY <1>4, <3>1
  <2>4. CASE DelERC(s)
    <3>1. tab'[p] = WithoutErc(tab[p], saving[s].erc)
      BY <1>2, <2>2, <2>4 DEF DelERC, TypeOK
    <3>2. QED
      BY <1>2, <3>1 DEF WithoutErc, Rows
  <2>5. CASE InsertEvent(s)
    BY <1>2, <2>2, <2>5 DEF InsertEvent, Inserted, TypeOK
  <2>6. QED
    BY <1>2, <2>1, <2>3, <2>4, <2>5
       DEF SaverStep, Begin, GetEvent_Num, UpdateEC, UpdateEC_insert, CountRecord, db
<1>6. CASE Environment \/ UNCHANGED vars
  BY <1>2, <1>6 DEF Environment, Tick, SetClock, SetF9, RemoveFile, create_table, Restart, db, vars
<1>7. QED
  BY <1>5, <1>6 DEF Next
--------------------------------------------------------------------------------
(* From a full kind only: until F9 is set, the file erased or a call fails, *)
(* m_ErcNum is exact.                                                      *)

(* How m_ErcNum and the table of its class relate in a save.               *)
CountedBy(s) ==
  LET e == saving[s].erc
      n == Count(tab[saving[s].prio], e)
  IN  /\ saving[s].pc # "idle" => saving[s].prio = rating[e] /\ saving[s].res = 0
      /\ saving[s].pc = "evict" => ercNum[e] = n /\ n >= MAX_NUM_EACH_ERC
      /\ saving[s].pc = "insert" => ercNum[e] = n
      /\ saving[s].pc \in Recorded => n = ercNum[e] + 1

NoneElsewhere == \A e \in Erc : Rows(tab[Other(rating[e])], e) = {}

ExactBetweenSaves == \A e \in Erc : ~Occupied(e) => ercNum[e] = Count(tab[rating[e]], e)

Exact == tables /\ NoneElsewhere /\ ExactBetweenSaves /\ \A s \in Saver : CountedBy(s)

CountInv == Without({"flags", "failures", "resets"}) => Exact

LEMMA CountInsertedExactly ==
  ASSUME NEW T \in SUBSET Row, IsFiniteSet(T), NEW e, NEW t, NEW flag
  PROVE  Count(Inserted(T, e, t, flag), e) = Count(T, e) + 1
<1> DEFINE row == [rowid |-> FreshId(T), erc |-> e, time |-> t, report |-> flag]
<1>1. row \notin T
  <2>1. ASSUME row \in T PROVE FALSE
    <3>1. row.rowid < FreshId(T) /\ row.rowid = FreshId(T)
      BY <2>1, FreshIdLarger
    <3>2. FreshId(T) \in Int
      BY FreshIdType
    <3>3. QED
      BY <3>1, <3>2
  <2>2. QED
    BY <2>1
<1>2. row \notin Rows(T, e) /\ Rows(Inserted(T, e, t, flag), e) = Rows(T, e) \cup {row}
  BY <1>1 DEF Rows, Inserted
<1>3. IsFiniteSet(Rows(T, e))
  BY CountType
<1>4. QED
  BY <1>2, <1>3, FS_AddElement DEF Count

(* A step of one thread leaves the other kinds exact.                      *)
LEMMA OthersExact ==
  ASSUME TypeOK, TypeOK', Exact, OwnsKind, OneThreadPerKind,
         NEW s \in Saver, NEW e \in Saves[s], SaverStep(s),
         saving[s].pc = "idle" \/ saving[s].erc = e,
         saving'[s].pc = "idle" \/ saving'[s].erc = e,
         saving[s].pc = "idle" => UNCHANGED <<tab, ercNum>>,
         Rows(tab'[Other(rating[e])], e) = {},
         CountedBy(s)',
         saving'[s].pc = "idle" => ercNum'[e] = Count(tab'[rating[e]], e)
  PROVE  Exact'
<1>1. /\ \A t \in Saver : t # s => saving'[t] = saving[t]
      /\ tables' = tables /\ rating' = rating
  BY SaverFrame
<1>2. \A p \in Priority, k \in Erc : k # e => Rows(tab'[p], k) = Rows(tab[p], k)
  BY SaverFrame
<1>3. \A k \in Erc : k # e => ercNum'[k] = ercNum[k]
  BY SaverFrame
<1>4. \A k \in Erc : rating[k] \in Priority /\ Other(rating[k]) \in Priority
  BY DEF TypeOK, Other, Priority
<1>5. NoneElsewhere'
  BY <1>1, <1>2, <1>4 DEF Exact, NoneElsewhere
<1>6. ExactBetweenSaves'
  <2> SUFFICES ASSUME NEW k \in Erc, ~Occupied(k)' PROVE ercNum'[k] = Count(tab'[rating[k]], k)
    BY <1>1 DEF ExactBetweenSaves
  <2>1. CASE k = e
    <3>1. saving'[s].pc = "idle"
      BY <2>1 DEF Occupied
    <3>2. QED
      BY <2>1, <3>1
  <2>2. CASE k # e
    <3>1. ~Occupied(k)
      BY <1>1, <2>2 DEF Occupied
    <3>2. ercNum[k] = Count(tab[rating[k]], k)
      BY <3>1 DEF Exact, ExactBetweenSaves
    <3>3. QED
      BY <1>2, <1>3, <1>4, <2>2, <3>2 DEF Count
  <2>3. QED
    BY <2>1, <2>2
<1>7. ASSUME NEW t \in Saver PROVE CountedBy(t)'
  <2>1. CASE t = s
    BY <2>1
  <2>2. CASE t # s /\ saving[t].pc = "idle"
    BY <1>1, <2>2 DEF CountedBy, Recorded
  <2>3. CASE t # s /\ saving[t].pc # "idle"
    <3>1. saving'[t] = saving[t] /\ CountedBy(t)
      BY <1>1, <2>3 DEF Exact
    <3>2. saving[t].erc \in Erc /\ saving[t].prio \in Priority
      BY DEF TypeOK, Locals
    <3>3. saving[t].erc # e
      BY <2>3 DEF OwnsKind, OneThreadPerKind
    <3>4. /\ Count(tab'[saving[t].prio], saving[t].erc) = Count(tab[saving[t].prio], saving[t].erc)
          /\ ercNum'[saving[t].erc] = ercNum[saving[t].erc]
      BY <1>2, <1>3, <3>2, <3>3 DEF Count
    <3>5. QED
      BY <1>1, <3>1, <3>4 DEF CountedBy
  <2>4. QED
    BY <2>1, <2>2, <2>3
<1>8. QED
  BY <1>1, <1>5, <1>6, <1>7 DEF Exact

LEMMA ExactSaver ==
  ASSUME TypeOK, TypeOK', Exact, OwnsKind, OneThreadPerKind,
         Without({"flags", "failures", "resets"})',
         NEW s \in Saver, SaverStep(s)
  PROVE  Exact'
<1>1. /\ saving[s] \in Locals /\ saving \in [Saver -> Locals]
      /\ saving[s].erc \in Erc /\ saving[s].prio \in Priority
      /\ Other(saving[s].prio) \in Priority /\ Other(saving[s].prio) # saving[s].prio
      /\ \A p \in Priority : tab[p] \in SUBSET Row /\ IsFiniteSet(tab[p])
      /\ ercNum \in [Erc -> Nat]
  BY DEF TypeOK, Locals, Other, Priority
<1>2. \A p \in Priority, k \in Erc : Count(tab[p], k) \in Nat
  BY <1>1, CountType
<1>3. ~Fails
  <2>1. used'["failures"] = 0
    BY DEF Without
  <2>2. QED
    BY <2>1, FailureCounts DEF Exact
<1>4. CountedBy(s) /\ rating' = rating
  BY SaverFrame DEF Exact
<1>5. CASE saving[s].pc = "idle"
  <2>1. PICK e \in Saves[s] : Begin(s, e)
    BY <1>5 DEF SaverStep, DeleteEvent, GetEvent_Num, InsertEvent, UpdateEC,
                UpdateEC_insert, DelERC, CountRecord, Calls
  <2>2. /\ saving'[s].pc = IF IsFull(ercNum[e]) THEN "evict" ELSE "insert"
        /\ saving'[s].erc = e /\ saving'[s].prio = rating[e] /\ saving'[s].res = 0
    BY <1>1, <2>1 DEF Begin, Saving
  <2>3. UNCHANGED <<tab, ercNum>> /\ e \in Erc
    BY <2>1, StoreAssumption DEF Begin, db, globals
  <2>4. ercNum[e] = Count(tab[rating[e]], e)
    <3>1. ~Occupied(e)
      BY <1>5, <2>1 DEF Occupied, OwnsKind, OneThreadPerKind
    <3>2. QED
      BY <2>3, <3>1 DEF Exact, ExactBetweenSaves
  <2>5. ercNum[e] \in Nat
    BY <1>1, <2>3
  <2>6. CountedBy(s)'
    BY <1>4, <2>2, <2>3, <2>4, <2>5, StoreAssumption DEF CountedBy, IsFull, Recorded
  <2>7. Rows(tab'[Other(rating[e])], e) = {}
    BY <2>3 DEF Exact, NoneElsewhere
  <2>8. saving'[s].pc # "idle"
    BY <2>2
  <2>9. QED
    BY <1>5, <2>2, <2>3, <2>6, <2>7, <2>8, OthersExact
<1>6. CASE saving[s].pc # "idle"
  <2> DEFINE e == saving[s].erc
             p == saving[s].prio
  <2>1. e \in Saves[s] /\ p = rating[e] /\ saving[s].res = 0
    BY <1>4, <1>6 DEF OwnsKind, CountedBy
  <2>2. Rows(tab[Other(p)], e) = {}
    BY <1>1, <2>1 DEF Exact, NoneElsewhere
  <2>3. \/ saving'[s].pc = "idle"
        \/ saving'[s].erc = e /\ saving'[s].prio = p
    BY <1>6, SaverKeepsLocals
  <2>4. /\ Rows(tab'[Other(p)], e) = {}
        /\ CountedBy(s)'
        /\ saving'[s].pc = "idle" => ercNum'[e] = Count(tab'[p], e)
    <3>1. CASE DeleteEvent(s)
      <4>1. saving'[s].pc = "recount" /\ saving'[s].res = 0
        BY <1>1, <2>1, <3>1 DEF DeleteEvent, Goto, Locals
      <4>2. tab'[Other(p)] = tab[Other(p)]
        BY <1>1, <3>1 DEF DeleteEvent, TypeOK
      <4>3. QED
        BY <1>4, <2>1, <2>2, <2>3, <4>1, <4>2 DEF CountedBy, Recorded
    <3>2. CASE GetEvent_Num(s)
      <4>1. UNCHANGED tab /\ ercNum'[e] = Count(tab[p], e)
        BY <1>1, <1>3, <3>2 DEF GetEvent_Num, db
      <4>2. /\ saving'[s].pc \in {"evict", "insert"} /\ saving'[s].res = 0
            /\ saving'[s].pc = "evict" => IsFull(ercNum'[e])
        BY <1>1, <2>1, <3>2 DEF GetEvent_Num, Locals
      <4>3. QED
        BY <1>4, <2>1, <2>2, <2>3, <4>1, <4>2 DEF CountedBy, Recorded, IsFull
    <3>3. CASE InsertEvent(s)
      <4>1. PICK flag \in {0, 1} :
              tab' = [tab EXCEPT ![p] = Inserted(tab[p], e, saving[s].time, flag)]
        BY <1>1, <1>3, <3>3 DEF InsertEvent
      <4>2. tab'[p] = Inserted(tab[p], e, saving[s].time, flag) /\ tab'[Other(p)] = tab[Other(p)]
        BY <1>1, <4>1 DEF TypeOK
      <4>3. Count(tab'[p], e) = Count(tab[p], e) + 1
        BY <1>1, <4>2, CountInsertedExactly
      <4>4. /\ saving[s].pc = "insert" /\ saving'[s].pc = "ec1" /\ saving'[s].res = 0
            /\ UNCHANGED ercNum
        BY <1>1, <2>1, <3>3 DEF InsertEvent, Calls, Locals
      <4>5. QED
        BY <1>4, <2>1, <2>2, <2>3, <4>2, <4>3, <4>4 DEF CountedBy, Recorded
    <3>4. CASE UpdateEC(s) \/ UpdateEC_insert(s)
      <4>1. UNCHANGED <<tab, ercNum>>
        BY <3>4 DEF UpdateEC, UpdateEC_insert, globals
      <4>2. saving[s].pc \in Recorded
        BY <3>4 DEF UpdateEC, UpdateEC_insert, Calls, Recorded
      <4>3. saving'[s].pc \in {"ec1_insert", "ec2_insert", "ec2", "other"} /\ saving'[s].res = 0
        <5>1. CASE UpdateEC(s)
          BY <1>1, <1>3, <2>1, <5>1 DEF UpdateEC, Goto, Locals
        <5>2. CASE UpdateEC_insert(s)
          BY <1>1, <1>3, <2>1, <5>2 DEF UpdateEC_insert, EndUpdate, After, Locals
        <5>3. QED
          BY <3>4, <5>1, <5>2
      <4>4. QED
        BY <1>4, <2>1, <2>2, <2>3, <4>1, <4>2, <4>3 DEF CountedBy, Recorded
    <3>5. CASE DelERC(s)
      <4>1. /\ tab'[p] = tab[p] /\ UNCHANGED ercNum
            /\ tab'[Other(p)] = WithoutErc(tab[Other(p)], e)
        BY <1>1, <1>3, <3>5 DEF DelERC, TypeOK, globals
      <4>2. saving[s].pc = "other" /\ saving'[s].pc = "count" /\ saving'[s].res = 0
        BY <1>1, <2>1, <3>5 DEF DelERC, Calls, Locals
      <4>3. Rows(tab'[Other(p)], e) = {}
        BY <4>1 DEF WithoutErc, Rows
      <4>4. QED
        BY <1>4, <2>1, <2>3, <4>1, <4>2, <4>3 DEF CountedBy, Recorded
    <3>6. CASE CountRecord(s)
      <4>1. /\ UNCHANGED tab /\ ercNum'[e] = ercNum[e] + 1
            /\ saving[s].pc = "count" /\ saving'[s].pc = "idle"
        BY <1>1, <3>6 DEF CountRecord, db, NotSaving, Saving
      <4>2. Count(tab[p], e) = ercNum[e] + 1
        BY <1>4, <4>1 DEF CountedBy, Recorded
      <4>3. QED
        BY <2>2, <4>1, <4>2 DEF CountedBy, Recorded
    <3>7. QED
      BY <1>6, <3>1, <3>2, <3>3, <3>4, <3>5, <3>6 DEF SaverStep, Begin
  <2>5. QED
    BY <1>6, <2>1, <2>3, <2>4, OthersExact
<1>7. QED
  BY <1>5, <1>6

(* A restart counts again: one of the two tables has none of the kind, so  *)
(* the larger number is that of the other.                                 *)
LEMMA ExactRestart ==
  ASSUME TypeOK, TypeOK', Exact, Restart
  PROVE  Exact'
<1>1. /\ UNCHANGED <<tab, rating>> /\ tables'
      /\ \A s \in Saver : saving'[s].pc = "idle"
      /\ \A e \in Erc : ercNum'[e] = Recounted(e)
  BY DEF Restart, config, NotSaving, Saving
<1>2. ASSUME NEW e \in Erc PROVE Recounted(e) = Count(tab[rating[e]], e)
  <2>1. \/ rating[e] = 0 /\ Other(rating[e]) = 1
        \/ rating[e] = 1 /\ Other(rating[e]) = 0
    <3>1. rating[e] \in {0, 1}
      BY DEF TypeOK, Priority
    <3>2. CASE rating[e] = 0
      BY <3>2 DEF Other
    <3>3. CASE rating[e] = 1
      BY <3>3 DEF Other
    <3>4. QED
      BY <3>1, <3>2, <3>3
  <2>2. Count(tab[Other(rating[e])], e) = 0
    BY FS_EmptySet DEF Exact, NoneElsewhere, Count
  <2>3. Count(tab[0], e) \in Nat /\ Count(tab[1], e) \in Nat
    BY CountType DEF TypeOK, Priority
  <2>4. QED
    BY <2>1, <2>2, <2>3 DEF Recounted
<1>3. NoneElsewhere'
  BY <1>1 DEF Exact, NoneElsewhere
<1>4. ExactBetweenSaves'
  BY <1>1, <1>2 DEF ExactBetweenSaves
<1>5. \A s \in Saver : CountedBy(s)'
  BY <1>1 DEF CountedBy, Recorded
<1>6. QED
  BY <1>1, <1>3, <1>4, <1>5 DEF Exact

LEMMA InitCount == Init => CountInv
<1> SUFFICES ASSUME Init PROVE Exact
  BY DEF CountInv
<1>1. \A p \in Priority, e \in Erc : Rows(tab[p], e) = {} /\ Count(tab[p], e) = 0
  BY CountEmpty DEF Init, Rows
<1>2. \A s \in Saver : saving[s].pc = "idle"
  BY DEF Init, NotSaving, Saving
<1>3. \A e \in Erc : rating[e] \in Priority /\ Other(rating[e]) \in Priority
  BY DEF Init, Other, Priority
<1>4. NoneElsewhere /\ ExactBetweenSaves
  BY <1>1, <1>3 DEF Init, NoneElsewhere, ExactBetweenSaves
<1>5. \A s \in Saver : CountedBy(s)
  BY <1>2 DEF CountedBy, Recorded
<1>6. QED
  BY <1>4, <1>5 DEF Init, Exact

LEMMA CountStep ==
  ASSUME OneThreadPerKind
  PROVE  TypeOK /\ TypeOK' /\ OwnsKind /\ CountInv /\ [Next]_vars => CountInv'
<1> DEFINE C == {"flags", "failures", "resets"}
<1> SUFFICES ASSUME TypeOK, TypeOK', OwnsKind, CountInv, [Next]_vars, Without(C)'
             PROVE  Exact'
  BY DEF CountInv
<1>1. Exact
  <2>1. Without(C)
    BY WithoutBefore DEF Causes
  <2>2. QED
    BY <2>1 DEF CountInv
<1>2. used'["flags"] = 0 /\ used'["resets"] = 0
  BY DEF Without
<1>3. ~RemoveFile /\ ~\E e \in Erc, v \in BOOLEAN, p \in Priority : SetF9(e, v, p)
  BY <1>2 DEF RemoveFile, SetF9, Using, TypeOK, Causes
<1>4. CASE UNCHANGED <<tab, tables, rating, ercNum, saving>>
  <2>1. NoneElsewhere'
    BY <1>1, <1>4 DEF Exact, NoneElsewhere
  <2>2. ExactBetweenSaves'
    BY <1>1, <1>4 DEF Exact, ExactBetweenSaves, Occupied
  <2>3. \A s \in Saver : CountedBy(s)'
    BY <1>1, <1>4 DEF Exact, CountedBy
  <2>4. QED
    BY <1>1, <1>4, <2>1, <2>2, <2>3 DEF Exact
<1>5. CASE \E s \in Saver : SaverStep(s)
  BY <1>1, <1>5, ExactSaver
<1>6. CASE Environment
  <2>1. CASE Restart
    BY <1>1, <2>1, ExactRestart
  <2>2. CASE Tick \/ \E t \in 0 .. MaxTime : SetClock(t)
    BY <1>4, <2>2 DEF Tick, SetClock, db, globals, config
  <2>3. CASE create_table
    BY <1>1, <2>3 DEF create_table, Exact
  <2>4. QED
    BY <1>3, <1>6, <2>1, <2>2, <2>3 DEF Environment
<1>7. QED
  BY <1>4, <1>5, <1>6 DEF Next, vars, db, globals, config

LEMMA GoesWhenFullStep ==
  ASSUME TypeOK, CountInv, [Next]_vars
  PROVE  GoesWhenFull
<1> SUFFICES ASSUME Without({"flags", "failures", "resets"}),
                    NEW p \in Priority, NEW g \in Gone(p)
             PROVE  \/ Count(tab[p], g.erc) >= MAX_NUM_EACH_ERC
                    \/ \E s \in Saver : saving[s].pc = "other" /\ saving[s].erc = g.erc
                    \/ ~tables'
  BY DEF GoesWhenFull
<1>1. Exact /\ g \in tab[p] /\ g \notin tab'[p]
  BY DEF CountInv, Gone
<1>2. CASE \E s \in Saver : SaverStep(s)
  <2>1. PICK s \in Saver : SaverStep(s)
    BY <1>2
  <2>2. saving[s].prio \in Priority /\ Other(saving[s].prio) \in Priority /\ CountedBy(s)
    BY <1>1 DEF TypeOK, Locals, Other, Priority, Exact
  <2>3. CASE DeleteEvent(s)
    <3>1. p = saving[s].prio /\ tab'[p] = WithoutOldest(tab[p], saving[s].erc)
      BY <1>1, <2>2, <2>3 DEF DeleteEvent, TypeOK
    <3>2. g.erc = saving[s].erc
      BY <1>1, <3>1 DEF WithoutOldest, Oldest, Rows
    <3>3. saving[s].pc = "evict"
      BY <2>3 DEF DeleteEvent, Calls
    <3>4. QED
      BY <2>2, <3>1, <3>2, <3>3 DEF CountedBy
  <2>4. CASE DelERC(s)
    <3>1. tab'[p] = WithoutErc(tab[p], saving[s].erc)
      BY <1>1, <2>2, <2>4 DEF DelERC, TypeOK
    <3>2. g.erc = saving[s].erc
      BY <1>1, <3>1 DEF WithoutErc, Rows
    <3>3. QED
      BY <2>4, <3>2 DEF DelERC, Calls
  <2>5. CASE InsertEvent(s)
    BY <1>1, <2>2, <2>5 DEF InsertEvent, Inserted, TypeOK
  <2>6. QED
    BY <1>1, <2>1, <2>3, <2>4, <2>5
       DEF SaverStep, Begin, GetEvent_Num, UpdateEC, UpdateEC_insert, CountRecord, db
<1>3. CASE RemoveFile
  BY <1>3 DEF RemoveFile
<1>4. CASE Environment \/ UNCHANGED vars
  BY <1>1, <1>3, <1>4 DEF Environment, Tick, SetClock, SetF9, create_table, Restart, db, vars
<1>5. QED
  BY <1>2, <1>4 DEF Next

(* An eviction takes the earliest record, while the clock is not set, and  *)
(* one of a full kind, while F9 is not set, nothing fails and the file is  *)
(* not erased: EvictsOldestOfFull of the run store_one (EventRecord.c:199, *)
(* SQLite.c:334).                                                          *)
THEOREM EvictionIsRight ==
  ASSUME OneThreadPerKind
  PROVE  Spec => EvictsOldestOfFull
<1>1. TypeOK /\ OrderInv /\ CountInv /\ [Next]_vars => [OldestGoes /\ GoesWhenFull]_vars
  BY OldestGoesStep, GoesWhenFullStep
<1>2. QED
  BY InitTypeOK, TypeStep, InitOwnsKind, OwnsKindStep, InitOrder, OrderStep,
     InitCount, CountStep, <1>1, PTL DEF Spec, EvictsOldestOfFull
--------------------------------------------------------------------------------
(* The counters.  That they cover the records needs nothing; that the file *)
(* has them, that no other thread saves: each call to UpdateEC brings the  *)
(* value it began with.                                                    *)

SingleSaver == \A s, t \in Saver : s = t

LEMMA InitCovers == Init => EcCoversRecords
<1> SUFFICES ASSUME Init, NEW p \in Priority PROVE Cardinality(tab[p]) <= ec[p]
  BY DEF EcCoversRecords
<1>1. tab[p] = {} /\ ec[p] = 0
  BY DEF Init
<1>2. QED
  BY <1>1, FS_EmptySet

LEMMA CoversStep == TypeOK /\ TypeOK' /\ EcCoversRecords /\ [Next]_vars => EcCoversRecords'
<1> SUFFICES ASSUME TypeOK, TypeOK', EcCoversRecords, [Next]_vars, Without({"restarts"})',
                    NEW p \in Priority
             PROVE  Cardinality(tab'[p]) <= ec'[p] \/ ec'[p] = EveMax
  BY DEF EcCoversRecords
<1>1. /\ Cardinality(tab[p]) <= ec[p] \/ ec[p] = EveMax
      /\ IsFiniteSet(tab[p]) /\ Cardinality(tab[p]) \in Nat /\ Cardinality(tab'[p]) \in Nat
      /\ ec[p] \in Nat /\ ec[p] <= EveMax /\ ec'[p] \in Nat /\ EveMax \in Nat
  <2>1. Without({"restarts"})
    BY WithoutBefore DEF Causes
  <2>2. /\ IsFiniteSet(tab[p]) /\ IsFiniteSet(tab'[p])
        /\ ec[p] \in 0 .. EveMax /\ ec'[p] \in 0 .. EveMax
    BY DEF TypeOK
  <2>3. Cardinality(tab[p]) \in Nat /\ Cardinality(tab'[p]) \in Nat
    BY <2>2, FS_CardinalityType
  <2>4. QED
    BY <2>1, <2>2, <2>3, StoreAssumption DEF EcCoversRecords
<1>2. ASSUME tab'[p] \subseteq tab[p], ec'[p] = ec[p]
      PROVE  Cardinality(tab'[p]) <= ec'[p] \/ ec'[p] = EveMax
  <2>1. Cardinality(tab'[p]) <= Cardinality(tab[p])
    BY <1>1, <1>2, FS_Subset
  <2>2. QED
    BY <1>1, <1>2, <2>1
<1>3. ASSUME NEW s \in Saver, SaverStep(s)
      PROVE  Cardinality(tab'[p]) <= ec'[p] \/ ec'[p] = EveMax
  <2>1. CASE InsertEvent(s)
    <3> DEFINE p0 == saving[s].prio
    <3>1. p0 \in Priority
      BY DEF TypeOK, Locals
    <3>2. ec' = [ec EXCEPT ![p0] = CounterUp(ec[p0])]
      BY <2>1 DEF InsertEvent
    <3>3. CASE p # p0
      <4>1. tab'[p] = tab[p] /\ ec'[p] = ec[p]
        BY <2>1, <3>1, <3>2, <3>3 DEF InsertEvent, TypeOK
      <4>2. QED
        BY <1>2, <4>1
    <3>4. CASE p = p0
      <4>1. ec'[p] = CounterUp(ec[p])
        BY <3>2, <3>4 DEF TypeOK
      <4>2. Cardinality(tab'[p]) <= Cardinality(tab[p]) + 1
        <5>1. PICK row : tab'[p] = tab[p] \/ tab'[p] = tab[p] \cup {row}
          BY <2>1, <3>4 DEF InsertEvent, Inserted, TypeOK
        <5>2. Cardinality(tab[p] \cup {row}) =
                IF row \in tab[p] THEN Cardinality(tab[p]) ELSE Cardinality(tab[p]) + 1
          BY <1>1, FS_AddElement
        <5>3. CASE tab'[p] = tab[p]
          BY <1>1, <5>3
        <5>4. CASE tab'[p] = tab[p] \cup {row}
          BY <1>1, <5>2, <5>4
        <5>5. QED
          BY <5>1, <5>3, <5>4
      <4>3. QED
        BY <1>1, <4>1, <4>2 DEF CounterUp
    <3>5. QED
      BY <3>3, <3>4
  <2>2. CASE ~InsertEvent(s)
    <3>1. tab'[p] \subseteq tab[p]
      BY <1>3, <2>2, OnlyInsertAdds
    <3>2. ec' = ec
      BY <1>3, <2>2 DEF SaverStep, Begin, DeleteEvent, GetEvent_Num, UpdateEC,
                        UpdateEC_insert, DelERC, CountRecord, globals
    <3>3. QED
      BY <1>2, <3>1, <3>2
  <2>3. QED
    BY <2>1, <2>2
<1>4. CASE Environment \/ UNCHANGED vars
  <2>1. ~Restart
    BY DEF Restart, Using, Without, TypeOK, Causes
  <2>2. tab'[p] \subseteq tab[p] /\ ec' = ec
    BY <1>4, <2>1
       DEF Environment, Tick, SetClock, SetF9, RemoveFile, create_table, db, globals, vars
  <2>3. QED
    BY <1>2, <2>2
<1>5. QED
  BY <1>3, <1>4 DEF Next

Updating(s) == saving[s].pc \in {"ec1", "ec1_insert", "ec2", "ec2_insert"}

PersistInv ==
  Without({"restarts", "resets", "failures"}) =>
    /\ tables
    /\ \A s \in Saver : Updating(s) => saving[s].val = ec[saving[s].prio]
    /\ \A p \in Priority :
         GetEC(p) = ec[p] \/ \E s \in Saver : Updating(s) /\ saving[s].prio = p

LEMMA InitPersist == Init => PersistInv
BY DEF Init, PersistInv, Updating, GetEC, NotSaving, Saving

LEMMA PersistSaver ==
  ASSUME TypeOK, TypeOK', SingleSaver, NEW s \in Saver, SaverStep(s), tables, ~Fails,
         Updating(s) => saving[s].val = ec[saving[s].prio],
         \A p \in Priority :
           GetEC(p) = ec[p] \/ \E t \in Saver : Updating(t) /\ saving[t].prio = p
  PROVE  /\ Updating(s)' => saving'[s].val = ec'[saving'[s].prio]
         /\ \A p \in Priority : GetEC(p)' = ec'[p] \/ (Updating(s)' /\ saving'[s].prio = p)
<1> DEFINE p0 == saving[s].prio
<1>1. /\ saving[s] \in Locals /\ saving \in [Saver -> Locals] /\ p0 \in Priority
      /\ DOMAIN ec = Priority /\ DOMAIN dbEC = Priority
  BY DEF TypeOK, Locals
<1>2. \A p \in Priority : GetEC(p) = ec[p] \/ (Updating(s) /\ p0 = p)
  BY DEF SingleSaver
<1>3. ASSUME UNCHANGED <<ec, dbEC>>, ~Updating(s), ~Updating(s)'
      PROVE  /\ Updating(s)' => saving'[s].val = ec'[saving'[s].prio]
             /\ \A p \in Priority : GetEC(p)' = ec'[p] \/ (Updating(s)' /\ saving'[s].prio = p)
  BY <1>2, <1>3 DEF GetEC
<1>4. CASE \E e \in Saves[s] : Begin(s, e)
  <2>1. saving'[s].pc \in {"evict", "insert"} /\ saving[s].pc = "idle"
    BY <1>1, <1>4 DEF Begin, Saving
  <2>2. QED
    BY <1>3, <1>4, <2>1 DEF Begin, db, globals, Updating
<1>5. CASE DeleteEvent(s)
  <2>1. saving'[s].pc = "recount" /\ saving[s].pc = "evict"
    BY <1>1, <1>5 DEF DeleteEvent, Goto, Calls, Locals
  <2>2. QED
    BY <1>3, <1>5, <2>1 DEF DeleteEvent, globals, Updating
<1>6. CASE GetEvent_Num(s)
  <2>1. saving'[s].pc \in {"evict", "insert"} /\ saving[s].pc = "recount"
    BY <1>1, <1>6 DEF GetEvent_Num, Calls, Locals
  <2>2. QED
    BY <1>3, <1>6, <2>1 DEF GetEvent_Num, db, Updating
<1>7. CASE InsertEvent(s)
  <2>1. /\ saving'[s].pc = "ec1" /\ saving'[s].prio = p0 /\ saving'[s].val = ec'[p0]
        /\ saving[s].pc = "insert"
    BY <1>1, <1>7 DEF InsertEvent, Calls, Locals, CounterToSave
  <2>2. \A p \in Priority : p # p0 => ec'[p] = ec[p] /\ dbEC'[p] = dbEC[p]
    BY <1>1, <1>7 DEF InsertEvent
  <2>3. \A p \in Priority : p # p0 => GetEC(p)' = ec'[p]
    BY <1>2, <2>2 DEF GetEC
  <2>4. QED
    BY <2>1, <2>3 DEF Updating
<1>8. CASE UpdateEC(s)
  <2>1. saving[s].pc \in {"ec1", "ec2"} /\ UNCHANGED ec
    BY <1>8 DEF UpdateEC, Calls, globals
  <2>2. /\ saving'[s].pc \in {"ec1_insert", "ec2_insert"}
        /\ saving'[s].prio = p0 /\ saving'[s].val = saving[s].val
    BY <1>1, <1>8 DEF UpdateEC, Goto, Locals
  <2>3. \A p \in Priority : p # p0 => dbEC'[p] = dbEC[p]
    BY <1>1, <1>8 DEF UpdateEC
  <2>4. \A p \in Priority : p # p0 => GetEC(p)' = ec'[p]
    BY <1>2, <2>1, <2>3 DEF GetEC
  <2>5. QED
    BY <2>1, <2>2, <2>4 DEF Updating
<1>9. CASE UpdateEC_insert(s)
  <2>1. /\ saving[s].pc \in {"ec1_insert", "ec2_insert"} /\ UNCHANGED ec
        /\ dbEC' = [dbEC EXCEPT ![p0] = {saving[s].val}] /\ EndUpdate(s, 0)
    BY <1>9 DEF UpdateEC_insert, globals
  <2>2. /\ saving'[s].pc \in {"ec2", "other"}
        /\ saving'[s].prio = p0 /\ saving'[s].val = ec[p0]
    BY <1>1, <2>1 DEF EndUpdate, After, CounterToSave, Locals
  <2>3. saving[s].val = ec[p0]
    BY <2>1 DEF Updating
  <2>4. ASSUME NEW p \in Priority, p = p0 PROVE GetEC(p)' = ec'[p]
    <3>1. dbEC'[p] = {ec'[p]}
      BY <1>1, <2>1, <2>3, <2>4
    <3>2. QED
      BY <3>1 DEF GetEC
  <2>5. \A p \in Priority : p # p0 => dbEC'[p] = dbEC[p]
    BY <1>1, <2>1
  <2>6. \A p \in Priority : p # p0 => GetEC(p)' = ec'[p]
    BY <1>2, <2>1, <2>5 DEF GetEC
  <2>7. QED
    BY <2>1, <2>2, <2>4, <2>6 DEF Updating
<1>10. CASE DelERC(s)
  <2>1. saving'[s].pc \in {"idle", "count"} /\ saving[s].pc = "other"
    BY <1>1, <1>10 DEF DelERC, Calls, Locals, NotSaving, Saving
  <2>2. QED
    BY <1>3, <1>10, <2>1 DEF DelERC, globals, Updating
<1>11. CASE CountRecord(s)
  <2>1. saving'[s].pc = "idle" /\ saving[s].pc = "count"
    BY <1>1, <1>11 DEF CountRecord, NotSaving, Saving
  <2>2. QED
    BY <1>3, <1>11, <2>1 DEF CountRecord, db, Updating
<1>12. QED
  BY <1>4, <1>5, <1>6, <1>7, <1>8, <1>9, <1>10, <1>11 DEF SaverStep

LEMMA PersistStep ==
  ASSUME SingleSaver
  PROVE  TypeOK /\ TypeOK' /\ PersistInv /\ [Next]_vars => PersistInv'
<1> DEFINE C == {"restarts", "resets", "failures"}
<1> SUFFICES ASSUME TypeOK, TypeOK', PersistInv, [Next]_vars, Without(C)'
             PROVE  /\ tables'
                    /\ \A s \in Saver : Updating(s)' => saving'[s].val = ec'[saving'[s].prio]
                    /\ \A p \in Priority :
                         \/ GetEC(p)' = ec'[p]
                         \/ \E s \in Saver : Updating(s)' /\ saving'[s].prio = p
  BY DEF PersistInv
<1>1. /\ tables
      /\ \A s \in Saver : Updating(s) => saving[s].val = ec[saving[s].prio]
      /\ \A p \in Priority :
           GetEC(p) = ec[p] \/ \E s \in Saver : Updating(s) /\ saving[s].prio = p
  <2>1. Without(C)
    BY WithoutBefore DEF Causes
  <2>2. QED
    BY <2>1 DEF PersistInv
<1>2. used'["restarts"] = 0 /\ used'["resets"] = 0 /\ used'["failures"] = 0
  BY DEF Without
<1>3. ~RemoveFile /\ ~Restart
  BY <1>2 DEF RemoveFile, Restart, Using, TypeOK, Causes
<1>4. CASE \E s \in Saver : SaverStep(s)
  <2>1. PICK s \in Saver : SaverStep(s)
    BY <1>4
  <2>2. ~Fails
    BY <1>1, <1>2, FailureCounts
  <2>3. tables'
    BY <1>1, <2>1, SaverFrame
  <2>4. /\ Updating(s)' => saving'[s].val = ec'[saving'[s].prio]
        /\ \A p \in Priority : GetEC(p)' = ec'[p] \/ (Updating(s)' /\ saving'[s].prio = p)
    BY <1>1, <2>1, <2>2, PersistSaver
  <2>5. \A t \in Saver : t = s
    BY DEF SingleSaver
  <2>6. QED
    BY <2>3, <2>4, <2>5
<1>5. CASE Environment \/ UNCHANGED vars
  <2>1. UNCHANGED <<dbEC, ec, saving>> /\ tables'
    BY <1>1, <1>3, <1>5
       DEF Environment, Tick, SetClock, SetF9, create_table, db, globals, vars
  <2>2. QED
    BY <1>1, <2>1 DEF Updating, GetEC
<1>6. QED
  BY <1>4, <1>5 DEF Next

(* With one thread that saves, EC1 and EC2 are what the file says and no   *)
(* record is outside them, until the power fails, the file is erased or a  *)
(* call fails: CountersSound of the run store_one (EventRecord.c:139,      *)
(* SQLite.c:944).                                                          *)
THEOREM CountersAreSound ==
  ASSUME SingleSaver
  PROVE  Spec => []CountersSound
<1>1. PersistInv /\ EcCoversRecords => CountersSound
  BY DEF PersistInv, Updating, Quiet, CountersSound, EcPersisted
<1>2. QED
  BY InitTypeOK, TypeStep, InitCovers, CoversStep, InitPersist, PersistStep, <1>1, PTL DEF Spec

(* With any number of threads no record is outside the counters.           *)
THEOREM CountersCoverRecords == Spec => []EcCoversRecords
BY InitTypeOK, TypeStep, InitCovers, CoversStep, PTL DEF Spec

--------------------------------------------------------------------------------
(* The reporting.                                                           *)

(* An event that was queued, and the local variables of a channel.         *)
IsEvent(e) ==
  /\ e = [row |-> e.row, seq |-> e.seq, report_count |-> e.report_count, full |-> e.full]
  /\ e.report_count \in 0 .. 3

IsLocal(l) ==
  /\ l = [pc |-> l.pc, i |-> l.i, event |-> l.event, seq |-> l.seq]
  /\ IsEvent(l.event)
  /\ l.pc = "requeue" => l.event.report_count < 3

IsQueue(q) == \E S : q \in Seq(S) /\ \A e \in S : IsEvent(e)

(* The rights to frames with record r: in the queue, and in the hands of   *)
(* the channels.  The event of a channel in "requeue" has been sent once   *)
(* more than it says.                                                      *)
InQueue(q, r) ==
  {p \in (1 .. Len(q)) \X (0 .. 2) : q[p[1]].row = r /\ q[p[1]].report_count <= p[2]}

Spent(l) == IF l.pc = "requeue" THEN l.event.report_count + 1 ELSE l.event.report_count
Holds(l, r) == l.pc \in {"requeue", "putback"} /\ l.event.row = r

InHands(ch, r) ==
  {p \in Channel \X (0 .. 2) : Holds(ch[p[1]], r) /\ Spent(ch[p[1]]) <= p[2]}

(* How many of them one event, and one channel, accounts for.              *)
Left(e, r) == IF e.row = r THEN 3 - e.report_count ELSE 0
HandLeft(l, r) == IF Holds(l, r) THEN 3 - Spent(l) ELSE 0

Rights(r) == Cardinality(InQueue(queue, r)) + Cardinality(InHands(chan, r))

ReportShape ==
  /\ IsQueue(queue)
  /\ chan = [c \in Channel |-> chan[c]]
  /\ \A c \in Channel : IsLocal(chan[c])
  /\ queued \in [RowId -> Nat]
  /\ sent \in [RowId -> Nat]

BudgetInv == \A r \in RowId : sent[r] + Rights(r) <= 3 * queued[r]

ReportInv == ReportShape /\ BudgetInv
--------------------------------------------------------------------------------
(* The numbers an event of count n is still entitled to, at place x.       *)
LEMMA ShareSize ==
  ASSUME NEW x, NEW n \in 0 .. 3
  PROVE  /\ IsFiniteSet({x} \X (n .. 2))
         /\ Cardinality({x} \X (n .. 2)) = 3 - n
<1>1. IsFiniteSet({x}) /\ Cardinality({x}) = 1
  BY FS_Singleton
<1>2. IsFiniteSet(n .. 2) /\ Cardinality(n .. 2) = 3 - n
  <2>1. n \in Int /\ 2 \in Int /\ n <= 3
    OBVIOUS
  <2>2. Cardinality(n .. 2) = IF n > 2 THEN 0 ELSE 2 - n + 1
    BY <2>1, FS_Interval
  <2>3. QED
    BY <2>1, <2>2, FS_Interval
<1>3. /\ IsFiniteSet({x} \X (n .. 2))
      /\ Cardinality({x} \X (n .. 2)) = Cardinality({x}) * Cardinality(n .. 2)
  <2> DEFINE N == n .. 2
             X == {x}
  <2>1. IsFiniteSet(X) /\ IsFiniteSet(N)
    BY <1>1, <1>2
  <2> HIDE DEF X, N
  <2>2. IsFiniteSet(X \X N) /\ Cardinality(X \X N) = Cardinality(X) * Cardinality(N)
    BY <2>1, FS_Product
  <2>3. QED
    BY <2>2 DEF X, N
<1>4. 1 * (3 - n) = 3 - n
  OBVIOUS
<1>5. QED
  BY <1>1, <1>2, <1>3, <1>4

LEMMA QueueFinite ==
  ASSUME NEW q, NEW r, Len(q) \in Nat
  PROVE  /\ IsFiniteSet(InQueue(q, r))
         /\ Cardinality(InQueue(q, r)) \in Nat
<1>1. IsFiniteSet(1 .. Len(q)) /\ IsFiniteSet(0 .. 2)
  <2>1. 0 \in Int /\ 1 \in Int /\ 2 \in Int /\ Len(q) \in Int
    OBVIOUS
  <2>2. QED
    BY <2>1, FS_Interval
<1>2. IsFiniteSet((1 .. Len(q)) \X (0 .. 2))
  BY <1>1, FS_Product
<1>3. InQueue(q, r) \in SUBSET ((1 .. Len(q)) \X (0 .. 2))
  BY DEF InQueue
<1>4. QED
  BY <1>2, <1>3, FS_Subset, FS_CardinalityType

(* An event put into the queue brings no more rights than its own.         *)
LEMMA AppendRights ==
  ASSUME NEW q, NEW e, NEW r, IsQueue(q), IsEvent(e)
  PROVE  Cardinality(InQueue(Append(q, e), r)) <= Cardinality(InQueue(q, r)) + Left(e, r)
<1>1. PICK S : q \in Seq(S) /\ \A x \in S : IsEvent(x)
  BY DEF IsQueue
<1> DEFINE n == e.report_count
           new == IF e.row = r THEN {Len(q) + 1} \X (n .. 2) ELSE {}
<1>2. n \in 0 .. 3 /\ Len(q) \in Nat
  BY <1>1 DEF IsEvent
<1>3. /\ Len(Append(q, e)) = Len(q) + 1
      /\ Append(q, e)[Len(q) + 1] = e
      /\ \A i \in 1 .. Len(q) : Append(q, e)[i] = q[i]
  BY <1>1
<1>4. InQueue(Append(q, e), r) \subseteq InQueue(q, r) \cup new
  <2>1. SUFFICES ASSUME NEW p \in InQueue(Append(q, e), r), p \notin new
                 PROVE  p \in InQueue(q, r)
    OBVIOUS
  <2>2. /\ p \in (1 .. Len(q) + 1) \X (0 .. 2)
        /\ Append(q, e)[p[1]].row = r /\ Append(q, e)[p[1]].report_count <= p[2]
    BY <1>3 DEF InQueue
  <2>3. CASE p[1] = Len(q) + 1
    <3>1. e.row = r /\ n <= p[2]
      BY <1>3, <2>2, <2>3
    <3>2. p \in {Len(q) + 1} \X (n .. 2)
      BY <1>2, <2>2, <2>3, <3>1
    <3>3. QED
      BY <2>1, <3>1, <3>2
  <2>4. CASE p[1] # Len(q) + 1
    <3>1. p[1] \in 1 .. Len(q)
      BY <1>2, <2>2, <2>4
    <3>2. p \in (1 .. Len(q)) \X (0 .. 2)
      BY <2>2, <3>1
    <3>3. QED
      BY <1>3, <2>2, <3>1, <3>2 DEF InQueue
  <2>5. QED
    BY <2>3, <2>4
<1>5. IsFiniteSet(new) /\ Cardinality(new) = Left(e, r)
  BY <1>2, ShareSize, FS_EmptySet DEF Left
<1>6. IsFiniteSet(InQueue(q, r)) /\ Cardinality(InQueue(q, r)) \in Nat
  BY <1>2, QueueFinite
<1>7. /\ IsFiniteSet(InQueue(q, r) \cup new)
      /\ Cardinality(InQueue(q, r) \cup new) <= Cardinality(InQueue(q, r)) + Cardinality(new)
  <2>1. Cardinality(InQueue(q, r) \cap new) \in Nat
    BY <1>6, FS_Intersection, FS_CardinalityType
  <2>2. Cardinality(new) \in Nat
    BY <1>5, FS_CardinalityType
  <2>3. /\ IsFiniteSet(InQueue(q, r) \cup new)
        /\ Cardinality(InQueue(q, r) \cup new)
             = Cardinality(InQueue(q, r)) + Cardinality(new) - Cardinality(InQueue(q, r) \cap new)
    BY <1>5, <1>6, FS_Union
  <2> HIDE DEF new
  <2>4. QED
    BY <1>6, <2>1, <2>2, <2>3
<1>8. Cardinality(InQueue(Append(q, e), r)) <= Cardinality(InQueue(q, r) \cup new)
  BY <1>4, <1>7, FS_Subset
<1>9. Left(e, r) \in Nat
  BY <1>2 DEF Left
<1>10. /\ Len(Append(q, e)) \in Nat
       /\ Cardinality(InQueue(Append(q, e), r)) \in Nat
       /\ Cardinality(InQueue(q, r) \cup new) \in Nat
  <2>1. Len(Append(q, e)) \in Nat
    BY <1>2, <1>3
  <2>2. QED
    BY <1>7, <2>1, QueueFinite, FS_CardinalityType
<1>11. QED
  BY <1>5, <1>6, <1>7, <1>8, <1>9, <1>10

(* The first event takes its rights with it.                               *)
LEMMA TailRights ==
  ASSUME NEW q, NEW r, IsQueue(q), q # <<>>
  PROVE  Cardinality(InQueue(Tail(q), r)) + Left(Head(q), r) <= Cardinality(InQueue(q, r))
<1>1. PICK S : q \in Seq(S) /\ \A x \in S : IsEvent(x)
  BY DEF IsQueue
<1> DEFINE e == Head(q)
           n == e.report_count
           old == IF e.row = r THEN {1} \X (n .. 2) ELSE {}
           T == InQueue(Tail(q), r)
           f == [p \in T |-> <<p[1] + 1, p[2]>>]
<1>2. Len(q) \in Nat /\ Len(q) >= 1 /\ e \in S /\ e = q[1]
  BY <1>1
<1>3. n \in 0 .. 3
  BY <1>1, <1>2 DEF IsEvent
<1>4. /\ Len(Tail(q)) = Len(q) - 1
      /\ \A i \in 1 .. Len(q) - 1 : Tail(q)[i] = q[i + 1]
  BY <1>1, <1>2
<1>5. /\ IsFiniteSet(InQueue(q, r)) /\ Cardinality(InQueue(q, r)) \in Nat
      /\ IsFiniteSet(T) /\ Cardinality(T) \in Nat
  <2>1. Len(Tail(q)) \in Nat
    BY <1>2, <1>4
  <2>2. QED
    BY <1>2, <2>1, QueueFinite
<1>6. old \subseteq InQueue(q, r)
  BY <1>2, <1>3 DEF InQueue
<1>7. ASSUME NEW p \in T PROVE f[p] \in InQueue(q, r) \ old
  <2>1. /\ p[1] \in 1 .. Len(q) - 1 /\ p[2] \in 0 .. 2
        /\ Tail(q)[p[1]].row = r /\ Tail(q)[p[1]].report_count <= p[2]
    BY <1>4 DEF InQueue
  <2>2. Tail(q)[p[1]] = q[p[1] + 1] /\ p[1] + 1 \in 1 .. Len(q) /\ p[1] + 1 # 1
    BY <1>2, <1>4, <2>1
  <2>3. f[p] = <<p[1] + 1, p[2]>>
    OBVIOUS
  <2>4. f[p] \in InQueue(q, r)
    BY <2>1, <2>2, <2>3 DEF InQueue
  <2>5. f[p] \notin {1} \X (n .. 2)
    BY <2>2, <2>3
  <2>6. QED
    BY <2>4, <2>5
<1>8. f \in Injection(T, InQueue(q, r) \ old)
  <2>1. f \in [T -> InQueue(q, r) \ old]
    BY <1>7
  <2>2. ASSUME NEW p \in T, NEW o \in T, f[p] = f[o] PROVE p = o
    <3>1. /\ p \in (1 .. Len(Tail(q))) \X (0 .. 2) /\ o \in (1 .. Len(Tail(q))) \X (0 .. 2)
      BY DEF InQueue
    <3>2. p = <<p[1], p[2]>> /\ o = <<o[1], o[2]>> /\ p[1] \in Int /\ o[1] \in Int
      BY <3>1
    <3>3. p[1] + 1 = o[1] + 1 /\ p[2] = o[2]
      BY <2>2
    <3>4. QED
      BY <3>2, <3>3
  <2>3. QED
    BY <2>1, <2>2 DEF Injection, IsInjective
<1>9. /\ IsFiniteSet(InQueue(q, r) \ old)
      /\ Cardinality(InQueue(q, r) \ old) = Cardinality(InQueue(q, r)) - Cardinality(old)
  <2>1. InQueue(q, r) \cap old = old
    BY <1>6
  <2>2. QED
    BY <1>5, <2>1, FS_Difference
<1>10. Cardinality(T) <= Cardinality(InQueue(q, r) \ old)
  BY <1>8, <1>9, FS_Injection
<1>11. Cardinality(old) = Left(e, r) /\ Left(e, r) \in Nat
  <2>1. Cardinality({1} \X (n .. 2)) = 3 - n
    BY <1>3, ShareSize
  <2>2. QED
    BY <1>3, <2>1, FS_EmptySet DEF Left
<1>12. QED
  BY <1>5, <1>9, <1>10, <1>11

LEMMA HandsFinite ==
  ASSUME NEW ch, NEW r
  PROVE  /\ IsFiniteSet(InHands(ch, r))
         /\ Cardinality(InHands(ch, r)) \in Nat
<1>1. IsFiniteSet(Channel) /\ IsFiniteSet(0 .. 2)
  <2>1. 0 \in Int /\ 2 \in Int
    OBVIOUS
  <2>2. QED
    BY <2>1, ReportAssumption, FS_Interval
<1>2. IsFiniteSet(Channel \X (0 .. 2))
  BY <1>1, FS_Product
<1>3. InHands(ch, r) \in SUBSET (Channel \X (0 .. 2))
  BY DEF InHands
<1>4. QED
  BY <1>2, <1>3, FS_Subset, FS_CardinalityType

(* One channel changes its own rights alone.                               *)
LEMMA HandsRights ==
  ASSUME NEW ch, NEW new, NEW r, NEW c \in Channel,
         IsLocal(ch[c]), IsLocal(new[c]),
         \A d \in Channel \ {c} : new[d] = ch[d]
  PROVE  Cardinality(InHands(new, r)) - HandLeft(new[c], r)
           = Cardinality(InHands(ch, r)) - HandLeft(ch[c], r)
<1> DEFINE Others == {p \in InHands(ch, r) : p[1] # c}
<1>1. Others = {p \in InHands(new, r) : p[1] # c}
  BY DEF InHands
<1>2. IsFiniteSet(Others) /\ Cardinality(Others) \in Nat
  BY HandsFinite, FS_Subset, FS_CardinalityType
<1>3. ASSUME NEW f, IsLocal(f[c]), Others = {p \in InHands(f, r) : p[1] # c}
      PROVE  Cardinality(InHands(f, r)) = Cardinality(Others) + HandLeft(f[c], r)
  <2> DEFINE n == Spent(f[c])
             own == IF Holds(f[c], r) THEN {c} \X (n .. 2) ELSE {}
  <2>1. Holds(f[c], r) => n \in 0 .. 3
    BY <1>3 DEF IsLocal, IsEvent, Spent, Holds
  <2>2. InHands(f, r) = Others \cup own
    <3>1. ASSUME NEW p \in InHands(f, r), p[1] = c PROVE p \in own
      <4>1. p \in Channel \X (0 .. 2) /\ Holds(f[c], r) /\ n <= p[2]
        BY <3>1 DEF InHands
      <4>2. QED
        BY <2>1, <3>1, <4>1
    <3>2. ASSUME NEW p \in own PROVE p \in InHands(f, r)
      <4>1. Holds(f[c], r) /\ p \in {c} \X (n .. 2)
        BY <3>2
      <4>2. p \in Channel \X (0 .. 2) /\ p[1] = c /\ n <= p[2]
        BY <2>1, <4>1
      <4>3. QED
        BY <4>1, <4>2 DEF InHands
    <3>3. QED
      BY <1>3, <3>1, <3>2
  <2>3. Others \cap own = {}
    OBVIOUS
  <2>4. IsFiniteSet(own) /\ Cardinality(own) = HandLeft(f[c], r)
    BY <2>1, ShareSize, FS_EmptySet DEF HandLeft
  <2>5. Cardinality(own) \in Nat
    BY <2>4, FS_CardinalityType
  <2>6. Cardinality(Others \cup own) = Cardinality(Others) + Cardinality(own)
    <3>1. Cardinality(Others \cap own) = 0
      BY <2>3, FS_EmptySet
    <3>2. Cardinality(Others \cup own)
            = Cardinality(Others) + Cardinality(own) - Cardinality(Others \cap own)
      BY <1>2, <2>4, FS_Union
    <3> HIDE DEF Others, own
    <3>3. QED
      BY <1>2, <2>5, <3>1, <3>2
  <2>7. QED
    BY <2>2, <2>4, <2>6
<1>4. /\ Cardinality(InHands(ch, r)) = Cardinality(Others) + HandLeft(ch[c], r)
      /\ Cardinality(InHands(new, r)) = Cardinality(Others) + HandLeft(new[c], r)
  BY <1>1, <1>3
<1>5. HandLeft(ch[c], r) \in Int /\ HandLeft(new[c], r) \in Int
  BY DEF HandLeft, Holds, Spent, IsLocal, IsEvent
<1>6. QED
  BY <1>2, <1>4, <1>5
--------------------------------------------------------------------------------
LEMMA QueueOf ==
  ASSUME NEW S, NEW q, q \in Seq(S), \A e \in S : IsEvent(e)
  PROVE  IsQueue(q)
BY DEF IsQueue

LEMMA EmptyQueue ==
  /\ IsQueue(<<>>)
  /\ \A r : Cardinality(InQueue(<<>>, r)) = 0
<1>1. IsQueue(<<>>)
  <2>1. \A e \in {Zeroed} : IsEvent(e)
    BY DEF Zeroed, Event, IsEvent
  <2>2. ASSUME NEW q, q = <<>> PROVE IsQueue(q)
    <3>1. q \in Seq({Zeroed})
      BY <2>2
    <3>2. QED
      BY <2>1, <3>1, QueueOf
  <2>3. QED
    BY <2>2
<1>2. ASSUME NEW r PROVE InQueue(<<>>, r) = {}
  BY DEF InQueue
<1>3. QED
  BY <1>1, <1>2, FS_EmptySet

LEMMA LeftType ==
  /\ \A e, r : IsEvent(e) => Left(e, r) \in Nat
  /\ \A l, r : IsLocal(l) => HandLeft(l, r) \in Nat
BY DEF Left, HandLeft, Holds, Spent, IsLocal, IsEvent

(* What sequeue_output hands out, and what it leaves.                      *)
LEMMA TakenRights ==
  ASSUME IsQueue(queue), NEW r \in RowId
  PROVE  /\ IsEvent(Taken) /\ IsQueue(Rest)
         /\ Cardinality(InQueue(Rest, r)) + Left(Taken, r) <= Cardinality(InQueue(queue, r))
<1>1. PICK S : queue \in Seq(S) /\ \A e \in S : IsEvent(e)
  BY DEF IsQueue
<1>2. CASE queue = <<>>
  <2>1. Taken = Zeroed /\ Rest = queue
    BY <1>2 DEF Taken, Rest
  <2>2. IsEvent(Zeroed) /\ Zeroed.row = 0 /\ r # 0
    BY DEF Zeroed, Event, IsEvent, NoRecord, RowId
  <2>3. Left(Zeroed, r) = 0
    BY <2>2 DEF Left
  <2>4. Cardinality(InQueue(queue, r)) \in Nat
    BY <1>2, EmptyQueue
  <2>5. QED
    BY <2>1, <2>2, <2>3, <2>4
<1>3. CASE queue # <<>>
  <2>1. Taken = Head(queue) /\ Rest = Tail(queue)
    BY <1>3 DEF Taken, Rest
  <2>2. Head(queue) \in S /\ Tail(queue) \in Seq(S)
    BY <1>1, <1>3
  <2>3. IsEvent(Taken) /\ IsQueue(Rest)
    BY <1>1, <2>1, <2>2 DEF IsQueue
  <2>4. QED
    BY <1>3, <2>1, <2>3, TailRights
<1>4. QED
  BY <1>2, <1>3

LEMMA QueueGrows ==
  ASSUME NEW q, NEW e, IsQueue(q), IsEvent(e)
  PROVE  IsQueue(Append(q, e))
<1>1. PICK S : q \in Seq(S) /\ \A x \in S : IsEvent(x)
  BY DEF IsQueue
<1>2. Append(q, e) \in Seq(S \cup {e})
  <2>1. q \in Seq(S \cup {e})
    BY <1>1
  <2>2. QED
    BY <2>1
<1>3. QED
  BY <1>1, <1>2 DEF IsQueue

LEMMA QueueNat ==
  ASSUME NEW q, IsQueue(q)
  PROVE  /\ Len(q) \in Nat
         /\ \A r : Cardinality(InQueue(q, r)) \in Nat
BY QueueFinite DEF IsQueue

(* sequeue_input, which drops the event when the queue is full.            *)
LEMMA PutBackRights ==
  ASSUME IsQueue(queue), NEW e, IsEvent(e), PutBack(e), NEW r
  PROVE  /\ IsQueue(queue')
         /\ Cardinality(InQueue(queue', r)) <= Cardinality(InQueue(queue, r)) + Left(e, r)
<1>1. Left(e, r) \in Nat /\ Cardinality(InQueue(queue, r)) \in Nat
  BY LeftType, QueueNat
<1>2. CASE queue' = Append(queue, e)
  BY <1>2, QueueGrows, AppendRights
<1>3. CASE queue' = queue
  BY <1>1, <1>3
<1>4. QED
  BY <1>2, <1>3 DEF PutBack

(* Channel c gets the local variables l.                                   *)
LEMMA OneMoves ==
  ASSUME ReportShape, NEW c \in Channel, NEW l, IsLocal(l), chan' = [chan EXCEPT ![c] = l]
  PROVE  /\ chan' = [d \in Channel |-> chan'[d]]
         /\ \A d \in Channel : IsLocal(chan'[d])
         /\ chan'[c] = l /\ \A d \in Channel \ {c} : chan'[d] = chan[d]
<1>1. chan = [d \in Channel |-> chan[d]] /\ \A d \in Channel : IsLocal(chan[d])
  BY DEF ReportShape
<1>2. /\ chan' = [d \in Channel |-> chan'[d]]
      /\ chan'[c] = l /\ \A d \in Channel \ {c} : chan'[d] = chan[d]
  BY <1>1
<1>3. QED
  BY <1>1, <1>2

LEMMA HandsMove ==
  ASSUME ReportShape, NEW c \in Channel, NEW l, IsLocal(l), chan' = [chan EXCEPT ![c] = l],
         NEW r
  PROVE  /\ Cardinality(InHands(chan', r)) + HandLeft(chan[c], r)
              = Cardinality(InHands(chan, r)) + HandLeft(l, r)
         /\ Cardinality(InHands(chan, r)) \in Nat
         /\ Cardinality(InHands(chan', r)) \in Nat
         /\ HandLeft(chan[c], r) \in Nat /\ HandLeft(l, r) \in Nat
<1>1. chan = [d \in Channel |-> chan[d]] /\ \A d \in Channel : IsLocal(chan[d])
  BY DEF ReportShape
<1>2. /\ chan' = [d \in Channel |-> chan'[d]]
      /\ chan'[c] = l /\ \A d \in Channel \ {c} : chan'[d] = chan[d]
      /\ \A d \in Channel : IsLocal(chan'[d])
  BY OneMoves
<1>3. Cardinality(InHands(chan', r)) - HandLeft(l, r)
        = Cardinality(InHands(chan, r)) - HandLeft(chan[c], r)
  BY <1>1, <1>2, HandsRights
<1>4. /\ Cardinality(InHands(chan, r)) \in Nat
      /\ Cardinality(InHands(chan', r)) \in Nat
  BY HandsFinite
<1>5. HandLeft(chan[c], r) \in Nat /\ HandLeft(l, r) \in Nat
  BY <1>1, LeftType
<1>6. QED
  BY <1>3, <1>4, <1>5

LEMMA MoveIs ==
  ASSUME ReportShape, NEW c \in Channel, NEW p, NEW n, Move(c, p, n)
  PROVE  chan' = [chan EXCEPT ![c] = Local(p, n, chan[c].event, chan[c].seq)]
<1>1. chan[c] = [pc |-> chan[c].pc, i |-> chan[c].i, event |-> chan[c].event, seq |-> chan[c].seq]
  BY DEF ReportShape, IsLocal
<1>2. /\ chan = [d \in Channel |-> chan[d]]
      /\ chan' = [chan EXCEPT ![c].pc = p, ![c].i = n]
  BY DEF ReportShape, Move
<1>3. [[chan[c] EXCEPT !.pc = p] EXCEPT !.i = n] = Local(p, n, chan[c].event, chan[c].seq)
  <2>1. PICK a, b, e, q : chan[c] = [pc |-> a, i |-> b, event |-> e, seq |-> q]
    BY <1>1
  <2>2. [[pc |-> a, i |-> b, event |-> e, seq |-> q] EXCEPT !.pc = p]
          = [pc |-> p, i |-> b, event |-> e, seq |-> q]
    OBVIOUS
  <2>3. [[pc |-> p, i |-> b, event |-> e, seq |-> q] EXCEPT !.i = n]
          = [pc |-> p, i |-> n, event |-> e, seq |-> q]
    OBVIOUS
  <2>4. chan[c].event = e /\ chan[c].seq = q
    BY <2>1
  <2>5. QED
    BY <2>1, <2>2, <2>3, <2>4 DEF Local
<1>4. chan' = [chan EXCEPT ![c] = [[chan[c] EXCEPT !.pc = p] EXCEPT !.i = n]]
  BY <1>2
<1>5. QED
  BY <1>3, <1>4

LEMMA LocalShape ==
  ASSUME NEW p, NEW n, NEW e, NEW q, IsEvent(e), p = "requeue" => e.report_count < 3
  PROVE  IsLocal(Local(p, n, e, q))
BY DEF IsLocal, Local

(* A channel whose step gives it no event and takes it none.               *)
LEMMA FreeHands ==
  ASSUME ReportInv, NEW c \in Channel, NEW l, IsLocal(l), chan' = [chan EXCEPT ![c] = l],
         chan[c].pc \notin {"requeue", "putback"}, l.pc \notin {"requeue", "putback"},
         UNCHANGED <<queue, queued, sent>>
  PROVE  ReportInv'
<1>1. \A r : HandLeft(chan[c], r) = 0 /\ HandLeft(l, r) = 0
  BY DEF HandLeft, Holds
<1>2. /\ chan' = [d \in Channel |-> chan'[d]]
      /\ \A d \in Channel : IsLocal(chan'[d])
      /\ \A r : Cardinality(InHands(chan', r)) = Cardinality(InHands(chan, r))
  <2>1. ReportShape
    BY DEF ReportInv
  <2>2. ASSUME NEW r PROVE Cardinality(InHands(chan', r)) = Cardinality(InHands(chan, r))
    <3>1. /\ Cardinality(InHands(chan', r)) + HandLeft(chan[c], r)
               = Cardinality(InHands(chan, r)) + HandLeft(l, r)
          /\ Cardinality(InHands(chan, r)) \in Nat /\ Cardinality(InHands(chan', r)) \in Nat
      BY <2>1, HandsMove
    <3>2. QED
      BY <1>1, <3>1
  <2>3. QED
    BY <2>1, <2>2, OneMoves
<1>3. ReportShape'
  BY <1>2 DEF ReportInv, ReportShape
<1>4. BudgetInv'
  BY <1>2 DEF ReportInv, BudgetInv, Rights
<1>5. QED
  BY <1>3, <1>4 DEF ReportInv

LEMMA MoveKeeps ==
  ASSUME ReportInv, NEW c \in Channel, NEW p, NEW n, Move(c, p, n),
         chan[c].pc \notin {"requeue", "putback"}, p \notin {"requeue", "putback"},
         UNCHANGED <<queue, queued, sent>>
  PROVE  ReportInv'
<1> DEFINE l == Local(p, n, chan[c].event, chan[c].seq)
<1>1. chan' = [chan EXCEPT ![c] = l]
  BY MoveIs DEF ReportInv
<1>2. IsLocal(l)
  BY LocalShape DEF ReportInv, ReportShape, IsLocal
<1>3. l.pc \notin {"requeue", "putback"}
  BY DEF Local
<1> HIDE DEF l
<1>4. QED
  BY <1>1, <1>2, <1>3, FreeHands

LEMMA AtRestShape == IsLocal(AtRest) /\ AtRest.pc = "idle" /\ IsEvent(Zeroed)
BY DEF IsLocal, AtRest, Local, Zeroed, Event, IsEvent

--------------------------------------------------------------------------------
LEMMA ReportInitInv == ReportInit => ReportInv
<1> SUFFICES ASSUME ReportInit PROVE ReportInv
  OBVIOUS
<1>1. queue = <<>> /\ chan = [c \in Channel |-> AtRest]
  BY DEF ReportInit
<1>2. queued = [r \in RowId |-> 0] /\ sent = [r \in RowId |-> 0]
  BY DEF ReportInit
<1>3. ReportShape
  BY <1>1, <1>2, EmptyQueue, AtRestShape DEF ReportShape
<1>4. ASSUME NEW r \in RowId PROVE Rights(r) = 0
  <2>1. InHands(chan, r) = {}
    BY <1>1, AtRestShape DEF InHands, Holds
  <2>2. Cardinality(InHands(chan, r)) = 0
    BY <2>1, FS_EmptySet
  <2>3. Cardinality(InQueue(queue, r)) = 0
    BY <1>1, EmptyQueue
  <2>4. QED
    BY <2>2, <2>3 DEF Rights
<1>5. QED
  BY <1>2, <1>3, <1>4 DEF ReportInv, BudgetInv

(* The steps of a channel that give out no event and take none back.       *)
LEMMA PlainSteps ==
  ASSUME ReportInv, NEW c \in Channel,
         GetEventRow(c) \/ Scan(c) \/ GetImportanceEvent(c) \/ UpdateEventRow(c) \/ Turn(c)
           \/ Leave(c)
  PROVE  ReportInv'
<1>1. CASE GetEventRow(c)
  BY <1>1, MoveKeeps DEF GetEventRow, At, history
<1>2. CASE Scan(c)
  <2>1. chan[c].pc = "scan" /\ UNCHANGED <<queue, queued, sent>>
    BY <1>2 DEF Scan, At, memory, history
  <2>2. \E p \in {"drain", "fetch"} : \E n : Move(c, p, n)
    BY <1>2 DEF Scan
  <2>3. QED
    BY <2>1, <2>2, MoveKeeps
<1>3. CASE GetImportanceEvent(c)
  BY <1>3, MoveKeeps DEF GetImportanceEvent, At, history
<1>4. CASE UpdateEventRow(c)
  BY <1>4, MoveKeeps DEF UpdateEventRow, At, memory, history
<1>5. CASE Turn(c)
  <2>1. chan[c].pc \in {"drain", "match"} /\ UNCHANGED <<queue, queued, sent>>
    BY <1>5 DEF Turn, memory, history
  <2>2. \E p \in {"pop", "pop_match"} : \E n : Move(c, p, n)
    BY <1>5 DEF Turn
  <2>3. QED
    BY <2>1, <2>2, MoveKeeps
<1>6. CASE Leave(c)
  <2>1. /\ chan[c].pc \in {"drain", "match"} /\ UNCHANGED <<queue, queued, sent>>
        /\ chan' = [chan EXCEPT ![c] = AtRest]
    BY <1>6 DEF Leave, memory, history
  <2>2. QED
    BY <2>1, AtRestShape, FreeHands
<1>7. QED
  BY <1>1, <1>2, <1>3, <1>4, <1>5, <1>6

(* What is left to show of a step: the shape, and the balance of one       *)
(* record.                                                                 *)
LEMMA Balance ==
  ASSUME ReportInv, IsQueue(queue'), chan' = [d \in Channel |-> chan'[d]],
         \A d \in Channel : IsLocal(chan'[d]),
         queued' \in [RowId -> Nat], sent' \in [RowId -> Nat],
         \A r \in RowId : sent'[r] + Rights(r)' + 3 * queued[r] <= sent[r] + Rights(r) + 3 * queued'[r]
  PROVE  ReportInv'
<1>1. ReportShape'
  BY DEF ReportShape
<1>2. ASSUME NEW r \in RowId PROVE sent'[r] + Rights(r)' <= 3 * queued'[r]
  <2>1. sent[r] + Rights(r) <= 3 * queued[r]
    BY DEF ReportInv, BudgetInv
  <2>2. /\ sent[r] \in Nat /\ queued[r] \in Nat /\ sent'[r] \in Nat /\ queued'[r] \in Nat
    BY DEF ReportInv, ReportShape
  <2>3. Rights(r) \in Nat /\ Rights(r)' \in Nat
    <3>1. \A q : IsQueue(q) => Cardinality(InQueue(q, r)) \in Nat
      BY QueueNat
    <3>2. IsQueue(queue)
      BY DEF ReportInv, ReportShape
    <3>3. \A ch : Cardinality(InHands(ch, r)) \in Nat
      BY HandsFinite
    <3>4. QED
      BY <3>1, <3>2, <3>3 DEF Rights
  <2>4. sent'[r] + Rights(r)' + 3 * queued[r] <= sent[r] + Rights(r) + 3 * queued'[r]
    OBVIOUS
  <2>5. QED
    BY <2>1, <2>2, <2>3, <2>4
<1>3. QED
  BY <1>1, <1>2 DEF ReportInv, BudgetInv

(* A record that is queued gets three rights more.                         *)
LEMMA EnqueueKeeps ==
  ASSUME ReportInv, NEW c \in Channel, Enqueue(c)
  PROVE  ReportInv'
<1>1. CASE Len(queue) = Capacity /\ UNCHANGED <<queue, queued>> /\ Move(c, "scan", chan[c].i + 1)
  BY <1>1, MoveKeeps DEF Enqueue, At
<1>2. CASE /\ queue' = Append(queue, Event(eventBuf, nextSeq, 0, TRUE))
           /\ queued' = [r \in RowId |-> IF r = eventBuf THEN queued[r] + 1 ELSE queued[r]]
           /\ Move(c, "clear", chan[c].i)
  <2> DEFINE e == Event(eventBuf, nextSeq, 0, TRUE)
             l == Local("clear", chan[c].i, chan[c].event, chan[c].seq)
  <2>1. /\ ReportShape /\ IsQueue(queue) /\ chan[c].pc = "enqueue" /\ sent' = sent
        /\ queued \in [RowId -> Nat] /\ sent \in [RowId -> Nat] /\ IsLocal(chan[c])
    BY DEF ReportInv, ReportShape, Enqueue, At
  <2>2. IsEvent(e) /\ e.row = eventBuf /\ e.report_count = 0
    BY DEF Event, IsEvent
  <2>3. IsQueue(queue')
    BY <1>2, <2>1, <2>2, QueueGrows
  <2>4. chan' = [chan EXCEPT ![c] = l] /\ IsLocal(l) /\ l.pc = "clear"
    BY <1>2, <2>1, MoveIs, LocalShape DEF Local, IsLocal
  <2> HIDE DEF l, e
  <2>5. /\ chan' = [d \in Channel |-> chan'[d]]
        /\ \A d \in Channel : IsLocal(chan'[d])
    BY <2>1, <2>4, OneMoves
  <2>6. ASSUME NEW r \in RowId
        PROVE  sent'[r] + Rights(r)' + 3 * queued[r] <= sent[r] + Rights(r) + 3 * queued'[r]
    <3>1. /\ Cardinality(InHands(chan', r)) + HandLeft(chan[c], r)
               = Cardinality(InHands(chan, r)) + HandLeft(l, r)
          /\ Cardinality(InHands(chan, r)) \in Nat /\ Cardinality(InHands(chan', r)) \in Nat
      BY <2>1, <2>4, HandsMove
    <3>2. HandLeft(chan[c], r) = 0 /\ HandLeft(l, r) = 0
      BY <2>1, <2>4 DEF HandLeft, Holds
    <3>3. Cardinality(InQueue(queue', r)) <= Cardinality(InQueue(queue, r)) + Left(e, r)
      BY <1>2, <2>1, <2>2, AppendRights DEF e
    <3>4. Left(e, r) = IF r = eventBuf THEN 3 ELSE 0
      BY <2>2 DEF Left
    <3>5. queued'[r] = IF r = eventBuf THEN queued[r] + 1 ELSE queued[r]
      BY <1>2
    <3>6. Cardinality(InQueue(queue', r)) \in Nat /\ Cardinality(InQueue(queue, r)) \in Nat
      BY <2>1, <2>3, QueueNat
    <3>7. queued[r] \in Nat /\ sent[r] \in Nat
      BY <2>1
    <3>8. QED
      BY <2>1, <3>1, <3>2, <3>3, <3>4, <3>5, <3>6, <3>7 DEF Rights
  <2>7. queued' \in [RowId -> Nat] /\ sent' \in [RowId -> Nat]
    BY <1>2, <2>1
  <2>8. QED
    BY <2>3, <2>5, <2>6, <2>7, Balance
<1>3. QED
  BY <1>1, <1>2 DEF Enqueue

LEMMA TakenShape ==
  ASSUME IsQueue(queue)
  PROVE  IsEvent(Taken) /\ IsQueue(Rest)
<1>1. CASE queue = <<>>
  BY <1>1, AtRestShape DEF Taken, Rest
<1>2. CASE queue # <<>>
  <2>1. PICK S : queue \in Seq(S) /\ \A e \in S : IsEvent(e)
    BY DEF IsQueue
  <2>2. Head(queue) \in S /\ Tail(queue) \in Seq(S)
    BY <1>2, <2>1
  <2>3. QED
    BY <1>2, <2>1, <2>2, QueueOf DEF Taken, Rest
<1>3. QED
  BY <1>1, <1>2

(* Channel c takes the event e over.                                       *)
LEMMA HandOver ==
  ASSUME ReportShape, NEW c \in Channel, NEW p, NEW e,
         chan' = [chan EXCEPT ![c].pc = p, ![c].event = e]
  PROVE  chan' = [chan EXCEPT ![c] = Local(p, chan[c].i, e, chan[c].seq)]
<1> DEFINE l == Local(p, chan[c].i, e, chan[c].seq)
<1>1. PICK a, b, d, q : chan[c] = [pc |-> a, i |-> b, event |-> d, seq |-> q]
  BY DEF ReportShape, IsLocal
<1>2. [[pc |-> a, i |-> b, event |-> d, seq |-> q] EXCEPT !.pc = p]
        = [pc |-> p, i |-> b, event |-> d, seq |-> q]
  OBVIOUS
<1>3. [[pc |-> p, i |-> b, event |-> d, seq |-> q] EXCEPT !.event = e]
        = [pc |-> p, i |-> b, event |-> e, seq |-> q]
  OBVIOUS
<1>4. chan[c].i = b /\ chan[c].seq = q
  BY <1>1
<1>5. [[chan[c] EXCEPT !.pc = p] EXCEPT !.event = e] = l
  BY <1>1, <1>2, <1>3, <1>4 DEF Local
<1>6. chan = [o \in Channel |-> chan[o]]
  BY DEF ReportShape
<1> HIDE DEF l
<1>7. chan' = [chan EXCEPT ![c] = l]
  BY <1>5, <1>6
<1>8. QED
  BY <1>7 DEF l

(* A frame uses up one right of the event, which goes to the hands of the  *)
(* channel; an event that has none left is dropped.                        *)
LEMMA SendEventKeeps ==
  ASSUME ReportInv, NEW c \in Channel, SendEvent(c)
  PROVE  ReportInv'
<1>1. /\ ReportShape /\ IsQueue(queue) /\ chan[c].pc = "pop" /\ queue' = Rest /\ queued' = queued
      /\ queued \in [RowId -> Nat] /\ sent \in [RowId -> Nat] /\ IsLocal(chan[c])
  BY DEF ReportInv, ReportShape, SendEvent, At
<1>2. IsEvent(Taken) /\ IsQueue(Rest)
  BY <1>1, TakenShape
<1>3. \A r \in RowId :
        /\ Cardinality(InQueue(Rest, r)) + Left(Taken, r) <= Cardinality(InQueue(queue, r))
        /\ Cardinality(InQueue(Rest, r)) \in Nat /\ Cardinality(InQueue(queue, r)) \in Nat
        /\ Left(Taken, r) \in Nat
  BY <1>1, <1>2, TakenRights, QueueNat, LeftType
<1>4. CASE ~MaySend(Taken) /\ Move(c, "drain", chan[c].i + 1) /\ UNCHANGED sent
  <2> DEFINE l == Local("drain", chan[c].i + 1, chan[c].event, chan[c].seq)
  <2>1. chan' = [chan EXCEPT ![c] = l] /\ IsLocal(l) /\ l.pc = "drain"
    BY <1>1, <1>4, MoveIs, LocalShape DEF Local, IsLocal
  <2> HIDE DEF l
  <2>2. /\ chan' = [d \in Channel |-> chan'[d]]
        /\ \A d \in Channel : IsLocal(chan'[d])
    BY <1>1, <2>1, OneMoves
  <2>3. ASSUME NEW r \in RowId
        PROVE  sent'[r] + Rights(r)' + 3 * queued[r] <= sent[r] + Rights(r) + 3 * queued'[r]
    <3>1. /\ Cardinality(InHands(chan', r)) + HandLeft(chan[c], r)
               = Cardinality(InHands(chan, r)) + HandLeft(l, r)
          /\ Cardinality(InHands(chan, r)) \in Nat /\ Cardinality(InHands(chan', r)) \in Nat
      BY <1>1, <2>1, HandsMove
    <3>2. HandLeft(chan[c], r) = 0 /\ HandLeft(l, r) = 0
      BY <1>1, <2>1 DEF HandLeft, Holds
    <3>3. queued[r] \in Nat /\ sent[r] \in Nat
      BY <1>1
    <3>4. QED
      BY <1>1, <1>3, <1>4, <3>1, <3>2, <3>3 DEF Rights
  <2>4. QED
    BY <1>1, <1>2, <1>4, <2>2, <2>3, Balance
<1>5. CASE /\ MaySend(Taken)
           /\ sent' = [r \in RowId |-> IF r = Taken.row THEN CountFrame(sent[r]) ELSE sent[r]]
           /\ chan' = [chan EXCEPT ![c].pc = "requeue", ![c].event = Taken]
  <2> DEFINE l == Local("requeue", chan[c].i, Taken, chan[c].seq)
  <2>1. chan' = [chan EXCEPT ![c] = l]
    BY <1>1, <1>5, HandOver
  <2>2. Taken.report_count \in 0 .. 2
    BY <1>2, <1>5 DEF MaySend, IsEvent
  <2>3. IsLocal(l) /\ l.pc = "requeue" /\ l.event = Taken
    BY <1>2, <2>2, LocalShape DEF Local
  <2> HIDE DEF l
  <2>4. /\ chan' = [d \in Channel |-> chan'[d]]
        /\ \A d \in Channel : IsLocal(chan'[d])
    BY <1>1, <2>1, <2>3, OneMoves
  <2>5. \A n \in Nat : CountFrame(n) \in Nat /\ CountFrame(n) <= n + 1
    BY DEF CountFrame
  <2>6. sent' \in [RowId -> Nat]
    BY <1>1, <1>5, <2>5
  <2>7. ASSUME NEW r \in RowId
        PROVE  sent'[r] + Rights(r)' + 3 * queued[r] <= sent[r] + Rights(r) + 3 * queued'[r]
    <3>1. /\ Cardinality(InHands(chan', r)) + HandLeft(chan[c], r)
               = Cardinality(InHands(chan, r)) + HandLeft(l, r)
          /\ Cardinality(InHands(chan, r)) \in Nat /\ Cardinality(InHands(chan', r)) \in Nat
      BY <1>1, <2>1, <2>3, HandsMove
    <3>2. HandLeft(chan[c], r) = 0
      BY <1>1 DEF HandLeft, Holds
    <3>3. HandLeft(l, r) = IF Taken.row = r THEN 2 - Taken.report_count ELSE 0
      BY <2>2, <2>3 DEF HandLeft, Holds, Spent
    <3>4. Left(Taken, r) = IF Taken.row = r THEN 3 - Taken.report_count ELSE 0
      BY DEF Left
    <3>5. queued[r] \in Nat /\ sent[r] \in Nat /\ sent'[r] \in Nat
      BY <1>1, <2>6
    <3>6. sent'[r] <= IF Taken.row = r THEN sent[r] + 1 ELSE sent[r]
      BY <1>5, <2>5, <3>5
    <3>7. QED
      BY <1>1, <1>3, <2>2, <3>1, <3>2, <3>3, <3>4, <3>5, <3>6 DEF Rights
  <2>8. QED
    BY <1>1, <1>2, <2>4, <2>6, <2>7, Balance
<1>6. QED
  BY <1>4, <1>5 DEF SendEvent

(* An event goes from the hands of a channel back to the queue, or is      *)
(* lost when the queue is full: either way no right is added.              *)
LEMMA PutBackKeeps ==
  ASSUME ReportInv, NEW c \in Channel, NEW l, NEW e,
         IsLocal(l), l.pc \notin {"requeue", "putback"},
         chan' = [chan EXCEPT ![c] = l], IsEvent(e), PutBack(e),
         \A r : Left(e, r) = HandLeft(chan[c], r),
         UNCHANGED <<queued, sent>>
  PROVE  ReportInv'
<1>1. /\ ReportShape /\ IsQueue(queue)
      /\ queued \in [RowId -> Nat] /\ sent \in [RowId -> Nat]
  BY DEF ReportInv, ReportShape
<1>2. /\ chan' = [d \in Channel |-> chan'[d]]
      /\ \A d \in Channel : IsLocal(chan'[d])
  BY <1>1, OneMoves
<1>3. IsQueue(queue')
  BY <1>1, PutBackRights
<1>4. ASSUME NEW r \in RowId
      PROVE  sent'[r] + Rights(r)' + 3 * queued[r] <= sent[r] + Rights(r) + 3 * queued'[r]
  <2>1. /\ Cardinality(InHands(chan', r)) + HandLeft(chan[c], r)
             = Cardinality(InHands(chan, r)) + HandLeft(l, r)
        /\ Cardinality(InHands(chan, r)) \in Nat /\ Cardinality(InHands(chan', r)) \in Nat
    BY <1>1, HandsMove
  <2>2. HandLeft(l, r) = 0
    BY DEF HandLeft, Holds
  <2>3. Cardinality(InQueue(queue', r)) <= Cardinality(InQueue(queue, r)) + Left(e, r)
    BY <1>1, PutBackRights
  <2>4. Left(e, r) = HandLeft(chan[c], r) /\ Left(e, r) \in Nat
    BY LeftType
  <2>5. Cardinality(InQueue(queue', r)) \in Nat /\ Cardinality(InQueue(queue, r)) \in Nat
    BY <1>1, <1>3, QueueNat
  <2>6. queued[r] \in Nat /\ sent[r] \in Nat
    BY <1>1
  <2>7. QED
    BY <2>1, <2>2, <2>3, <2>4, <2>5, <2>6 DEF Rights
<1>5. QED
  BY <1>1, <1>2, <1>3, <1>4, Balance

LEMMA RequeueKeeps ==
  ASSUME ReportInv, NEW c \in Channel, Requeue(c)
  PROVE  ReportInv'
<1> DEFINE e == CountSend(chan[c].event)
           l == Local("drain", chan[c].i + 1, Zeroed, 0)
<1>1. /\ chan[c].pc = "requeue" /\ IsLocal(chan[c])
      /\ chan' = [chan EXCEPT ![c] = l] /\ PutBack(e) /\ UNCHANGED <<queued, sent>>
  BY DEF ReportInv, ReportShape, Requeue, At, history
<1>2. IsLocal(l) /\ l.pc = "drain"
  BY AtRestShape, LocalShape DEF Local
<1>3. IsEvent(chan[c].event) /\ chan[c].event.report_count \in 0 .. 2
  BY <1>1 DEF IsLocal, IsEvent
<1>4. /\ IsEvent(e) /\ e.row = chan[c].event.row
      /\ e.report_count = chan[c].event.report_count + 1
  <2>1. PICK r, q, n, b : chan[c].event = [row |-> r, seq |-> q, report_count |-> n, full |-> b]
    BY <1>3 DEF IsEvent
  <2>2. n \in 0 .. 2 /\ chan[c].event.row = r /\ chan[c].event.report_count = n
    BY <1>3, <2>1
  <2>3. [[row |-> r, seq |-> q, report_count |-> n, full |-> b] EXCEPT !.report_count = n + 1]
          = [row |-> r, seq |-> q, report_count |-> n + 1, full |-> b]
    OBVIOUS
  <2>4. e = [row |-> r, seq |-> q, report_count |-> n + 1, full |-> b]
    BY <2>1, <2>2, <2>3 DEF CountSend
  <2>5. n + 1 \in 0 .. 3
    BY <2>2
  <2> HIDE DEF e
  <2>6. QED
    BY <2>2, <2>4, <2>5 DEF IsEvent
<1> HIDE DEF e, l
<1>5. \A r : Left(e, r) = HandLeft(chan[c], r)
  BY <1>1, <1>3, <1>4 DEF Left, HandLeft, Holds, Spent
<1>6. QED
  BY <1>1, <1>2, <1>4, <1>5, PutBackKeeps

LEMMA PutUnmatchedKeeps ==
  ASSUME ReportInv, NEW c \in Channel, PutUnmatched(c)
  PROVE  ReportInv'
<1> DEFINE e == chan[c].event
           l == Local("match", chan[c].i + 1, Zeroed, chan[c].seq)
<1>1. /\ chan[c].pc = "putback" /\ IsEvent(e)
      /\ chan' = [chan EXCEPT ![c] = l] /\ PutBack(e) /\ UNCHANGED <<queued, sent>>
  BY DEF ReportInv, ReportShape, PutUnmatched, At, history, IsLocal
<1>2. IsLocal(l) /\ l.pc = "match"
  BY AtRestShape, LocalShape DEF Local
<1>3. \A r : Left(e, r) = HandLeft(chan[c], r)
  BY <1>1 DEF Left, HandLeft, Holds, Spent
<1> HIDE DEF e, l
<1>4. QED
  BY <1>1, <1>2, <1>3, PutBackKeeps

(* A confirmation takes the event out, or the channel holds it until it    *)
(* puts it back.                                                           *)
LEMMA TakeForMatchKeeps ==
  ASSUME ReportInv, NEW c \in Channel, TakeForMatch(c)
  PROVE  ReportInv'
<1>1. /\ ReportShape /\ IsQueue(queue) /\ chan[c].pc = "pop_match" /\ queue' = Rest
      /\ UNCHANGED <<queued, sent>>
      /\ queued \in [RowId -> Nat] /\ sent \in [RowId -> Nat] /\ IsLocal(chan[c])
  BY DEF ReportInv, ReportShape, TakeForMatch, At, history
<1>2. IsEvent(Taken) /\ IsQueue(Rest)
  BY <1>1, TakenShape
<1>3. \A r \in RowId :
        /\ Cardinality(InQueue(Rest, r)) + Left(Taken, r) <= Cardinality(InQueue(queue, r))
        /\ Cardinality(InQueue(Rest, r)) \in Nat /\ Cardinality(InQueue(queue, r)) \in Nat
        /\ Left(Taken, r) \in Nat
  BY <1>1, <1>2, TakenRights, QueueNat, LeftType
<1>4. ASSUME NEW l, IsLocal(l), chan' = [chan EXCEPT ![c] = l],
             \A r : HandLeft(l, r) <= Left(Taken, r)
      PROVE  ReportInv'
  <2> ReportShape /\ IsLocal(l) /\ chan' = [chan EXCEPT ![c] = l]
    BY <1>1, <1>4
  <2>1. /\ chan' = [d \in Channel |-> chan'[d]]
        /\ \A d \in Channel : IsLocal(chan'[d])
    BY OneMoves
  <2>2. ASSUME NEW r \in RowId
        PROVE  sent'[r] + Rights(r)' + 3 * queued[r] <= sent[r] + Rights(r) + 3 * queued'[r]
    <3>1. /\ Cardinality(InHands(chan', r)) + HandLeft(chan[c], r)
               = Cardinality(InHands(chan, r)) + HandLeft(l, r)
          /\ Cardinality(InHands(chan, r)) \in Nat /\ Cardinality(InHands(chan', r)) \in Nat
      BY HandsMove
    <3>2. HandLeft(chan[c], r) = 0 /\ HandLeft(l, r) <= Left(Taken, r)
      BY <1>1, <1>4 DEF HandLeft, Holds
    <3>3. queued[r] \in Nat /\ sent[r] \in Nat /\ HandLeft(l, r) \in Nat
      BY <1>1, <1>4, LeftType
    <3>4. QED
      BY <1>1, <1>3, <3>1, <3>2, <3>3 DEF Rights
  <2>3. QED
    BY <1>1, <1>2, <2>1, <2>2, Balance
<1>5. CASE Move(c, "match", chan[c].i + 1)
  <2> DEFINE l == Local("match", chan[c].i + 1, chan[c].event, chan[c].seq)
  <2>1. chan' = [chan EXCEPT ![c] = l] /\ IsLocal(l) /\ l.pc = "match"
    BY <1>1, <1>5, MoveIs, LocalShape DEF Local, IsLocal
  <2> HIDE DEF l
  <2>2. \A r : HandLeft(l, r) <= Left(Taken, r)
    <3>1. \A r : HandLeft(l, r) = 0
      BY <2>1 DEF HandLeft, Holds
    <3>2. QED
      BY <1>2, <3>1, LeftType
  <2>3. QED
    BY <1>4, <2>1, <2>2
<1>6. CASE chan' = [chan EXCEPT ![c].pc = "putback", ![c].event = Taken]
  <2> DEFINE l == Local("putback", chan[c].i, Taken, chan[c].seq)
  <2>1. chan' = [chan EXCEPT ![c] = l]
    BY <1>1, <1>6, HandOver
  <2>2. IsLocal(l) /\ l.pc = "putback" /\ l.event = Taken
    BY <1>2, LocalShape DEF Local
  <2> HIDE DEF l
  <2>3. \A r : HandLeft(l, r) <= Left(Taken, r)
    <3>1. \A r : HandLeft(l, r) = Left(Taken, r)
      BY <2>2 DEF HandLeft, Holds, Spent, Left
    <3>2. QED
      BY <1>2, <3>1, LeftType
  <2>4. QED
    BY <1>4, <2>1, <2>2, <2>3
<1>7. QED
  BY <1>5, <1>6 DEF TakeForMatch

LEMMA ConfirmationKeeps ==
  ASSUME ReportInv, NEW c \in Channel, NEW f, Confirmation(c, f)
  PROVE  ReportInv'
<1> DEFINE l == Local("match", 0, Zeroed, f.seq)
<1>1. /\ chan[c].pc = "idle" /\ UNCHANGED <<queue, queued, sent>>
      /\ chan' = [chan EXCEPT ![c] = l]
  BY DEF Confirmation, At, memory
<1>2. IsLocal(l) /\ l.pc = "match"
  BY AtRestShape, LocalShape DEF Local
<1> HIDE DEF l
<1>3. QED
  BY <1>1, <1>2, FreeHands
--------------------------------------------------------------------------------
(* Every step keeps the balance, whoever takes it.                         *)
LEMMA ReportStep == ReportInv /\ [ReportNext]_allVars => ReportInv'
<1> SUFFICES ASSUME ReportInv, [ReportNext]_allVars PROVE ReportInv'
  OBVIOUS
<1>1. CASE UNCHANGED <<queue, chan, queued, sent>>
  BY <1>1 DEF ReportInv, ReportShape, BudgetInv, Rights
<1>2. ASSUME NEW c \in Channel, ChannelStep(c) PROVE ReportInv'
  BY <1>2, PlainSteps, EnqueueKeeps, SendEventKeeps, RequeueKeeps, PutUnmatchedKeeps,
     TakeForMatchKeeps DEF ChannelStep
<1>3. CASE PowerFailure
  <2>1. /\ queue' = <<>> /\ chan' = [c \in Channel |-> AtRest] /\ UNCHANGED <<queued, sent>>
        /\ queued \in [RowId -> Nat] /\ sent \in [RowId -> Nat]
    BY <1>3 DEF PowerFailure, ReportInv, ReportShape
  <2>2. ReportShape'
    BY <2>1, EmptyQueue, AtRestShape DEF ReportShape
  <2>3. ASSUME NEW r \in RowId PROVE sent'[r] + Rights(r)' <= 3 * queued'[r]
    <3>1. InHands(chan', r) = {}
      BY <2>1, AtRestShape DEF InHands, Holds
    <3>2. Cardinality(InHands(chan', r)) = 0
      BY <3>1, FS_EmptySet
    <3>3. Cardinality(InQueue(queue', r)) = 0
      BY <2>1, EmptyQueue
    <3>4. Rights(r)' = 0
      BY <3>2, <3>3 DEF Rights
    <3>5. sent[r] + Rights(r) <= 3 * queued[r] /\ Rights(r) \in Nat
      BY HandsFinite, QueueNat DEF ReportInv, ReportShape, BudgetInv, Rights
    <3>6. QED
      BY <2>1, <3>4, <3>5
  <2>4. QED
    BY <2>2, <2>3 DEF ReportInv, BudgetInv
<1>4. CASE StoreEnvironment
  BY <1>1, <1>4 DEF StoreEnvironment, reportVars, memory, history
<1>5. CASE \E s \in Saver : StoreStep(s)
  BY <1>1, <1>5 DEF StoreStep, history
<1>6. CASE UNCHANGED allVars
  BY <1>1, <1>6 DEF allVars, reportVars, memory, history
<1>7. QED
  BY <1>2, <1>3, <1>4, <1>5, <1>6, ConfirmationKeeps DEF ReportNext

(* The invariant behind SendsBounded: the frames that were sent with a     *)
(* record, and those that the events in the queue and in the hands of the  *)
(* channels are still entitled to, are together three at most for each     *)
(* time it was queued.                                                     *)
THEOREM RightsAreBounded == ReportSpec => []ReportInv
BY ReportInitInv, ReportStep, PTL DEF ReportSpec

(* However many channels send from the queue, put events back and take     *)
(* them out for confirmations, and wherever the power fails: a record that *)
(* was queued costs three frames at most (send_event's report_count).      *)
THEOREM ThreeFramesAtMost == ReportSpec => []SendsBounded
<1>1. ReportInv => SendsBounded
  <2>1. SUFFICES ASSUME ReportInv, NEW r \in RowId PROVE sent[r] <= 3 * queued[r]
    BY DEF SendsBounded
  <2>2. /\ sent[r] + Rights(r) <= 3 * queued[r]
        /\ sent[r] \in Nat /\ queued[r] \in Nat
    <3>1. BudgetInv /\ queued \in [RowId -> Nat] /\ sent \in [RowId -> Nat]
      BY <2>1 DEF ReportInv, ReportShape
    <3>2. QED
      BY <2>1, <3>1 DEF BudgetInv
  <2>3. Rights(r) \in Nat
    <3>1. IsQueue(queue)
      BY <2>1 DEF ReportInv, ReportShape
    <3>2. Cardinality(InQueue(queue, r)) \in Nat /\ Cardinality(InHands(chan, r)) \in Nat
      BY <3>1, HandsFinite, QueueNat
    <3>3. QED
      BY <3>2 DEF Rights
  <2>4. QED
    BY <2>2, <2>3
<1>2. QED
  BY <1>1, RightsAreBounded, PTL
--------------------------------------------------------------------------------
(* One connection, and every record reported once.                          *)

(* The conditions.  One connection; F9 moves no kind to the other class,   *)
(* the file is not erased, and no kind is full, so that no record goes.    *)
OneConnection == \E c : Channel = {c}

NothingGoes ==
  /\ Without({"flags", "resets"})
  /\ \A s \in Saver : saving[s].pc \notin {"evict", "recount"}

(* Seq has not come round, nor gone past the four bits of a frame.         *)
NumbersFit == nextSeq < SeqRange - 1 /\ nextSeq <= WireRange

(* The rowids of n records that were inserted and never deleted.           *)
Numbered(T, n) ==
  /\ n \in Nat
  /\ \A x \in T : x.rowid \in 1 .. n
  /\ \A k \in 1 .. n : \E x \in T : x.rowid = k
  /\ \A x, y \in T : x.rowid = y.rowid => x = y

Inserting == {s \in Saver : saving[s].pc = "insert"}

(* Every record of a class has come from a save that is not about to       *)
(* insert any more.                                                        *)
Accounted(p) ==
  \E n \in Nat : Numbered(tab[p], n) /\ n + Cardinality(Inserting) <= used["saves"]

KeptInv ==
  /\ \A s \in Saver : saving[s].pc # "idle" => saving[s].prio = rating[saving[s].erc]
  /\ \A p \in Priority : \A x \in tab[p] : rating[x.erc] = p
  /\ IsFiniteSet(Inserting)
  /\ \A p \in Priority : Accounted(p)
  /\ used["saves"] <= Bound["saves"]

(* A record that waits for its report, and the flags that send_event goes  *)
(* through from k on.                                                      *)
Waits(r) == \E x \in tab[Important] : x.rowid = r /\ x.report = 1
InTable(r) == \E x \in tab[Important] : x.rowid = r
FlagsFrom(k) == \A j \in Flag : j >= k /\ ercReport[j] = 1 => Waits(j + 1)

ScanInv(c) ==
  /\ chan[c].i \in Nat
  /\ At(c, "scan") => FlagsFrom(chan[c].i)
  /\ chan[c].pc \in {"fetch", "enqueue", "clear"} =>
       Waits(chan[c].i + 1) /\ FlagsFrom(chan[c].i + 1)
  /\ At(c, "enqueue") => eventBuf = chan[c].i + 1

Clearing(r) == \E c \in Channel : At(c, "clear") /\ chan[c].i + 1 = r

OnceInv ==
  \A r \in RowId :
    /\ queued[r] <= 1 + used["restarts"]
    /\ ~InTable(r) => queued[r] = 0
    /\ Waits(r) /\ ~Clearing(r) => queued[r] <= used["restarts"]

(* An event that was queued in this run of the program.                    *)
Known(e) ==
  /\ e.row \in RowId /\ queued[e.row] >= 1
  /\ e.seq \in Nat /\ e.seq < nextSeq /\ e.full
  /\ e.report_count > 0 => sent[e.row] > 0

Apart(d, e) == d.row # e.row /\ d.seq # e.seq
Alike(f, e) == f.row = e.row <=> f.seq = e.seq
Reached(r) == sent[r] > 0 \/ Held(r)

QueueInv ==
  /\ nextSeq \in Nat
  /\ Len(queue) <= Capacity
  /\ \A n \in 1 .. Len(queue) : Known(queue[n]) /\ \A f \in answerable : Alike(f, queue[n])
  /\ \A m, n \in 1 .. Len(queue) : m # n => Apart(queue[m], queue[n])

FramesInv ==
  /\ \A f \in answerable : /\ f.row \in RowId /\ sent[f.row] > 0 /\ queued[f.row] >= 1
                           /\ f.seq \in Nat /\ f.seq < nextSeq
  /\ \A r \in confirmed : r \in RowId /\ queued[r] >= 1

HandInv(c) ==
  chan[c].pc \in {"requeue", "putback"} =>
    /\ Known(chan[c].event) /\ Len(queue) < Capacity
    /\ \A n \in 1 .. Len(queue) : Apart(queue[n], chan[c].event)
    /\ \A f \in answerable : Alike(f, chan[c].event)
    /\ At(c, "requeue") => sent[chan[c].event.row] > 0
    /\ chan[c].event.row \notin confirmed

Matching(c) == chan[c].pc \in {"match", "pop_match", "putback"}
MatchInv(c) ==
  /\ chan[c].pc \in {"pop", "pop_match"} => chan[c].i < Len(queue)
  /\ Matching(c) => \E f \in answerable : f.seq = chan[c].seq
  /\ \A n \in 1 .. Len(queue) : queue[n].row \in confirmed =>
       Matching(c) /\ n + chan[c].i <= Len(queue) /\ queue[n].seq = chan[c].seq

ReachedInv ==
  /\ \A x \in tab[Important] : x.report = 0 => Reached(x.rowid)
  /\ \A c \in Channel : At(c, "clear") => Reached(chan[c].i + 1)

Delivery == QueueInv /\ FramesInv /\ ReachedInv /\ \A c \in Channel : HandInv(c) /\ MatchInv(c)

EventsInv == Without({"restarts"}) => Delivery
--------------------------------------------------------------------------------
LEMMA NumberedSize ==
  ASSUME NEW T, NEW n, Numbered(T, n)
  PROVE  IsFiniteSet(T) /\ Cardinality(T) = n
<1> DEFINE g == [k \in 1 .. n |-> CHOOSE x \in T : x.rowid = k]
<1>1. n \in Nat
  BY DEF Numbered
<1>2. \A k \in 1 .. n : g[k] \in T /\ g[k].rowid = k
  BY DEF Numbered
<1>3. \A x \in T : x.rowid \in 1 .. n /\ g[x.rowid] = x
  BY <1>2 DEF Numbered
<1>4. g \in [1 .. n -> T]
  BY <1>2
<1> HIDE DEF g
<1>5. g \in Bijection(1 .. n, T)
  BY <1>2, <1>3, <1>4 DEF Bijection, Injection, Surjection, IsInjective
<1>6. ExistsBijection(1 .. n, T)
  BY <1>5 DEF ExistsBijection
<1>7. IsFiniteSet(1 .. n) /\ Cardinality(1 .. n) = n
  <2>1. 1 \in Int /\ n \in Int
    BY <1>1
  <2>2. IsFiniteSet(1 .. n) /\ Cardinality(1 .. n) = IF 1 > n THEN 0 ELSE n - 1 + 1
    BY <2>1, FS_Interval
  <2>3. QED
    BY <1>1, <2>2
<1>8. QED
  BY <1>6, <1>7, FS_Bijection

(* The i-th row has the rowid i + 1.                                        *)
LEMMA RowAtIs ==
  ASSUME NEW T, NEW n, Numbered(T, n), NEW i \in Nat, i < n
  PROVE  RowAt(T, i) \in T /\ RowAt(T, i).rowid = i + 1
<1>1. n \in Nat
  BY DEF Numbered
<1>2. ASSUME NEW r \in T PROVE r.rowid \in Nat /\ Cardinality(RowsBefore(T, r)) = r.rowid - 1
  <2>1. r.rowid \in 1 .. n
    BY DEF Numbered
  <2>2. Numbered(RowsBefore(T, r), r.rowid - 1)
    BY <1>1, <2>1 DEF Numbered, RowsBefore
  <2>3. QED
    BY <2>1, <2>2, NumberedSize
<1>3. PICK r \in T : r.rowid = i + 1
  BY <1>1 DEF Numbered
<1>4. Cardinality(RowsBefore(T, r)) = i
  BY <1>2, <1>3
<1>5. RowAt(T, i) \in T /\ Cardinality(RowsBefore(T, RowAt(T, i))) = i
  BY <1>4 DEF RowAt
<1>6. QED
  BY <1>2, <1>5

LEMMA NumberedEmpty == Numbered({}, 0)
BY DEF Numbered

LEMMA FreshIdIs ==
  ASSUME NEW T, NEW n, Numbered(T, n)
  PROVE  FreshId(T) = n + 1
<1>1. n \in Nat
  BY DEF Numbered
<1>2. CASE T = {}
  <2>1. n = 0
    BY <1>1, <1>2 DEF Numbered
  <2>2. QED
    BY <1>2, <2>1 DEF FreshId
<1>3. CASE T # {}
  <2> DEFINE Ids == {r.rowid : r \in T}
  <2>1. Ids = 1 .. n /\ n >= 1
    BY <1>1, <1>3 DEF Numbered
  <2>2. Max(Ids) = n
    BY <1>1, <2>1 DEF Max
  <2>3. QED
    BY <1>1, <1>3, <2>2 DEF FreshId
<1>4. QED
  BY <1>2, <1>3

LEMMA InsertedIs ==
  ASSUME NEW T, NEW n, Numbered(T, n), NEW e, NEW t, NEW flag
  PROVE  /\ Inserted(T, e, t, flag) = T \cup {[rowid |-> n + 1, erc |-> e, time |-> t, report |-> flag]}
         /\ Numbered(Inserted(T, e, t, flag), n + 1)
<1>1. n \in Nat
  BY DEF Numbered
<1>2. PICK x : x = [rowid |-> n + 1, erc |-> e, time |-> t, report |-> flag]
  OBVIOUS
<1>3. Inserted(T, e, t, flag) = T \cup {x}
  BY <1>2, FreshIdIs DEF Inserted
<1>4. x.rowid = n + 1
  BY <1>2
<1>5. Numbered(T \cup {x}, n + 1)
  BY <1>1, <1>4 DEF Numbered
<1>6. QED
  BY <1>2, <1>3, <1>5

LEMMA UnflaggedIs ==
  ASSUME NEW T \in SUBSET Row, NEW n, Numbered(T, n), NEW i \in Nat, i < n
  PROVE  \E x \in T : /\ x.rowid = i + 1
                      /\ Unflagged(T, i) = (T \ {x}) \cup {[x EXCEPT !.report = 0]}
<1>1. n \in Nat /\ Cardinality(T) = n
  BY NumberedSize DEF Numbered
<1>2. T # {}
  BY <1>1 DEF Numbered
<1>3. Unflagged(T, i) = (T \ {RowAt(T, i)}) \cup {[RowAt(T, i) EXCEPT !.report = 0]}
  BY <1>1, <1>2 DEF Unflagged
<1>4. QED
  BY <1>3, RowAtIs

(* One flag less, and nothing else.                                         *)
OneFlagLess(T, U, n, i) ==
  /\ U \in SUBSET Row
  /\ Numbered(U, n)
  /\ \A y \in U : \E x \in T : x.rowid = y.rowid /\ x.erc = y.erc
  /\ \A x \in T : x.rowid # i + 1 => x \in U
  /\ \A y \in U : IF y.rowid = i + 1 THEN y.report = 0 ELSE y \in T

LEMMA UnflaggedKeeps ==
  ASSUME NEW T \in SUBSET Row, NEW n, Numbered(T, n), NEW i \in Nat, i < n
  PROVE  OneFlagLess(T, Unflagged(T, i), n, i)
<1>1. PICK x \in T : /\ x.rowid = i + 1
                     /\ Unflagged(T, i) = (T \ {x}) \cup {[x EXCEPT !.report = 0]}
  BY UnflaggedIs
<1>2. PICK y : y = [x EXCEPT !.report = 0]
  OBVIOUS
<1>3. y \in Row /\ y.rowid = x.rowid /\ y.erc = x.erc /\ y.report = 0
  BY <1>2 DEF Row
<1>4. Unflagged(T, i) = (T \ {x}) \cup {y}
  BY <1>1, <1>2
<1>5. \A z \in T : z # x => z.rowid # x.rowid
  BY DEF Numbered
<1>6. Numbered((T \ {x}) \cup {y}, n)
  BY <1>3, <1>5 DEF Numbered
<1>7. QED
  BY <1>1, <1>3, <1>4, <1>5, <1>6 DEF OneFlagLess
--------------------------------------------------------------------------------
(* A step of a save adds a record to the class of its kind, or leaves the  *)
(* tables alone.                                                           *)
Adds(s, p) ==
  /\ saving[s].pc = "insert" /\ p = saving[s].prio
  /\ tab'[p] = Inserted(tab[p], saving[s].erc, saving[s].time, IF p = OrdinaryEvent THEN 0 ELSE 1)

LEMMA OnlySaverAdds ==
  ASSUME TypeOK, KeptInv, NothingGoes, NEW s \in Saver, SaverStep(s), NEW p \in Priority
  PROVE  tab'[p] = tab[p] \/ Adds(s, p)
<1>1. saving[s] \in Locals /\ tab \in [Priority -> SUBSET Row]
  BY DEF TypeOK
<1>2. saving[s].pc \notin {"evict", "recount"}
  BY DEF NothingGoes
<1>3. CASE InsertEvent(s)
  <2>1. saving[s].prio \in Priority /\ saving[s].pc = "insert"
    BY <1>1, <1>3 DEF Locals, InsertEvent, Calls
  <2>2. CASE tab' = tab
    BY <2>2
  <2>3. CASE tab' = [tab EXCEPT ![saving[s].prio] =
                       Inserted(@, saving[s].erc, saving[s].time,
                                IF saving[s].prio = OrdinaryEvent THEN 0 ELSE 1)]
    <3>1. CASE p = saving[s].prio
      BY <1>1, <2>1, <2>3, <3>1 DEF Adds
    <3>2. CASE p # saving[s].prio
      BY <1>1, <2>3, <3>2
    <3>3. QED
      BY <3>1, <3>2
  <2>4. QED
    BY <1>3, <2>2, <2>3 DEF InsertEvent
<1>4. CASE DelERC(s)
  <2>1. Other(saving[s].prio) \in Priority /\ Other(saving[s].prio) # saving[s].prio
    BY <1>1 DEF Locals, Other, Priority
  <2>2. saving[s].prio = rating[saving[s].erc]
    BY <1>4 DEF KeptInv, DelERC, Calls
  <2>3. Rows(tab[Other(saving[s].prio)], saving[s].erc) = {}
    BY <2>1, <2>2 DEF KeptInv, Rows
  <2>4. WithoutErc(tab[Other(saving[s].prio)], saving[s].erc) = tab[Other(saving[s].prio)]
    BY <2>3 DEF WithoutErc
  <2>5. tab' = tab \/ tab' = [tab EXCEPT ![Other(saving[s].prio)] = tab[Other(saving[s].prio)]]
    BY <1>4, <2>4 DEF DelERC
  <2>6. QED
    BY <1>1, <2>1, <2>5
<1>5. CASE UNCHANGED tab
  BY <1>5
<1>6. QED
  BY <1>2, <1>3, <1>4, <1>5 DEF SaverStep, Begin, DeleteEvent, GetEvent_Num, UpdateEC,
     UpdateEC_insert, CountRecord, Calls, db

LEMMA SavesCounted ==
  ASSUME TypeOK, Works \/ Fails
  PROVE  used'["saves"] = used["saves"]
BY DEF TypeOK, Works, Fails, Using, Causes

(* A save that begins is counted, and will insert at most once.            *)
LEMMA SaverInserts ==
  ASSUME TypeOK, NothingGoes, NothingGoes', NEW s \in Saver, SaverStep(s)
  PROVE  \/ /\ Inserting' = Inserting \cup {s} /\ s \notin Inserting
            /\ used'["saves"] = used["saves"] + 1 /\ used["saves"] < Bound["saves"]
         \/ /\ Inserting' = Inserting \ {s}
            /\ used'["saves"] = used["saves"]
<1>1. saving[s] \in Locals /\ saving \in [Saver -> Locals]
  BY DEF TypeOK
<1>2. saving[s].pc \notin {"evict", "recount"} /\ saving'[s].pc \notin {"evict", "recount"}
  BY DEF NothingGoes
<1>3. \A t \in Saver : t # s => saving'[t] = saving[t]
  BY SaverFrame
<1>4. CASE \E e \in Saves[s] : Begin(s, e)
  <2>1. saving[s].pc = "idle" /\ saving'[s].pc \in {"evict", "insert"}
    BY <1>1, <1>4 DEF Begin, Saving
  <2>2. Inserting' = Inserting \cup {s} /\ s \notin Inserting
    BY <1>2, <1>3, <2>1 DEF Inserting
  <2>3. used'["saves"] = used["saves"] + 1 /\ used["saves"] < Bound["saves"]
    BY <1>4 DEF Begin, May, Using, TypeOK, Causes
  <2>4. QED
    BY <2>2, <2>3
<1>5. ASSUME saving'[s].pc # "insert", used'["saves"] = used["saves"]
      PROVE  Inserting' = Inserting \ {s} /\ used'["saves"] = used["saves"]
  BY <1>3, <1>5 DEF Inserting
<1>6. CASE InsertEvent(s)
  BY <1>1, <1>5, <1>6, SavesCounted DEF InsertEvent, Locals
<1>7. CASE UpdateEC(s)
  <2>1. saving[s].pc \in {"ec1", "ec2"}
    BY <1>7 DEF UpdateEC, Calls
  <2>2. saving'[s].pc # "insert"
    BY <1>1, <1>7, <2>1 DEF UpdateEC, Goto, EndUpdate, After, Locals
  <2>3. QED
    BY <1>5, <1>7, <2>2, SavesCounted DEF UpdateEC
<1>8. CASE UpdateEC_insert(s)
  <2>1. saving'[s].pc # "insert"
    BY <1>1, <1>8 DEF UpdateEC_insert, EndUpdate, After, Locals
  <2>2. QED
    BY <1>5, <1>8, <2>1, SavesCounted DEF UpdateEC_insert
<1>9. CASE DelERC(s)
  <2>1. saving'[s].pc # "insert"
    BY <1>1, <1>9 DEF DelERC, NotSaving, Saving, Locals
  <2>2. QED
    BY <1>5, <1>9, <2>1, SavesCounted DEF DelERC
<1>10. CASE CountRecord(s)
  <2>1. saving'[s].pc # "insert"
    BY <1>1, <1>10 DEF CountRecord, NotSaving, Saving, Locals
  <2>2. QED
    BY <1>5, <1>10, <2>1 DEF CountRecord
<1>11. QED
  BY <1>2, <1>4, <1>6, <1>7, <1>8, <1>9, <1>10 DEF SaverStep, DeleteEvent, GetEvent_Num, Calls

LEMMA InsertingSize ==
  ASSUME TypeOK, KeptInv, NothingGoes, NothingGoes', NEW s \in Saver, SaverStep(s)
  PROVE  /\ IsFiniteSet(Inserting') /\ used'["saves"] <= Bound["saves"]
         /\ Cardinality(Inserting) \in Nat /\ Cardinality(Inserting') \in Nat
         /\ Cardinality(Inserting') - used'["saves"] <= Cardinality(Inserting) - used["saves"]
         /\ saving[s].pc = "insert" =>
              Cardinality(Inserting') + 1 - used'["saves"] <= Cardinality(Inserting) - used["saves"]
<1>1. IsFiniteSet(Inserting) /\ used["saves"] <= Bound["saves"]
  BY DEF KeptInv
<1>2. Cardinality(Inserting) \in Nat
  BY <1>1, FS_CardinalityType
<1>3. used["saves"] \in Nat /\ used'["saves"] \in Int /\ Bound["saves"] \in Nat
  BY StoreAssumption, SaverInserts DEF TypeOK, Causes
<1>4. CASE /\ Inserting' = Inserting \cup {s} /\ s \notin Inserting
           /\ used'["saves"] = used["saves"] + 1 /\ used["saves"] < Bound["saves"]
  <2>1. IsFiniteSet(Inserting') /\ Cardinality(Inserting') = Cardinality(Inserting) + 1
    BY <1>1, <1>4, FS_AddElement
  <2>2. saving[s].pc # "insert"
    BY <1>4 DEF Inserting
  <2>3. QED
    BY <1>2, <1>3, <1>4, <2>1, <2>2
<1>5. CASE /\ Inserting' = Inserting \ {s} /\ used'["saves"] = used["saves"]
  <2>1. /\ IsFiniteSet(Inserting')
        /\ Cardinality(Inserting') = IF s \in Inserting THEN Cardinality(Inserting) - 1
                                                        ELSE Cardinality(Inserting)
    BY <1>1, <1>5, FS_RemoveElement
  <2>2. Cardinality(Inserting') \in Nat
    BY <2>1, FS_CardinalityType
  <2>3. saving[s].pc = "insert" => s \in Inserting
    BY DEF Inserting
  <2>4. QED
    BY <1>1, <1>2, <1>3, <1>5, <2>1, <2>2, <2>3
<1>6. QED
  BY <1>4, <1>5, SaverInserts

LEMMA KeptSaver ==
  ASSUME TypeOK, KeptInv, NothingGoes, NothingGoes', NEW s \in Saver, SaverStep(s)
  PROVE  KeptInv'
<1>1. saving[s] \in Locals /\ rating' = rating /\ rating \in [Erc -> Priority]
  BY SaverFrame DEF TypeOK
<1>2. \A t \in Saver : saving'[t].pc # "idle" => saving'[t].prio = rating'[saving'[t].erc]
  <2>1. \A t \in Saver : t # s => saving'[t] = saving[t]
    BY SaverFrame
  <2>2. saving'[s].pc # "idle" => saving'[s].prio = rating[saving'[s].erc]
    <3>1. CASE saving[s].pc = "idle"
      <4>1. PICK e \in Saves[s] : Begin(s, e)
        BY <3>1 DEF SaverStep, DeleteEvent, GetEvent_Num, InsertEvent, UpdateEC,
                    UpdateEC_insert, DelERC, CountRecord, Calls
      <4>2. saving'[s].erc = e /\ saving'[s].prio = rating[e]
        BY <4>1 DEF Begin, Saving, TypeOK
      <4>3. QED
        BY <4>2
    <3>2. CASE saving[s].pc # "idle"
      BY <3>2, SaverKeepsLocals DEF KeptInv
    <3>3. QED
      BY <3>1, <3>2
  <2>3. QED
    BY <1>1, <2>1, <2>2 DEF KeptInv
<1>3. ASSUME NEW p \in Priority
      PROVE  (\A x \in tab'[p] : rating'[x.erc] = p) /\ Accounted(p)'
  <2>1. PICK n \in Nat : Numbered(tab[p], n) /\ n + Cardinality(Inserting) <= used["saves"]
    BY DEF KeptInv, Accounted
  <2>2. used["saves"] \in Nat /\ used'["saves"] \in Int
    BY SaverInserts DEF TypeOK, Causes
  <2>3. CASE tab'[p] = tab[p]
    <3>1. n + Cardinality(Inserting') <= used'["saves"]
      BY <2>1, <2>2, InsertingSize
    <3>2. QED
      BY <1>1, <2>1, <2>3, <3>1 DEF KeptInv, Accounted
  <2>4. CASE Adds(s, p)
    <3>1. PICK e, t, flag : e = saving[s].erc /\ t = saving[s].time /\ tab'[p] = Inserted(tab[p], e, t, flag)
      BY <2>4 DEF Adds
    <3>2. /\ tab'[p] = tab[p] \cup {[rowid |-> n + 1, erc |-> e, time |-> t, report |-> flag]}
          /\ Numbered(tab'[p], n + 1)
      BY <2>1, <3>1, InsertedIs
    <3>3. rating[e] = p
      BY <2>4, <3>1 DEF Adds, KeptInv
    <3>4. \A x \in tab'[p] : rating'[x.erc] = p
      BY <1>1, <3>2, <3>3 DEF KeptInv
    <3>5. n + 1 + Cardinality(Inserting') <= used'["saves"]
      BY <2>1, <2>2, <2>4, InsertingSize DEF Adds
    <3>6. QED
      BY <3>2, <3>4, <3>5 DEF Accounted
  <2>5. QED
    BY <2>3, <2>4, OnlySaverAdds
<1>4. QED
  BY <1>2, <1>3, InsertingSize DEF KeptInv

LEMMA EnvironmentIs ==
  ASSUME TypeOK, NothingGoes', Environment
  PROVE  /\ UNCHANGED <<tab, rating>> /\ used'["saves"] = used["saves"]
         /\ saving' = saving \/ \A s \in Saver : saving'[s].pc = "idle"
         /\ ~Restart => used'["restarts"] = used["restarts"]
         /\ Restart => used'["restarts"] = used["restarts"] + 1
<1>1. used \in [Causes -> Nat] /\ used'["flags"] = 0 /\ used'["resets"] = 0
  BY DEF TypeOK, NothingGoes, Without
<1>2. CASE Tick \/ create_table
  BY <1>2 DEF Tick, create_table, db, globals, config, Restart, May, Using, Causes, TypeOK
<1>3. ASSUME NEW t \in 0 .. MaxTime, SetClock(t)
      PROVE  /\ UNCHANGED <<tab, rating, saving>> /\ used'["saves"] = used["saves"]
             /\ used'["restarts"] = used["restarts"]
  BY <1>1, <1>3 DEF SetClock, db, globals, config, Using, Causes
<1>4. ASSUME NEW e \in Erc, NEW v \in BOOLEAN, NEW p \in Priority, SetF9(e, v, p) PROVE FALSE
  BY <1>1, <1>4 DEF SetF9, Using, Causes
<1>5. CASE RemoveFile
  BY <1>1, <1>5 DEF RemoveFile, Using, Causes
<1>6. CASE Restart
  BY <1>1, <1>6 DEF Restart, Using, Causes, NotSaving, Saving, config
<1>7. CASE \E t \in 0 .. MaxTime : SetClock(t)
  <2>1. ~Restart
    <3>1. SUFFICES ASSUME Restart PROVE FALSE
      OBVIOUS
    <3>2. used'["restarts"] = used["restarts"] + 1
      BY <1>1, <3>1 DEF Restart, Using, Causes
    <3>3. QED
      BY <1>1, <1>3, <1>7, <3>2 DEF Causes
  <2>2. QED
    BY <1>3, <1>7, <2>1
<1>8. QED
  BY <1>2, <1>4, <1>5, <1>6, <1>7 DEF Environment

LEMMA KeptEnvironment ==
  ASSUME TypeOK, KeptInv, NothingGoes', Environment
  PROVE  KeptInv'
<1>1. UNCHANGED <<tab, rating>> /\ used'["saves"] = used["saves"]
  BY EnvironmentIs
<1>2. CASE saving' = saving
  BY <1>1, <1>2 DEF KeptInv, Accounted, Inserting
<1>3. CASE \A s \in Saver : saving'[s].pc = "idle"
  <2>1. Inserting' = {}
    BY <1>3 DEF Inserting
  <2>2. IsFiniteSet(Inserting') /\ Cardinality(Inserting') = 0
    BY <2>1, FS_EmptySet
  <2>3. IsFiniteSet(Inserting) /\ Cardinality(Inserting) \in Nat /\ used["saves"] \in Nat
    BY FS_CardinalityType DEF KeptInv, TypeOK, Causes
  <2>4. ASSUME NEW p \in Priority PROVE Accounted(p)'
    <3>1. PICK n \in Nat : Numbered(tab[p], n) /\ n + Cardinality(Inserting) <= used["saves"]
      BY DEF KeptInv, Accounted
    <3>2. n + Cardinality(Inserting') <= used'["saves"]
      BY <1>1, <2>2, <2>3, <3>1
    <3>3. QED
      BY <1>1, <3>1, <3>2 DEF Accounted
  <2>5. QED
    BY <1>1, <1>3, <2>2, <2>4 DEF KeptInv
<1>4. QED
  BY <1>2, <1>3, EnvironmentIs

(* The rows of a class and their rowids.                                   *)
LEMMA ImportantRows ==
  ASSUME TypeOK, KeptInv
  PROVE  /\ tab[Important] \in SUBSET Row
         /\ \E n \in Nat : Numbered(tab[Important], n) /\ n <= Bound["saves"]
<1>1. Important \in Priority
  BY DEF Important, Priority
<1>2. PICK n \in Nat : Numbered(tab[Important], n) /\ n + Cardinality(Inserting) <= used["saves"]
  BY <1>1 DEF KeptInv, Accounted
<1>3. Cardinality(Inserting) \in Nat /\ used["saves"] \in Nat /\ Bound["saves"] \in Nat
  BY FS_CardinalityType, StoreAssumption DEF KeptInv, TypeOK, Causes
<1>4. n <= Bound["saves"]
  BY <1>2, <1>3 DEF KeptInv
<1>5. QED
  BY <1>1, <1>2, <1>4 DEF TypeOK

(* What UpdateEventRow leaves, when record i + 1 waits.                    *)
Cleared(i) ==
  /\ tab'[Important] \in SUBSET Row
  /\ \A y \in tab'[Important] : \E x \in tab[Important] : x.rowid = y.rowid /\ x.erc = y.erc
  /\ \A r : InTable(r) <=> InTable(r)'
  /\ \A x \in tab[Important] : x.rowid # i + 1 => x \in tab'[Important]
  /\ \A y \in tab'[Important] : IF y.rowid = i + 1 THEN y.report = 0 ELSE y \in tab[Important]
  /\ \A n \in Nat : Numbered(tab[Important], n) => Numbered(tab'[Important], n)
  /\ \A p \in Priority : p # Important => tab'[p] = tab[p]

LEMMA UpdateClears ==
  ASSUME TypeOK, KeptInv, NEW c \in Channel, UpdateEventRow(c), NEW i \in Nat, i = chan[c].i,
         Waits(i + 1)
  PROVE  Cleared(i)
<1>1. PICK n \in Nat : Numbered(tab[Important], n)
  BY ImportantRows
<1>2. PICK T : T = tab[Important]
  OBVIOUS
<1>3. T \in SUBSET Row /\ Numbered(T, n) /\ i < n
  <2>1. i + 1 \in 1 .. n
    BY <1>1 DEF Waits, Numbered
  <2>2. QED
    BY <1>1, <1>2, <2>1, ImportantRows
<1>4. Important \in Priority /\ tab \in [Priority -> SUBSET Row]
  BY DEF Important, Priority, TypeOK
<1>5. tab' = [tab EXCEPT ![Important] = Unflagged(T, i)]
  BY <1>2 DEF UpdateEventRow
<1>6. PICK U : U = Unflagged(T, i)
  OBVIOUS
<1>7. tab'[Important] = U /\ \A p \in Priority : p # Important => tab'[p] = tab[p]
  BY <1>4, <1>5, <1>6
<1>8. OneFlagLess(T, U, n, i)
  BY <1>3, <1>6, UnflaggedKeeps
<1>9. \A m \in Nat : Numbered(T, m) => m = n
  <2>1. ASSUME NEW m \in Nat, Numbered(T, m) PROVE m = n
    BY <1>3, <2>1, NumberedSize
  <2>2. QED
    BY <2>1
<1>10. \A r : (\E x \in T : x.rowid = r) <=> (\E y \in U : y.rowid = r)
  BY <1>3, <1>8 DEF Numbered, OneFlagLess
<1>11. QED
  BY <1>2, <1>7, <1>8, <1>9, <1>10 DEF OneFlagLess, Cleared, InTable

LEMMA KeptUpdate ==
  ASSUME TypeOK, KeptInv, NEW c \in Channel, UpdateEventRow(c), NEW i \in Nat, i = chan[c].i,
         Waits(i + 1)
  PROVE  TypeOK' /\ KeptInv'
<1>1. UNCHANGED <<dbEC, tables, sqlite_lock, ec, ercNum, valid, rating, clock, saving, used>>
  BY DEF UpdateEventRow, globals, config
<1>2. Cleared(i)
  BY UpdateClears
<1>3. tab' \in [Priority -> SUBSET Row]
  <2>1. tab' = [tab EXCEPT ![Important] = tab'[Important]]
    BY DEF UpdateEventRow, TypeOK
  <2>2. QED
    BY <1>2, <2>1 DEF Cleared, TypeOK
<1>4. PICK n \in Nat : Numbered(tab[Important], n) /\ n + Cardinality(Inserting) <= used["saves"]
  BY DEF KeptInv, Accounted, Important, Priority
<1>5. Numbered(tab'[Important], n)
  BY <1>2, <1>4 DEF Cleared
<1>6. \A p \in Priority : IsFiniteSet(tab'[p])
  BY <1>2, <1>5, NumberedSize DEF Cleared, TypeOK
<1>7. TypeOK'
  BY <1>1, <1>3, <1>6 DEF TypeOK
<1>8. Inserting' = Inserting
  BY <1>1 DEF Inserting
<1>9. \A p \in Priority : Accounted(p)'
  BY <1>1, <1>2, <1>4, <1>5, <1>8 DEF KeptInv, Accounted, Cleared
<1>10. \A p \in Priority : \A x \in tab'[p] : rating'[x.erc] = p
  BY <1>1, <1>2 DEF KeptInv, Cleared
<1>11. QED
  BY <1>1, <1>7, <1>8, <1>9, <1>10 DEF KeptInv
--------------------------------------------------------------------------------
(* send_event finds the record of a flag by its position, and queues it    *)
(* once.                                                                   *)
LEMMA Moved ==
  ASSUME ReportInv, NEW c \in Channel, NEW p, NEW n, Move(c, p, n)
  PROVE  /\ chan'[c].pc = p /\ chan'[c].i = n
         /\ chan'[c].event = chan[c].event /\ chan'[c].seq = chan[c].seq
<1>1. chan' = [chan EXCEPT ![c] = Local(p, n, chan[c].event, chan[c].seq)]
  BY MoveIs DEF ReportInv
<1>2. chan'[c] = Local(p, n, chan[c].event, chan[c].seq)
  BY <1>1 DEF ReportInv, ReportShape
<1>3. QED
  BY <1>2 DEF Local

Becomes(c, p, n, e, q) ==
  chan'[c].pc = p /\ chan'[c].i = n /\ chan'[c].event = e /\ chan'[c].seq = q

LEMMA Replaced ==
  ASSUME ReportInv, NEW c \in Channel, NEW p, NEW n, NEW e, NEW q,
         NEW l, l = Local(p, n, e, q), chan' = [chan EXCEPT ![c] = l]
  PROVE  Becomes(c, p, n, e, q)
<1>1. chan'[c] = l
  BY DEF ReportInv, ReportShape
<1>2. QED
  BY <1>1 DEF Local, Becomes

LEMMA LeaveIs ==
  ASSUME ReportInv, NEW c \in Channel, Leave(c)
  PROVE  Becomes(c, "idle", 0, Zeroed, 0)
<1>1. PICK l : l = AtRest
  OBVIOUS
<1>2. chan' = [chan EXCEPT ![c] = l]
  BY <1>1 DEF Leave
<1>3. QED
  BY <1>1, <1>2, Replaced DEF AtRest

LEMMA TakeOver ==
  ASSUME ReportInv, NEW c \in Channel, NEW p, NEW e,
         chan' = [chan EXCEPT ![c].pc = p, ![c].event = e]
  PROVE  Becomes(c, p, chan[c].i, e, chan[c].seq)
<1>1. PICK l : l = Local(p, chan[c].i, e, chan[c].seq)
  OBVIOUS
<1>2. chan' = [chan EXCEPT ![c] = Local(p, chan[c].i, e, chan[c].seq)]
  BY HandOver DEF ReportInv
<1>3. QED
  BY <1>1, <1>2, Replaced

LEMMA RequeueIs ==
  ASSUME ReportInv, NEW c \in Channel, Requeue(c)
  PROVE  Becomes(c, "drain", chan[c].i + 1, Zeroed, 0)
<1>1. PICK l : l = Local("drain", chan[c].i + 1, Zeroed, 0)
  OBVIOUS
<1>2. chan' = [chan EXCEPT ![c] = l]
  BY <1>1 DEF Requeue
<1>3. QED
  BY <1>1, <1>2, Replaced

LEMMA PutUnmatchedIs ==
  ASSUME ReportInv, NEW c \in Channel, PutUnmatched(c)
  PROVE  Becomes(c, "match", chan[c].i + 1, Zeroed, chan[c].seq)
<1>1. PICK l : l = Local("match", chan[c].i + 1, Zeroed, chan[c].seq)
  OBVIOUS
<1>2. chan' = [chan EXCEPT ![c] = l]
  BY <1>1 DEF PutUnmatched
<1>3. QED
  BY <1>1, <1>2, Replaced

LEMMA ConfirmationIs ==
  ASSUME ReportInv, NEW c \in Channel, NEW f, Confirmation(c, f)
  PROVE  Becomes(c, "match", 0, Zeroed, f.seq)
<1>1. PICK l : l = Local("match", 0, Zeroed, f.seq)
  OBVIOUS
<1>2. chan' = [chan EXCEPT ![c] = l]
  BY <1>1 DEF Confirmation
<1>3. QED
  BY <1>1, <1>2, Replaced

(* The parts of send_event that go through the flags.                      *)
Scanning == {"scan", "fetch", "enqueue", "clear"}

LEMMA ScanStays ==
  ASSUME NEW c, ScanInv(c), \A x \in tab[Important] : x \in tab'[Important],
         ercReport' = ercReport \/ ercReport' = NoFlags,
         UNCHANGED <<eventBuf, chan>>
  PROVE  ScanInv(c)'
<1>1. \A r : Waits(r) => Waits(r)'
  BY DEF Waits
<1>2. \A k : FlagsFrom(k) => FlagsFrom(k)'
  <2>1. CASE ercReport' = ercReport
    BY <1>1, <2>1 DEF FlagsFrom
  <2>2. CASE ercReport' = NoFlags
    BY <2>2 DEF FlagsFrom, NoFlags
  <2>3. QED
    BY <2>1, <2>2
<1>3. QED
  BY <1>1, <1>2 DEF ScanInv, At

(* The other parts, and a power failure, leave nothing of a scan.          *)
LEMMA ScanEnds ==
  ASSUME NEW c, chan'[c].pc \notin Scanning, chan'[c].i \in Nat
  PROVE  ScanInv(c)'
BY DEF ScanInv, At, Scanning

LEMMA ScanBegins ==
  ASSUME TypeOK, KeptInv, ReportInv, NEW c \in Channel, GetEventRow(c)
  PROVE  ScanInv(c)'
<1>1. chan'[c].pc = "scan" /\ chan'[c].i = 0 /\ tab' = tab
  BY Moved DEF GetEventRow, vars
<1>2. PICK n \in Nat : Numbered(tab[Important], n)
  BY ImportantRows
<1>3. ASSUME NEW j \in Flag, ercReport'[j] = 1 PROVE Waits(j + 1)'
  <2>1. PICK T : T = tab[Important]
    OBVIOUS
  <2>2. ercReport' = [k \in 0 .. EveMax - 1 |-> IF k < Cardinality(T) THEN RowAt(T, k).report ELSE 0]
    BY <2>1 DEF GetEventRow, ReportFlags
  <2>3. j \in 0 .. EveMax - 1 /\ j \in Nat
    BY DEF Flag
  <2>4. Cardinality(T) = n
    BY <1>2, <2>1, NumberedSize
  <2>5. j < n /\ RowAt(T, j).report = 1
    BY <1>3, <2>2, <2>3, <2>4
  <2>6. RowAt(T, j) \in T /\ RowAt(T, j).rowid = j + 1
    BY <1>2, <2>1, <2>3, <2>5, RowAtIs
  <2>7. QED
    BY <1>1, <2>1, <2>5, <2>6 DEF Waits
<1>4. QED
  BY <1>1, <1>3 DEF ScanInv, At, FlagsFrom

LEMMA ScanGoesOn ==
  ASSUME ReportInv, NEW c \in Channel, ScanInv(c), Scan(c)
  PROVE  ScanInv(c)'
<1>1. PICK flagged : flagged = {j \in Flag : j >= chan[c].i /\ ercReport[j] = 1}
  OBVIOUS
<1>2. tab' = tab /\ ercReport' = ercReport /\ chan[c].i \in Nat
  BY DEF Scan, vars, memory, ScanInv
<1>3. CASE flagged = {} /\ Move(c, "drain", 0)
  BY <1>3, Moved, ScanEnds DEF Scanning
<1>4. CASE flagged # {} /\ Move(c, "fetch", Min(flagged))
  <2>1. Min(flagged) \in flagged
    <3>1. flagged \in SUBSET Nat
      BY <1>1 DEF Flag
    <3>2. PICK m \in flagged : \A y \in flagged : m <= y
      BY <1>4, <3>1, NatHasMin
    <3>3. QED
      BY <3>2 DEF Min
  <2>2. PICK m : m = Min(flagged)
    OBVIOUS
  <2>3. m \in Flag /\ m \in Nat /\ m >= chan[c].i /\ ercReport[m] = 1
    BY <1>1, <2>1, <2>2 DEF Flag
  <2>4. FlagsFrom(chan[c].i)
    BY DEF ScanInv, Scan
  <2>5. Waits(m + 1) /\ FlagsFrom(m + 1)
    BY <1>2, <2>3, <2>4 DEF FlagsFrom, Flag
  <2>6. chan'[c].pc = "fetch" /\ chan'[c].i = m
    BY <1>4, <2>2, Moved
  <2>7. Waits(m + 1)' /\ FlagsFrom(m + 1)'
    BY <1>2, <2>5 DEF Waits, FlagsFrom
  <2>8. QED
    BY <2>3, <2>6, <2>7 DEF ScanInv, At
<1>5. QED
  BY <1>1, <1>3, <1>4 DEF Scan

LEMMA ScanFetches ==
  ASSUME TypeOK, KeptInv, ReportInv, NEW c \in Channel, ScanInv(c), GetImportanceEvent(c)
  PROVE  ScanInv(c)'
<1>1. PICK i : i = chan[c].i
  OBVIOUS
<1>2. i \in Nat /\ Waits(i + 1) /\ FlagsFrom(i + 1)
  BY <1>1 DEF ScanInv, GetImportanceEvent, At
<1>3. chan'[c].pc = "enqueue" /\ chan'[c].i = i /\ tab' = tab /\ ercReport' = ercReport
  BY <1>1, Moved DEF GetImportanceEvent, vars
<1>4. PICK T : T = tab[Important]
  OBVIOUS
<1>5. PICK n \in Nat : Numbered(T, n)
  BY <1>4, ImportantRows
<1>6. i < n /\ Cardinality(T) = n
  <2>1. i + 1 \in 1 .. n
    BY <1>2, <1>4, <1>5 DEF Waits, Numbered
  <2>2. QED
    BY <1>2, <1>5, <2>1, NumberedSize
<1>7. eventBuf' = RowAt(T, i).rowid
  BY <1>1, <1>4, <1>6 DEF GetImportanceEvent
<1>8. eventBuf' = i + 1
  BY <1>2, <1>5, <1>6, <1>7, RowAtIs
<1>9. Waits(i + 1)' /\ FlagsFrom(i + 1)'
  BY <1>2, <1>3 DEF Waits, FlagsFrom
<1>10. QED
  BY <1>2, <1>3, <1>8, <1>9 DEF ScanInv, At

LEMMA ScanQueues ==
  ASSUME ReportInv, NEW c \in Channel, ScanInv(c), Enqueue(c)
  PROVE  ScanInv(c)'
<1>1. PICK i : i = chan[c].i
  OBVIOUS
<1>2. i \in Nat /\ Waits(i + 1) /\ FlagsFrom(i + 1)
  BY <1>1 DEF ScanInv, Enqueue, At
<1>3. tab' = tab /\ ercReport' = ercReport
  BY DEF Enqueue, vars
<1>4. Waits(i + 1)' /\ FlagsFrom(i + 1)'
  BY <1>2, <1>3 DEF Waits, FlagsFrom
<1>5. (chan'[c].pc = "clear" /\ chan'[c].i = i) \/ (chan'[c].pc = "scan" /\ chan'[c].i = i + 1)
  <2>1. Move(c, "clear", i) \/ Move(c, "scan", i + 1)
    BY <1>1 DEF Enqueue
  <2>2. CASE Move(c, "clear", i)
    BY <2>2, Moved
  <2>3. CASE Move(c, "scan", i + 1)
    BY <2>3, Moved
  <2>4. QED
    BY <2>1, <2>2, <2>3
<1>6. QED
  BY <1>2, <1>4, <1>5 DEF ScanInv, At

LEMMA ScanClears ==
  ASSUME TypeOK, KeptInv, ReportInv, NEW c \in Channel, ScanInv(c), UpdateEventRow(c)
  PROVE  ScanInv(c)' /\ \E i \in Nat : i = chan[c].i /\ Waits(i + 1) /\ Cleared(i)
<1>1. PICK i : i = chan[c].i
  OBVIOUS
<1>2. i \in Nat /\ Waits(i + 1) /\ FlagsFrom(i + 1)
  BY <1>1 DEF ScanInv, UpdateEventRow, At
<1>3. Cleared(i)
  BY <1>1, <1>2, UpdateClears
<1>4. ercReport' = ercReport /\ chan'[c].pc = "scan" /\ chan'[c].i = i + 1
  BY <1>1, Moved DEF UpdateEventRow, memory
<1>5. ASSUME NEW j \in Flag, j >= i + 1, ercReport'[j] = 1 PROVE Waits(j + 1)'
  <2>1. j \in Nat /\ Waits(j + 1)
    BY <1>2, <1>4, <1>5 DEF FlagsFrom, Flag
  <2>2. PICK x \in tab[Important] : x.rowid = j + 1 /\ x.report = 1
    BY <2>1 DEF Waits
  <2>3. x.rowid # i + 1
    BY <1>2, <1>5, <2>1, <2>2
  <2>4. x \in tab'[Important]
    BY <1>3, <2>3 DEF Cleared
  <2>5. QED
    BY <2>2, <2>4 DEF Waits
<1>6. FlagsFrom(i + 1)'
  BY <1>5 DEF FlagsFrom
<1>7. QED
  BY <1>1, <1>2, <1>3, <1>4, <1>6 DEF ScanInv, At

(* The steps of a channel that are not about the flags.                    *)
OtherStep(c) ==
  \/ Turn(c) \/ Leave(c) \/ SendEvent(c) \/ Requeue(c) \/ TakeForMatch(c) \/ PutUnmatched(c)
  \/ \E f \in answerable : Confirmation(c, f)

LEMMA OtherSteps ==
  ASSUME ReportInv, NEW c \in Channel, chan[c].i \in Nat, OtherStep(c)
  PROVE  /\ chan[c].pc \notin Scanning
         /\ chan'[c].pc \notin Scanning /\ chan'[c].i \in Nat
         /\ UNCHANGED <<vars, queued>>
<1>1. CASE Turn(c)
  BY <1>1, Moved DEF Turn, At, Scanning, history
<1>2. CASE Leave(c)
  <2>1. chan'[c].pc = "idle" /\ chan'[c].i = 0
    BY <1>2, LeaveIs DEF Becomes
  <2>2. QED
    BY <1>2, <2>1 DEF Leave, Scanning, history
<1>3. CASE SendEvent(c)
  <2>1. chan[c].pc = "pop" /\ UNCHANGED <<vars, queued>>
    BY <1>3 DEF SendEvent, At
  <2>2. CASE Move(c, "drain", chan[c].i + 1)
    BY <2>1, <2>2, Moved DEF Scanning
  <2>3. CASE chan' = [chan EXCEPT ![c].pc = "requeue", ![c].event = Taken]
    <3>1. chan'[c].pc = "requeue" /\ chan'[c].i = chan[c].i
      BY <2>3, TakeOver DEF Becomes
    <3>2. QED
      BY <2>1, <3>1 DEF Scanning
  <2>4. QED
    BY <1>3, <2>2, <2>3 DEF SendEvent
<1>4. CASE Requeue(c)
  <2>1. chan'[c].pc = "drain" /\ chan'[c].i = chan[c].i + 1
    BY <1>4, RequeueIs DEF Becomes
  <2>2. QED
    BY <1>4, <2>1 DEF Requeue, At, Scanning, history
<1>5. CASE TakeForMatch(c)
  <2>1. chan[c].pc = "pop_match" /\ UNCHANGED <<vars, queued>>
    BY <1>5 DEF TakeForMatch, At, history
  <2>2. CASE Move(c, "match", chan[c].i + 1)
    BY <2>1, <2>2, Moved DEF Scanning
  <2>3. CASE chan' = [chan EXCEPT ![c].pc = "putback", ![c].event = Taken]
    <3>1. chan'[c].pc = "putback" /\ chan'[c].i = chan[c].i
      BY <2>3, TakeOver DEF Becomes
    <3>2. QED
      BY <2>1, <3>1 DEF Scanning
  <2>4. QED
    BY <1>5, <2>2, <2>3 DEF TakeForMatch
<1>6. CASE PutUnmatched(c)
  <2>1. chan'[c].pc = "match" /\ chan'[c].i = chan[c].i + 1
    BY <1>6, PutUnmatchedIs DEF Becomes
  <2>2. QED
    BY <1>6, <2>1 DEF PutUnmatched, At, Scanning, history
<1>7. ASSUME NEW f \in answerable, Confirmation(c, f)
      PROVE  /\ chan[c].pc \notin Scanning
             /\ chan'[c].pc \notin Scanning /\ chan'[c].i \in Nat
             /\ UNCHANGED <<vars, queued>>
  <2>1. chan'[c].pc = "match" /\ chan'[c].i = 0
    BY <1>7, ConfirmationIs DEF Becomes
  <2>2. QED
    BY <1>7, <2>1 DEF Confirmation, At, Scanning
<1>8. QED
  BY <1>1, <1>2, <1>3, <1>4, <1>5, <1>6, <1>7 DEF OtherStep
--------------------------------------------------------------------------------
LEMMA RestartsType ==
  ASSUME TypeOK
  PROVE  used["restarts"] \in Nat
BY DEF TypeOK, Causes

LEMMA SaverRestartsNot ==
  ASSUME TypeOK, NEW s \in Saver, SaverStep(s)
  PROVE  used'["restarts"] = used["restarts"]
<1>1. ASSUME Works \/ Fails PROVE used'["restarts"] = used["restarts"]
  BY <1>1 DEF TypeOK, Works, Fails, Using, Causes
<1>2. CASE \E e \in Saves[s] : Begin(s, e)
  BY <1>2 DEF TypeOK, Begin, Using, Causes
<1>3. CASE UpdateEC_insert(s)
  BY <1>1, <1>3 DEF UpdateEC_insert
<1>4. QED
  BY <1>1, <1>2, <1>3 DEF SaverStep, DeleteEvent, GetEvent_Num, InsertEvent, UpdateEC, DelERC,
     CountRecord

(* Nothing is queued, and what waits is new or waited before.              *)
LEMMA OnceStays ==
  ASSUME ReportInv, OnceInv, queued' = queued, NEW k \in Nat, k = used["restarts"],
         NEW m \in Nat, m = used'["restarts"], k <= m,
         \A r \in RowId : InTable(r) => InTable(r)',
         \A r \in RowId : Waits(r)' /\ ~Clearing(r)' =>
           (Waits(r) /\ ~Clearing(r)) \/ ~InTable(r) \/ m = k + 1
  PROVE  OnceInv'
<1>1. ASSUME NEW r \in RowId
      PROVE  /\ queued[r] <= 1 + m
             /\ ~InTable(r)' => queued[r] = 0
             /\ Waits(r)' /\ ~Clearing(r)' => queued[r] <= m
  <2>1. /\ queued[r] <= 1 + k
        /\ ~InTable(r) => queued[r] = 0
        /\ Waits(r) /\ ~Clearing(r) => queued[r] <= k
    BY DEF OnceInv
  <2>2. queued[r] \in Nat
    BY DEF ReportInv, ReportShape
  <2>3. QED
    BY <2>1, <2>2
<1>2. QED
  BY <1>1 DEF OnceInv

LEMMA OnceSaver ==
  ASSUME TypeOK, KeptInv, NothingGoes, ReportInv, OnceInv, NEW s \in Saver, StoreStep(s)
  PROVE  OnceInv' /\ \A x \in tab[Important] : x \in tab'[Important]
<1>1. SaverStep(s) /\ queued' = queued /\ chan' = chan
  BY DEF StoreStep, history
<1>2. used'["restarts"] = used["restarts"] /\ used["restarts"] \in Nat
  BY <1>1, SaverRestartsNot, RestartsType
<1>3. \A r : Clearing(r)' <=> Clearing(r)
  BY <1>1 DEF Clearing, At
<1>4. CASE tab'[Important] = tab[Important]
  <2>1. \A r : (InTable(r)' <=> InTable(r)) /\ (Waits(r)' <=> Waits(r))
    BY <1>4 DEF InTable, Waits
  <2>2. QED
    BY <1>1, <1>2, <1>3, <1>4, <2>1, OnceStays
<1>5. CASE Adds(s, Important)
  <2>1. PICK n \in Nat : Numbered(tab[Important], n)
    BY ImportantRows
  <2>2. PICK e, t, flag : tab'[Important] = Inserted(tab[Important], e, t, flag)
    BY <1>5 DEF Adds
  <2>3. PICK x : x = [rowid |-> n + 1, erc |-> e, time |-> t, report |-> flag]
    OBVIOUS
  <2>4. tab'[Important] = tab[Important] \cup {x} /\ x.rowid = n + 1
    BY <2>1, <2>2, <2>3, InsertedIs
  <2>5. ~InTable(n + 1)
    BY <2>1 DEF InTable, Numbered
  <2>6. \A r : InTable(r) => InTable(r)'
    BY <2>4 DEF InTable
  <2>7. \A r : Waits(r)' => Waits(r) \/ ~InTable(r)
    BY <2>4, <2>5 DEF Waits
  <2>8. OnceInv'
    BY <1>1, <1>2, <1>3, <2>6, <2>7, OnceStays
  <2>9. QED
    BY <2>4, <2>8
<1>6. QED
  BY <1>1, <1>4, <1>5, OnlySaverAdds DEF Important, Priority

LEMMA OnceEnvironment ==
  ASSUME TypeOK, NothingGoes', ReportInv, OnceInv, StoreEnvironment \/ PowerFailure
  PROVE  OnceInv'
<1>1. Environment /\ queued' = queued
  BY DEF StoreEnvironment, PowerFailure, Environment, reportVars, history
<1>2. tab' = tab /\ used["restarts"] \in Nat
  BY <1>1, EnvironmentIs, RestartsType
<1>3. \A r : (InTable(r)' <=> InTable(r)) /\ (Waits(r)' <=> Waits(r))
  BY <1>2 DEF InTable, Waits
<1>4. CASE StoreEnvironment
  <2>1. chan' = chan /\ used'["restarts"] = used["restarts"]
    BY <1>1, <1>4, EnvironmentIs DEF StoreEnvironment, reportVars
  <2>2. \A r : Clearing(r)' <=> Clearing(r)
    BY <2>1 DEF Clearing, At
  <2>3. QED
    BY <1>1, <1>2, <1>3, <2>1, <2>2, OnceStays
<1>5. CASE PowerFailure
  <2>1. used'["restarts"] = used["restarts"] + 1
    BY <1>1, <1>5, EnvironmentIs DEF PowerFailure
  <2>2. QED
    BY <1>1, <1>2, <1>3, <2>1, OnceStays
<1>6. QED
  BY <1>4, <1>5

LEMMA OneClearing ==
  ASSUME NEW c, Channel = {c}
  PROVE  /\ \A r : Clearing(r) <=> At(c, "clear") /\ chan[c].i + 1 = r
         /\ \A r : Clearing(r)' <=> chan'[c].pc = "clear" /\ chan'[c].i + 1 = r
BY DEF Clearing, At

(* The steps between the two that count.                                   *)
LEMMA OnceBetween ==
  ASSUME TypeOK, ReportInv, OnceInv, NEW c, Channel = {c}, chan[c].pc # "clear",
         UNCHANGED <<vars, queued>>
  PROVE  OnceInv'
<1>1. tab' = tab /\ used' = used /\ used["restarts"] \in Nat
  BY RestartsType DEF vars
<1>2. \A r : (InTable(r)' <=> InTable(r)) /\ (Waits(r)' <=> Waits(r))
  BY <1>1 DEF InTable, Waits
<1>3. \A r : ~Clearing(r)
  BY OneClearing DEF At
<1>4. QED
  BY <1>1, <1>2, <1>3, OnceStays

LEMMA OnceQueues ==
  ASSUME TypeOK, ReportInv, OnceInv, NEW c, Channel = {c}, ScanInv(c), Enqueue(c)
  PROVE  OnceInv'
<1>1. tab' = tab /\ used' = used /\ used["restarts"] \in Nat /\ chan[c].pc = "enqueue"
  BY RestartsType DEF Enqueue, At, vars
<1>2. CASE queued' = queued
  BY <1>1, <1>2, OnceBetween DEF Enqueue
<1>3. CASE /\ queued' = [r \in RowId |-> IF r = eventBuf THEN queued[r] + 1 ELSE queued[r]]
           /\ Move(c, "clear", chan[c].i)
  <2>1. PICK k \in Nat : k = used["restarts"] /\ k = used'["restarts"]
    BY <1>1
  <2>2. PICK i : i = chan[c].i
    OBVIOUS
  <2>3. i \in Nat /\ Waits(i + 1) /\ eventBuf = i + 1
    BY <1>1, <2>2 DEF ScanInv, At
  <2>4. chan'[c].pc = "clear" /\ chan'[c].i = i
    BY <1>3, <2>2, Moved
  <2>5. \A r : ~Clearing(r) /\ (Clearing(r)' <=> r = i + 1)
    BY <1>1, <2>4, OneClearing DEF At
  <2>6. \A r : (InTable(r)' <=> InTable(r)) /\ (Waits(r)' <=> Waits(r))
    BY <1>1 DEF InTable, Waits
  <2>7. ASSUME NEW r \in RowId
        PROVE  /\ queued'[r] <= 1 + k
               /\ ~InTable(r)' => queued'[r] = 0
               /\ Waits(r)' /\ ~Clearing(r)' => queued'[r] <= k
    <3>1. /\ queued[r] <= 1 + k
          /\ ~InTable(r) => queued[r] = 0
          /\ Waits(r) /\ ~Clearing(r) => queued[r] <= k
      BY <2>1 DEF OnceInv
    <3>2. queued[r] \in Nat /\ queued'[r] = IF r = i + 1 THEN queued[r] + 1 ELSE queued[r]
      BY <1>3, <2>3 DEF ReportInv, ReportShape
    <3>3. CASE r = i + 1
      <4>1. queued[r] <= k /\ queued'[r] = queued[r] + 1
        BY <2>3, <2>5, <3>1, <3>2, <3>3
      <4>2. InTable(r)'
        BY <2>3, <2>6, <3>3 DEF Waits, InTable
      <4>3. QED
        BY <2>5, <3>2, <3>3, <4>1, <4>2
    <3>4. CASE r # i + 1
      BY <2>5, <2>6, <3>1, <3>2, <3>4
    <3>5. QED
      BY <3>3, <3>4
  <2>8. QED
    BY <2>1, <2>7 DEF OnceInv
<1>4. QED
  BY <1>2, <1>3 DEF Enqueue

LEMMA OnceClears ==
  ASSUME TypeOK, ReportInv, OnceInv, NEW c, Channel = {c}, UpdateEventRow(c),
         NEW i \in Nat, i = chan[c].i, Cleared(i)
  PROVE  OnceInv'
<1>1. used' = used /\ used["restarts"] \in Nat /\ chan[c].pc = "clear" /\ queued' = queued
  BY RestartsType DEF UpdateEventRow, At, history
<1>2. \A r : Clearing(r) <=> r = i + 1
  BY <1>1, OneClearing DEF At
<1>3. \A r : Waits(r)' => r # i + 1 /\ Waits(r)
  BY DEF Waits, Cleared
<1>4. \A r : InTable(r) => InTable(r)'
  BY DEF Cleared
<1>5. \A r \in RowId : Waits(r)' /\ ~Clearing(r)' => Waits(r) /\ ~Clearing(r)
  BY <1>2, <1>3
<1>6. QED
  BY <1>1, <1>4, <1>5, OnceStays
--------------------------------------------------------------------------------
RowsInv == TypeOK /\ KeptInv /\ OnceInv /\ \A c \in Channel : ScanInv(c)

LEMMA InitRows == ReportInit => RowsInv
<1> SUFFICES ASSUME ReportInit PROVE RowsInv
  OBVIOUS
<1>1. Init /\ TypeOK
  BY InitTypeOK DEF ReportInit
<1>2. Inserting = {}
  BY <1>1 DEF Init, Inserting, NotSaving, Saving
<1>3. IsFiniteSet(Inserting) /\ Cardinality(Inserting) = 0
  BY <1>2, FS_EmptySet
<1>4. used["saves"] = 0 /\ used["restarts"] = 0 /\ Bound["saves"] \in Nat
  BY <1>1, StoreAssumption DEF Init, Causes
<1>5. \A p \in Priority : tab[p] = {}
  BY <1>1 DEF Init
<1>6. \A p \in Priority : Accounted(p)
  BY <1>3, <1>4, <1>5, NumberedEmpty DEF Accounted
<1>7. KeptInv
  BY <1>1, <1>3, <1>4, <1>5, <1>6 DEF KeptInv, Init, NotSaving, Saving
<1>8. OnceInv
  <2>1. \A r \in RowId : queued[r] = 0
    BY DEF ReportInit
  <2>2. QED
    BY <1>4, <2>1 DEF OnceInv
<1>9. \A c \in Channel : ScanInv(c)
  BY AtRestShape DEF ReportInit, ScanInv, At, AtRest, Local
<1>10. QED
  BY <1>1, <1>7, <1>8, <1>9 DEF RowsInv

LEMMA RowsStep ==
  ASSUME RowsInv, ReportInv, NothingGoes, NothingGoes', NEW c, Channel = {c}, ReportNext
  PROVE  RowsInv'
<1>1. TypeOK /\ KeptInv /\ OnceInv /\ ScanInv(c) /\ c \in Channel /\ chan[c].i \in Nat
  BY DEF RowsInv, ScanInv
<1>2. ASSUME UNCHANGED vars PROVE TypeOK' /\ KeptInv'
  <2>1. TypeOK'
    BY <1>1, <1>2, TypeStep
  <2>2. KeptInv'
    BY <1>1, <1>2 DEF vars, KeptInv, Accounted, Inserting
  <2>3. QED
    BY <2>1, <2>2
<1>3. CASE GetEventRow(c) \/ Scan(c) \/ GetImportanceEvent(c)
  <2>1. UNCHANGED <<vars, queued>> /\ chan[c].pc # "clear"
    BY <1>3 DEF GetEventRow, Scan, GetImportanceEvent, At, history
  <2>2. ScanInv(c)'
    BY <1>1, <1>3, ScanBegins, ScanGoesOn, ScanFetches
  <2>3. QED
    BY <1>1, <1>2, <2>1, <2>2, OnceBetween DEF RowsInv
<1>4. CASE Enqueue(c)
  <2>1. UNCHANGED vars
    BY <1>4 DEF Enqueue
  <2>2. QED
    BY <1>1, <1>2, <1>4, <2>1, ScanQueues, OnceQueues DEF RowsInv
<1>5. CASE UpdateEventRow(c)
  <2>1. PICK i \in Nat : i = chan[c].i /\ Waits(i + 1) /\ Cleared(i)
    BY <1>1, <1>5, ScanClears
  <2>2. ScanInv(c)'
    BY <1>1, <1>5, ScanClears
  <2>3. OnceInv'
    BY <1>1, <1>5, <2>1, OnceClears
  <2>4. TypeOK' /\ KeptInv'
    BY <1>1, <1>5, <2>1, KeptUpdate
  <2>5. QED
    BY <2>2, <2>3, <2>4 DEF RowsInv
<1>6. CASE OtherStep(c)
  <2>1. /\ chan[c].pc # "clear" /\ ScanInv(c)'
        /\ UNCHANGED <<vars, queued>>
    BY <1>1, <1>6, OtherSteps, ScanEnds DEF Scanning
  <2>2. QED
    BY <1>1, <1>2, <2>1, OnceBetween DEF RowsInv
<1>7. ASSUME NEW s \in Saver, StoreStep(s) PROVE RowsInv'
  <2>1. SaverStep(s) /\ UNCHANGED <<eventBuf, chan>>
        /\ (ercReport' = ercReport \/ ercReport' = NoFlags)
    BY <1>7 DEF StoreStep
  <2>2. TypeOK'
    BY <1>1, <2>1, TypeStep DEF Next
  <2>3. KeptInv'
    BY <1>1, <2>1, KeptSaver
  <2>4. OnceInv' /\ \A x \in tab[Important] : x \in tab'[Important]
    BY <1>1, <1>7, OnceSaver
  <2>5. ScanInv(c)'
    BY <1>1, <2>1, <2>4, ScanStays
  <2>6. QED
    BY <2>2, <2>3, <2>4, <2>5 DEF RowsInv
<1>8. CASE StoreEnvironment \/ PowerFailure
  <2>1. Environment
    BY <1>8 DEF StoreEnvironment, PowerFailure, Environment
  <2>2. TypeOK' /\ KeptInv' /\ OnceInv'
    BY <1>1, <1>8, <2>1, TypeStep, KeptEnvironment, OnceEnvironment DEF Next
  <2>3. tab' = tab
    BY <1>1, <2>1, EnvironmentIs
  <2>4. CASE StoreEnvironment
    <3>1. UNCHANGED <<ercReport, eventBuf, chan>>
      BY <2>4 DEF StoreEnvironment, reportVars, memory
    <3>2. ScanInv(c)'
      BY <1>1, <2>3, <3>1, ScanStays
    <3>3. QED
      BY <1>1, <2>2, <3>2 DEF RowsInv
  <2>5. CASE PowerFailure
    <3>1. chan'[c].pc = "idle" /\ chan'[c].i = 0
      BY <1>1, <2>5 DEF PowerFailure, AtRest, Local
    <3>2. ScanInv(c)'
      BY <3>1, ScanEnds DEF Scanning
    <3>3. QED
      BY <1>1, <2>2, <3>2 DEF RowsInv
  <2>6. QED
    BY <1>8, <2>4, <2>5
<1>9. QED
  BY <1>3, <1>4, <1>5, <1>6, <1>7, <1>8 DEF ReportNext, ChannelStep, OtherStep

LEMMA RowsStutter ==
  ASSUME RowsInv, UNCHANGED allVars
  PROVE  RowsInv'
<1>1. UNCHANGED <<vars, ercReport, eventBuf, queue, nextSeq, chan, answerable, confirmed, queued, sent>>
  BY DEF allVars, reportVars, memory, history
<1>2. TypeOK'
  BY <1>1, TypeStep DEF RowsInv
<1>3. KeptInv'
  BY <1>1 DEF RowsInv, vars, KeptInv, Accounted, Inserting
<1>4. OnceInv'
  BY <1>1 DEF RowsInv, vars, OnceInv, InTable, Waits, Clearing, At
<1>5. \A c \in Channel : ScanInv(c)'
  BY <1>1 DEF RowsInv, vars, ScanInv, At, Waits, FlagsFrom
<1>6. QED
  BY <1>2, <1>3, <1>4, <1>5 DEF RowsInv

(* With one connection, and as long as no record goes, the rowids of a     *)
(* class are its positions, and a record is put into the queue once, and   *)
(* once more for each power failure (send_event, UpdateEventRow).          *)
THEOREM QueuesOnce == OneConnection => (ReportSpec /\ []NothingGoes => [](RowsInv /\ QueuedOnce))
<1> SUFFICES ASSUME OneConnection PROVE ReportSpec /\ []NothingGoes => [](RowsInv /\ QueuedOnce)
  OBVIOUS
<1>1. RowsInv /\ ReportInv /\ NothingGoes /\ NothingGoes' /\ [ReportNext]_allVars => RowsInv'
  BY RowsStep, RowsStutter DEF OneConnection
<1>2. RowsInv => QueuedOnce
  BY DEF RowsInv, OnceInv, QueuedOnce
<1>3. ReportSpec /\ []NothingGoes => []RowsInv
  BY <1>1, InitRows, RightsAreBounded, PTL DEF ReportSpec
<1>4. QED
  BY <1>2, <1>3, PTL
--------------------------------------------------------------------------------
(* What is on its way to the station.                                       *)
LEMMA ModSmall ==
  ASSUME NEW m \in Nat, NEW n \in Nat, m < n
  PROVE  m % n = m
OBVIOUS

LEMMA QueueAppends ==
  ASSUME NEW q, IsQueue(q), NEW e
  PROVE  /\ Len(q) \in Nat /\ Len(Append(q, e)) = Len(q) + 1
         /\ \A n \in 1 .. Len(q) : Append(q, e)[n] = q[n]
         /\ Append(q, e)[Len(q) + 1] = e
<1>1. PICK S : q \in Seq(S)
  BY DEF IsQueue
<1>2. q \in Seq(S \cup {e}) /\ e \in S \cup {e}
  BY <1>1
<1>3. QED
  BY <1>2

LEMMA QueueTails ==
  ASSUME NEW q, IsQueue(q), q # <<>>
  PROVE  /\ Len(q) \in Nat /\ Len(q) >= 1 /\ Head(q) = q[1]
         /\ Len(Tail(q)) = Len(q) - 1
         /\ \A n \in 1 .. Len(q) - 1 : Tail(q)[n] = q[n + 1]
<1>1. PICK S : q \in Seq(S)
  BY DEF IsQueue
<1>2. Len(q) \in Nat /\ Len(q) >= 1 /\ Head(q) = q[1]
  BY <1>1
<1>3. Len(Tail(q)) = Len(q) - 1 /\ \A n \in 1 .. Len(q) - 1 : Tail(q)[n] = q[n + 1]
  BY <1>1, <1>2
<1>4. QED
  BY <1>2, <1>3

LEMMA RowsInRange ==
  ASSUME RowsInv
  PROVE  \A x \in tab[Important] : x.rowid \in RowId
<1>1. PICK n \in Nat : Numbered(tab[Important], n) /\ n <= Bound["saves"]
  BY ImportantRows DEF RowsInv
<1>2. Bound["saves"] \in Nat
  BY StoreAssumption DEF Causes
<1>3. QED
  BY <1>1, <1>2 DEF Numbered, RowId

(* An event that is appended, and the oldest that is taken.                *)
LEMMA AppendedQueue ==
  ASSUME IsQueue(queue), QueueInv, NEW e, queue' = Append(queue, e), Len(queue) < Capacity,
         nextSeq' \in Nat, \A d : Known(d) => Known(d)', Known(e)',
         \A n \in 1 .. Len(queue) : Apart(queue[n], e),
         answerable' = answerable, \A f \in answerable : Alike(f, e)
  PROVE  /\ QueueInv' /\ Len(queue') = Len(queue) + 1
         /\ \A n \in 1 .. Len(queue) : queue'[n] = queue[n]
         /\ queue'[Len(queue) + 1] = e
<1>1. /\ Len(queue) \in Nat /\ Len(queue') = Len(queue) + 1
      /\ \A n \in 1 .. Len(queue) : queue'[n] = queue[n]
      /\ queue'[Len(queue) + 1] = e
  BY QueueAppends
<1>2. Capacity \in Nat
  BY ReportAssumption
<1>3. ASSUME NEW n \in 1 .. Len(queue')
      PROVE  \E d : d = queue'[n] /\ Known(d)' /\ \A f \in answerable' : Alike(f, d)
  <2>1. CASE n \in 1 .. Len(queue)
    <3>1. PICK d : d = queue[n] /\ queue'[n] = d
      BY <1>1, <2>1
    <3>2. Known(d) /\ \A f \in answerable : Alike(f, d)
      BY <2>1, <3>1 DEF QueueInv
    <3>3. QED
      BY <3>1, <3>2
  <2>2. CASE n = Len(queue) + 1
    BY <1>1, <2>2
  <2>3. QED
    BY <1>1, <2>1, <2>2
<1>4. ASSUME NEW m \in 1 .. Len(queue'), NEW n \in 1 .. Len(queue'), m # n
      PROVE  Apart(queue'[m], queue'[n])
  <2>1. CASE m \in 1 .. Len(queue) /\ n \in 1 .. Len(queue)
    BY <1>1, <1>4, <2>1 DEF QueueInv
  <2>2. CASE m = Len(queue) + 1
    <3>1. n \in 1 .. Len(queue)
      BY <1>1, <1>4, <2>2
    <3>2. QED
      BY <1>1, <2>2, <3>1 DEF Apart
  <2>3. CASE n = Len(queue) + 1
    <3>1. m \in 1 .. Len(queue)
      BY <1>1, <1>4, <2>3
    <3>2. QED
      BY <1>1, <2>3, <3>1
  <2>4. QED
    BY <1>1, <2>1, <2>2, <2>3
<1>5. QueueInv'
  BY <1>1, <1>2, <1>3, <1>4 DEF QueueInv, Known, Alike
<1>6. QED
  BY <1>1, <1>5

LEMMA TailedQueue ==
  ASSUME IsQueue(queue), QueueInv, 1 <= Len(queue), queue' = Rest,
         nextSeq' = nextSeq, \A d : Known(d) => Known(d)',
         \A f \in answerable' : \A n \in 2 .. Len(queue) : Alike(f, queue[n])
  PROVE  /\ QueueInv' /\ Taken = queue[1] /\ Known(Taken)
         /\ Len(queue) \in Nat /\ Len(queue') = Len(queue) - 1
         /\ \A n \in 1 .. Len(queue') : queue'[n] = queue[n + 1] /\ Apart(queue'[n], Taken)
<1>1. queue # <<>>
  OBVIOUS
<1>2. /\ Len(queue) \in Nat /\ Taken = queue[1] /\ Len(queue') = Len(queue) - 1
      /\ \A n \in 1 .. Len(queue) - 1 : queue'[n] = queue[n + 1]
  BY <1>1, QueueTails DEF Rest, Taken
<1>3. Capacity \in Nat
  BY ReportAssumption
<1>4. ASSUME NEW n \in 1 .. Len(queue')
      PROVE  \E d : d = queue'[n] /\ Known(d)' /\ \A f \in answerable' : Alike(f, d)
  <2>1. n + 1 \in 2 .. Len(queue) /\ n + 1 \in 1 .. Len(queue)
    BY <1>2
  <2>2. PICK d : d = queue[n + 1] /\ queue'[n] = d
    BY <1>2
  <2>3. Known(d)
    BY <2>1, <2>2 DEF QueueInv
  <2>4. QED
    BY <2>1, <2>2, <2>3
<1>5. ASSUME NEW m \in 1 .. Len(queue'), NEW n \in 1 .. Len(queue'), m # n
      PROVE  Apart(queue'[m], queue'[n])
  <2>1. m + 1 \in 1 .. Len(queue) /\ n + 1 \in 1 .. Len(queue) /\ m + 1 # n + 1
    BY <1>2, <1>5
  <2>2. QED
    BY <1>2, <2>1 DEF QueueInv
<1>6. ASSUME NEW n \in 1 .. Len(queue')
      PROVE  queue'[n] = queue[n + 1] /\ Apart(queue'[n], Taken)
  <2>1. n + 1 \in 1 .. Len(queue) /\ 1 \in 1 .. Len(queue) /\ n + 1 # 1
    BY <1>2
  <2>2. QED
    BY <1>2, <2>1 DEF QueueInv
<1>7. Known(Taken)
  BY <1>2 DEF QueueInv
<1>8. QueueInv'
  BY <1>2, <1>3, <1>4, <1>5 DEF QueueInv, Known, Alike
<1>9. QED
  BY <1>2, <1>6, <1>7, <1>8

(* Where an event may be, with one connection.                             *)
InHand(l, r) == l.pc \in {"requeue", "putback"} /\ l.event.row = r

LEMMA OneHolds ==
  ASSUME NEW c, Channel = {c}
  PROVE  /\ \A r : Held(r) <=> (\E n \in 1 .. Len(queue) : queue[n].row = r) \/ InHand(chan[c], r)
         /\ \A r : Held(r)' <=> (\E n \in 1 .. Len(queue') : queue'[n].row = r) \/ InHand(chan'[c], r)
BY DEF Held, InHand

(* What was sent or held stays so, and no flag is cleared.                 *)
LEMMA ReachedKept ==
  ASSUME RowsInv, ReachedInv, NEW c, Channel = {c},
         \A r \in RowId : Reached(r) => Reached(r)',
         \A x \in tab'[Important] : x.report = 0 => x \in tab[Important],
         chan'[c].pc # "clear"
  PROVE  ReachedInv'
<1>1. ASSUME NEW x \in tab'[Important], x.report = 0 PROVE Reached(x.rowid)'
  <2>1. x \in tab[Important] /\ x.rowid \in RowId
    BY <1>1, RowsInRange
  <2>2. Reached(x.rowid)
    BY <1>1, <2>1 DEF ReachedInv
  <2>3. PICK r \in RowId : r = x.rowid
    BY <2>1
  <2>4. Reached(r)'
    BY <2>2, <2>3
  <2>5. QED
    BY <2>3, <2>4
<1>2. QED
  BY <1>1 DEF ReachedInv, At
--------------------------------------------------------------------------------
Hands == {"requeue", "putback"}
NoneConfirmed == \A n \in 1 .. Len(queue) : queue[n].row \notin confirmed

LEMMA NotMatching ==
  ASSUME NEW c, MatchInv(c), chan[c].pc \notin {"match", "pop_match", "putback"}
  PROVE  NoneConfirmed
BY DEF MatchInv, Matching, NoneConfirmed

LEMMA StillNone ==
  ASSUME NEW c, NoneConfirmed', chan'[c].pc \notin {"pop", "match", "pop_match", "putback"}
  PROVE  MatchInv(c)'
BY DEF MatchInv, Matching, NoneConfirmed

LEMMA ReachedSame ==
  ASSUME NEW c, Channel = {c}, UNCHANGED <<queue, sent>>,
         \A r : InHand(chan[c], r) => InHand(chan'[c], r)
  PROVE  \A r : Reached(r) => Reached(r)'
BY OneHolds DEF Reached

(* Steps that give and take no event.                                      *)
LEMMA StoreDelivers ==
  ASSUME RowsInv, Delivery, NEW c, Channel = {c},
         UNCHANGED <<queue, nextSeq, chan, answerable, confirmed, queued, sent>>,
         \A x \in tab'[Important] : x.report = 0 => x \in tab[Important]
  PROVE  Delivery'
<1>1. QueueInv' /\ FramesInv'
  BY DEF Delivery, QueueInv, FramesInv, Known, Alike, Apart
<1>2. HandInv(c)' /\ MatchInv(c)'
  BY DEF Delivery, HandInv, MatchInv, Matching, Known, Alike, Apart, At
<1>3. \A r : Reached(r) => Reached(r)'
  <2>1. \A r : InHand(chan[c], r) => InHand(chan'[c], r)
    OBVIOUS
  <2>2. QED
    BY <2>1, ReachedSame
<1>4. ReachedInv'
  BY <1>3 DEF Delivery, ReachedInv, At
<1>5. QED
  BY <1>1, <1>2, <1>4 DEF Delivery

LEMMA QuietDelivers ==
  ASSUME RowsInv, Delivery, NEW c, Channel = {c}, NumbersFit,
         UNCHANGED <<tab, queue, answerable, confirmed, queued, sent>>,
         nextSeq' = nextSeq \/ nextSeq' = nextSeq + 1,
         chan[c].pc \notin Hands, chan'[c].pc \notin Hands, chan'[c].pc # "clear", MatchInv(c)'
  PROVE  Delivery'
<1>1. QueueInv /\ FramesInv /\ ReachedInv /\ nextSeq \in Nat
  BY DEF Delivery, QueueInv
<1>2. nextSeq' \in Nat /\ \A n \in Nat : n < nextSeq => n < nextSeq'
  BY <1>1
<1>3. \A d : Known(d) => Known(d)'
  BY <1>2 DEF Known
<1>4. ASSUME NEW n \in 1 .. Len(queue')
      PROVE  \E d : d = queue'[n] /\ Known(d)' /\ \A f \in answerable' : Alike(f, d)
  BY <1>1, <1>3 DEF QueueInv
<1>5. QueueInv'
  BY <1>1, <1>2, <1>4 DEF QueueInv, Known, Alike, Apart
<1>6. FramesInv'
  BY <1>1, <1>2 DEF FramesInv
<1>7. HandInv(c)'
  BY DEF HandInv, Hands
<1>8. ReachedInv'
  <2>1. \A r : ~InHand(chan[c], r)
    BY DEF InHand, Hands
  <2>2. \A r : Reached(r) => Reached(r)'
    BY <2>1, ReachedSame
  <2>3. QED
    BY <1>1, <2>2, ReachedKept
<1>9. QED
  BY <1>5, <1>6, <1>7, <1>8 DEF Delivery

LEMMA PlainDelivers ==
  ASSUME RowsInv, ReportInv, Delivery, NEW c, Channel = {c}, NumbersFit,
         GetEventRow(c) \/ Scan(c) \/ GetImportanceEvent(c) \/ Turn(c) \/ Leave(c)
  PROVE  Delivery'
<1>1. c \in Channel /\ MatchInv(c) /\ chan[c].i \in Nat
  BY DEF Delivery, RowsInv, ScanInv
<1>2. CASE GetEventRow(c) \/ Scan(c) \/ GetImportanceEvent(c)
  <2>1. /\ chan[c].pc \in {"idle", "scan", "fetch"}
        /\ UNCHANGED <<tab, queue, nextSeq, answerable, confirmed, queued, sent>>
    BY <1>2 DEF GetEventRow, Scan, GetImportanceEvent, At, vars, memory, history
  <2>2. chan'[c].pc \in {"scan", "fetch", "drain", "enqueue"}
    BY <1>1, <1>2, Moved DEF GetEventRow, Scan, GetImportanceEvent
  <2>3. NoneConfirmed'
    BY <1>1, <2>1, NotMatching DEF NoneConfirmed
  <2>4. MatchInv(c)'
    BY <2>2, <2>3, StillNone
  <2>5. QED
    BY <2>1, <2>2, <2>4, QuietDelivers DEF Hands
<1>3. CASE Turn(c)
  <2>1. /\ UNCHANGED <<tab, queue, nextSeq, answerable, confirmed, queued, sent>>
        /\ chan[c].pc \in {"drain", "match"} /\ chan[c].i < Len(queue)
    BY <1>3 DEF Turn, vars, memory, history
  <2>2. /\ chan'[c].pc = IF chan[c].pc = "drain" THEN "pop" ELSE "pop_match"
        /\ chan'[c].i = chan[c].i /\ chan'[c].seq = chan[c].seq
    BY <1>1, <1>3, Moved DEF Turn, At
  <2>3. MatchInv(c)'
    BY <1>1, <2>1, <2>2 DEF MatchInv, Matching
  <2>4. QED
    BY <2>1, <2>2, <2>3, QuietDelivers DEF Hands
<1>4. CASE Leave(c)
  <2>1. /\ UNCHANGED <<tab, queue, nextSeq, answerable, confirmed, queued, sent>>
        /\ chan[c].pc \in {"drain", "match"} /\ chan[c].i >= Len(queue)
    BY <1>4 DEF Leave, vars, memory, history
  <2>2. chan'[c].pc = "idle"
    BY <1>1, <1>4, LeaveIs DEF Becomes
  <2>3. NoneConfirmed
    <3>1. IsQueue(queue)
      BY DEF ReportInv, ReportShape
    <3>2. Len(queue) \in Nat
      BY <3>1, QueueNat
    <3>3. ASSUME NEW n \in 1 .. Len(queue), queue[n].row \in confirmed PROVE FALSE
      <4>1. n + chan[c].i <= Len(queue)
        BY <1>1, <3>3 DEF MatchInv
      <4>2. QED
        BY <1>1, <2>1, <3>2, <4>1
    <3>4. QED
      BY <3>3 DEF NoneConfirmed
  <2>4. MatchInv(c)'
    <3>1. NoneConfirmed'
      BY <2>1, <2>3 DEF NoneConfirmed
    <3>2. QED
      BY <2>2, <3>1, StillNone
  <2>5. QED
    BY <2>1, <2>2, <2>4, QuietDelivers DEF Hands
<1>5. QED
  BY <1>2, <1>3, <1>4

(* send_event queues a record that was never queued.                       *)
LEMMA EnqueueDelivers ==
  ASSUME RowsInv, ReportInv, Delivery, Without({"restarts"}), NumbersFit, NEW c, Channel = {c},
         Enqueue(c)
  PROVE  Delivery'
<1>1. /\ c \in Channel /\ MatchInv(c) /\ ScanInv(c) /\ chan[c].pc = "enqueue" /\ IsQueue(queue)
      /\ UNCHANGED <<tab, answerable, confirmed, sent>>
      /\ QueueInv /\ FramesInv /\ ReachedInv
  BY DEF Delivery, RowsInv, Enqueue, At, vars, ReportInv, ReportShape
<1>2. PICK i : i = chan[c].i
  OBVIOUS
<1>3. i \in Nat /\ Waits(i + 1) /\ eventBuf = i + 1
  BY <1>1, <1>2 DEF ScanInv, At
<1>4. i + 1 \in RowId /\ queued[i + 1] = 0
  <2>1. i + 1 \in RowId
    BY <1>3, RowsInRange DEF Waits
  <2>2. ~Clearing(i + 1)
    BY <1>1, OneClearing DEF At
  <2>3. queued[i + 1] <= 0
    BY <1>3, <2>1, <2>2 DEF RowsInv, OnceInv, Without
  <2>4. queued[i + 1] \in Nat
    BY <2>1 DEF ReportInv, ReportShape
  <2>5. QED
    BY <2>1, <2>3, <2>4
<1>5. NoneConfirmed
  BY <1>1, NotMatching
<1>6. PICK q \in Nat : q = nextSeq /\ nextSeq' = q + 1
  <2>1. nextSeq \in Nat /\ SeqRange \in Nat /\ nextSeq < SeqRange - 1
    BY <1>1, ReportAssumption DEF QueueInv, NumbersFit
  <2>2. (nextSeq + 1) % SeqRange = nextSeq + 1
    BY <2>1, ModSmall
  <2>3. QED
    BY <2>1, <2>2 DEF Enqueue
<1>7. CASE UNCHANGED <<queue, queued>> /\ Move(c, "scan", chan[c].i + 1)
  <2>1. chan'[c].pc = "scan"
    BY <1>1, <1>7, Moved
  <2>2. NoneConfirmed'
    BY <1>1, <1>5, <1>7 DEF NoneConfirmed
  <2>3. MatchInv(c)'
    BY <2>1, <2>2, StillNone
  <2>4. QED
    BY <1>1, <1>6, <1>7, <2>1, <2>3, QuietDelivers DEF Hands
<1>8. CASE /\ Len(queue) < Capacity
           /\ queue' = Append(queue, Event(eventBuf, nextSeq, 0, TRUE))
           /\ queued' = [r \in RowId |-> IF r = eventBuf THEN queued[r] + 1 ELSE queued[r]]
           /\ Move(c, "clear", chan[c].i)
  <2>1. PICK e : e = Event(i + 1, q, 0, TRUE)
    OBVIOUS
  <2>2. /\ queue' = Append(queue, e)
        /\ e.row = i + 1 /\ e.seq = q /\ e.report_count = 0 /\ e.full
    BY <1>3, <1>6, <1>8, <2>1 DEF Event
  <2>3. chan'[c].pc = "clear" /\ chan'[c].i = i
    BY <1>1, <1>2, <1>8, Moved
  <2>4. /\ queued'[i + 1] = 1
        /\ \A r \in RowId : r # i + 1 => queued'[r] = queued[r]
    BY <1>3, <1>4, <1>8
  <2>5. \A r \in RowId : queued[r] >= 1 => queued'[r] >= 1 /\ r # i + 1
    BY <1>4, <2>4
  <2>6. \A d : Known(d) => Known(d)'
    BY <1>1, <1>6, <2>5 DEF Known
  <2>7. Known(e)'
    BY <1>4, <1>6, <2>2, <2>4 DEF Known
  <2>8. \A d : Known(d) => Apart(d, e)
    BY <1>6, <2>2, <2>5 DEF Known, Apart
  <2>9. \A f \in answerable : Alike(f, e)
    BY <1>1, <1>6, <2>2, <2>5 DEF FramesInv, Alike
  <2>10. \A n \in 1 .. Len(queue) : Apart(queue[n], e)
    BY <1>1, <2>8 DEF QueueInv
  <2>11. nextSeq' \in Nat
    BY <1>6
  <2>12. /\ QueueInv' /\ Len(queue') = Len(queue) + 1 /\ Len(queue) \in Nat
         /\ \A n \in 1 .. Len(queue) : queue'[n] = queue[n]
         /\ queue'[Len(queue) + 1] = e
    BY <1>1, <1>8, <2>2, <2>6, <2>7, <2>9, <2>10, <2>11, AppendedQueue, QueueNat
  <2>13. FramesInv'
    BY <1>1, <1>6, <2>5 DEF FramesInv
  <2>14. e.row \notin confirmed
    BY <1>1, <2>2, <2>5 DEF FramesInv
  <2>15. NoneConfirmed'
    BY <1>1, <1>5, <2>12, <2>14 DEF NoneConfirmed
  <2>16. HandInv(c)' /\ MatchInv(c)'
    BY <2>3, <2>15, StillNone DEF HandInv
  <2>17. \A r : Reached(r) => Reached(r)'
    <3>1. \A r : ~InHand(chan[c], r)
      BY <1>1 DEF InHand
    <3>2. QED
      BY <1>1, <2>12, <3>1, OneHolds DEF Reached
  <2>18. Reached(i + 1)'
    <3>1. PICK n : n = Len(queue) + 1
      OBVIOUS
    <3>2. n \in 1 .. Len(queue') /\ queue'[n].row = i + 1
      BY <2>2, <2>12, <3>1
    <3>3. QED
      BY <3>2, OneHolds DEF Reached
  <2>19. ReachedInv'
    BY <1>1, <2>3, <2>17, <2>18 DEF ReachedInv, At
  <2>20. QED
    BY <2>12, <2>13, <2>16, <2>19 DEF Delivery
<1>9. QED
  BY <1>7, <1>8 DEF Enqueue

(* The flag of a record is cleared when it is in the queue.                *)
LEMMA UpdateDelivers ==
  ASSUME RowsInv, ReportInv, Delivery, NumbersFit, NEW c, Channel = {c}, UpdateEventRow(c)
  PROVE  Delivery'
<1>1. /\ c \in Channel /\ chan[c].pc = "clear" /\ ScanInv(c) /\ TypeOK /\ KeptInv
      /\ UNCHANGED <<queue, nextSeq, answerable, confirmed, queued, sent>>
      /\ QueueInv /\ FramesInv /\ ReachedInv /\ MatchInv(c)
  BY DEF Delivery, RowsInv, UpdateEventRow, At, memory, history
<1>2. PICK i \in Nat : i = chan[c].i /\ Waits(i + 1) /\ Cleared(i)
  BY <1>1, ScanClears
<1>3. chan'[c].pc = "scan"
  BY <1>1, Moved DEF UpdateEventRow
<1>4. \A r : Reached(r) => Reached(r)'
  <2>1. \A r : ~InHand(chan[c], r)
    BY <1>1 DEF InHand
  <2>2. QED
    BY <1>1, <2>1, ReachedSame
<1>5. Reached(i + 1)
  BY <1>1, <1>2 DEF ReachedInv, At
<1>6. ASSUME NEW y \in tab'[Important], y.report = 0 PROVE Reached(y.rowid)'
  <2>1. CASE y.rowid = i + 1
    BY <1>4, <1>5, <2>1
  <2>2. CASE y.rowid # i + 1
    <3>1. y \in tab[Important]
      BY <1>2, <2>2 DEF Cleared
    <3>2. QED
      BY <1>1, <1>4, <1>6, <3>1 DEF ReachedInv
  <2>3. QED
    BY <2>1, <2>2
<1>7. ReachedInv'
  BY <1>3, <1>6 DEF ReachedInv, At
<1>8. QueueInv' /\ FramesInv'
  BY <1>1 DEF QueueInv, FramesInv, Known, Alike, Apart
<1>9. NoneConfirmed'
  BY <1>1, NotMatching DEF NoneConfirmed
<1>10. HandInv(c)' /\ MatchInv(c)'
  BY <1>3, <1>9, StillNone DEF HandInv
<1>11. QED
  BY <1>7, <1>8, <1>10 DEF Delivery

(* A frame: from now on the record has reached the station.                *)
LEMMA SendDelivers ==
  ASSUME RowsInv, ReportInv, Delivery, NumbersFit, NEW c, Channel = {c}, SendEvent(c)
  PROVE  Delivery'
<1>1. /\ c \in Channel /\ MatchInv(c) /\ chan[c].pc = "pop" /\ IsQueue(queue)
      /\ chan[c].i \in Nat /\ chan[c].i < Len(queue)
      /\ UNCHANGED <<tab, nextSeq, confirmed, queued>> /\ queue' = Rest
      /\ QueueInv /\ FramesInv /\ ReachedInv
      /\ sent \in [RowId -> Nat]
  BY DEF Delivery, RowsInv, ScanInv, MatchInv, SendEvent, At, vars, ReportInv, ReportShape
<1>2. Len(queue) \in Nat /\ 1 <= Len(queue)
  BY <1>1, QueueNat
<1>3. PICK e : e = Taken
  OBVIOUS
<1>4. NoneConfirmed
  BY <1>1, NotMatching
<1>5. /\ e = queue[1] /\ Known(e) /\ 1 \in 1 .. Len(queue)
      /\ \A f \in answerable : Alike(f, e)
      /\ e.row \notin confirmed
  BY <1>1, <1>2, <1>3, <1>4, QueueTails DEF QueueInv, NoneConfirmed, Taken
<1>6. nextSeq \in Nat /\ e.row \in RowId /\ e.seq \in Nat /\ e.seq < nextSeq /\ e.full
  BY <1>1, <1>5 DEF QueueInv, Known
<1>7. CASE ~MaySend(e) /\ Move(c, "drain", chan[c].i + 1) /\ UNCHANGED <<sent, answerable>>
  <2>1. chan'[c].pc = "drain"
    BY <1>1, <1>7, Moved
  <2>2. sent[e.row] > 0
    <3>1. e.report_count > 0
      <4>1. IsEvent(e)
        BY <1>1, <1>3, TakenShape
      <4>2. QED
        BY <1>7, <4>1 DEF MaySend, IsEvent
    <3>2. QED
      BY <1>5, <3>1 DEF Known
  <2>3. \A d : Known(d) => Known(d)'
    BY <1>1, <1>7 DEF Known
  <2>4. /\ QueueInv' /\ Len(queue') = Len(queue) - 1
        /\ \A n \in 1 .. Len(queue') : queue'[n] = queue[n + 1] /\ Apart(queue'[n], e)
    <3>1. \A f \in answerable' : \A n \in 2 .. Len(queue) : Alike(f, queue[n])
      BY <1>1, <1>2, <1>7 DEF QueueInv
    <3>2. QED
      BY <1>1, <1>2, <1>3, <2>3, <3>1, TailedQueue
  <2>5. FramesInv'
    BY <1>1, <1>7 DEF FramesInv
  <2>6. NoneConfirmed'
    BY <1>1, <1>2, <1>4, <2>4 DEF NoneConfirmed
  <2>7. HandInv(c)' /\ MatchInv(c)'
    BY <2>1, <2>6, StillNone DEF HandInv
  <2>8. ASSUME NEW r, Reached(r) PROVE Reached(r)'
    <3>1. ~InHand(chan[c], r)
      BY <1>1 DEF InHand
    <3>2. CASE sent[r] > 0
      BY <1>7, <3>2 DEF Reached
    <3>3. CASE ~(sent[r] > 0)
      <4>1. PICK n \in 1 .. Len(queue) : queue[n].row = r
        BY <2>8, <3>1, <3>3, OneHolds DEF Reached
      <4>2. n # 1
        BY <1>5, <2>2, <3>3, <4>1
      <4>3. PICK m : m = n - 1
        OBVIOUS
      <4>4. m \in 1 .. Len(queue') /\ m + 1 = n
        BY <1>2, <2>4, <4>2, <4>3
      <4>5. queue'[m].row = r
        BY <2>4, <4>1, <4>4
      <4>6. QED
        BY <4>4, <4>5, OneHolds DEF Reached
    <3>4. QED
      BY <3>2, <3>3
  <2>9. ReachedInv'
    BY <1>1, <2>1, <2>8, ReachedKept
  <2>10. QED
    BY <2>4, <2>5, <2>7, <2>9 DEF Delivery
<1>8. CASE /\ MaySend(e)
           /\ sent' = [r \in RowId |-> IF r = e.row THEN CountFrame(sent[r]) ELSE sent[r]]
           /\ answerable' = answerable \cup {[row |-> e.row, seq |-> Wire(e.seq)]}
           /\ chan' = [chan EXCEPT ![c].pc = "requeue", ![c].event = e]
  <2>1. chan'[c].pc = "requeue" /\ chan'[c].event = e
    BY <1>1, <1>8, TakeOver DEF Becomes
  <2>2. /\ sent'[e.row] > 0
        /\ \A r \in RowId : sent[r] > 0 => sent'[r] > 0
    <3>1. Cardinality(Channel) = 1
      BY FS_Singleton
    <3>2. MaxSent = 4
      BY <3>1 DEF MaxSent
    <3>3. \A k \in Nat : CountFrame(k) > 0
      BY <3>2 DEF CountFrame
    <3>4. QED
      BY <1>1, <1>6, <1>8, <3>3
  <2>3. \A d : Known(d) => Known(d)'
    BY <1>1, <2>2 DEF Known
  <2>4. PICK f0 : f0 = [row |-> e.row, seq |-> Wire(e.seq)]
    OBVIOUS
  <2>5. f0.row = e.row /\ f0.seq = e.seq /\ answerable' = answerable \cup {f0}
    <3>1. WireRange \in Nat /\ e.seq < WireRange
      BY <1>6, ReportAssumption DEF NumbersFit
    <3>2. Wire(e.seq) = e.seq
      BY <1>6, <3>1, ModSmall DEF Wire
    <3>3. QED
      BY <1>8, <2>4, <3>2
  <2>6. ASSUME NEW f \in answerable', NEW n \in 2 .. Len(queue) PROVE Alike(f, queue[n])
    <3>1. n \in 1 .. Len(queue) /\ 1 # n
      BY <1>2
    <3>2. Apart(queue[1], queue[n])
      BY <1>1, <1>5, <3>1 DEF QueueInv
    <3>3. CASE f \in answerable
      BY <1>1, <3>1, <3>3 DEF QueueInv
    <3>4. CASE f = f0
      BY <1>5, <2>5, <3>2, <3>4 DEF Alike, Apart
    <3>5. QED
      BY <2>5, <3>3, <3>4
  <2>7. /\ QueueInv' /\ Len(queue') = Len(queue) - 1
        /\ \A n \in 1 .. Len(queue') : queue'[n] = queue[n + 1] /\ Apart(queue'[n], e)
    BY <1>1, <1>2, <1>3, <2>3, <2>6, TailedQueue
  <2>8. FramesInv'
    <3>1. queued[e.row] >= 1
      BY <1>5 DEF Known
    <3>2. QED
      BY <1>1, <1>6, <2>2, <2>5, <3>1 DEF FramesInv
  <2>9. NoneConfirmed'
    BY <1>1, <1>2, <1>4, <2>7 DEF NoneConfirmed
  <2>10. HandInv(c)'
    <3>1. Len(queue') < Capacity
      BY <1>1, <1>2, <2>7, ReportAssumption DEF QueueInv
    <3>2. Known(e)'
      BY <1>5, <2>3
    <3>3. \A f \in answerable' : Alike(f, e)
      BY <1>5, <2>5 DEF Alike
    <3>4. QED
      BY <1>1, <1>5, <2>1, <2>2, <2>7, <3>1, <3>2, <3>3 DEF HandInv, Known, Alike, Apart, At
  <2>11. MatchInv(c)'
    BY <2>1, <2>9, StillNone
  <2>12. ASSUME NEW r \in RowId, Reached(r) PROVE Reached(r)'
    <3>1. ~InHand(chan[c], r)
      BY <1>1 DEF InHand
    <3>2. CASE sent[r] > 0
      BY <2>2, <3>2 DEF Reached
    <3>3. CASE \E n \in 1 .. Len(queue) : queue[n].row = r
      <4>1. PICK n \in 1 .. Len(queue) : queue[n].row = r
        BY <3>3
      <4>2. CASE n = 1
        BY <1>5, <2>2, <4>1, <4>2 DEF Reached
      <4>3. CASE n # 1
        <5>1. PICK m : m = n - 1
          OBVIOUS
        <5>2. m \in 1 .. Len(queue') /\ m + 1 = n
          BY <1>2, <2>7, <4>3, <5>1
        <5>3. queue'[m].row = r
          BY <2>7, <4>1, <5>2
        <5>4. QED
          BY <5>2, <5>3, OneHolds DEF Reached
      <4>4. QED
        BY <4>2, <4>3
    <3>4. QED
      BY <2>12, <3>1, <3>2, <3>3, OneHolds DEF Reached
  <2>13. ReachedInv'
    BY <1>1, <2>1, <2>12, ReachedKept
  <2>14. QED
    BY <2>7, <2>8, <2>10, <2>11, <2>13 DEF Delivery
<1>9. QED
  BY <1>3, <1>6, <1>7, <1>8 DEF SendEvent

(* An event in the hands of the channel goes back into the queue.          *)
LEMMA BackDelivers ==
  ASSUME RowsInv, ReportInv, Delivery, NEW c, Channel = {c},
         chan[c].pc \in Hands, chan'[c].pc \notin Hands, chan'[c].pc # "clear",
         NEW e, PutBack(e), Known(e),
         e.row = chan[c].event.row, e.seq = chan[c].event.seq,
         UNCHANGED <<tab, nextSeq, answerable, confirmed, queued, sent>>
  PROVE  /\ (MatchInv(c)' => Delivery')
         /\ Len(queue) \in Nat /\ Len(queue') = Len(queue) + 1
         /\ \A n \in 1 .. Len(queue) : queue'[n] = queue[n]
         /\ queue'[Len(queue) + 1] = e /\ e.row \notin confirmed
<1>1. /\ IsQueue(queue) /\ QueueInv /\ FramesInv /\ ReachedInv /\ HandInv(c)
      /\ chan[c].pc \in {"requeue", "putback"}
  BY DEF Delivery, ReportInv, ReportShape, Hands
<1>2. /\ Len(queue) < Capacity
      /\ \A n \in 1 .. Len(queue) : Apart(queue[n], chan[c].event)
      /\ \A f \in answerable : Alike(f, chan[c].event)
      /\ chan[c].event.row \notin confirmed
  BY <1>1 DEF HandInv
<1>3. \A n \in 1 .. Len(queue) : Apart(queue[n], e)
  BY <1>2 DEF Apart
<1>4. \A f \in answerable : Alike(f, e)
  BY <1>2 DEF Alike
<1>5. queue' = Append(queue, e)
  BY <1>2 DEF PutBack
<1>6. \A d : Known(d) => Known(d)'
  BY DEF Known
<1>7. nextSeq' \in Nat
  BY <1>1 DEF QueueInv
<1>8. /\ QueueInv' /\ Len(queue') = Len(queue) + 1
      /\ \A n \in 1 .. Len(queue) : queue'[n] = queue[n]
      /\ queue'[Len(queue) + 1] = e
  BY <1>1, <1>2, <1>3, <1>4, <1>5, <1>6, <1>7, AppendedQueue
<1>9. Len(queue) \in Nat
  BY <1>1, QueueNat
<1>10. FramesInv'
  BY <1>1 DEF FramesInv
<1>11. HandInv(c)'
  BY DEF HandInv, Hands
<1>12. ASSUME NEW r, Reached(r) PROVE Reached(r)'
  <2>1. CASE sent[r] > 0
    BY <2>1 DEF Reached
  <2>2. CASE \E n \in 1 .. Len(queue) : queue[n].row = r
    <3>1. PICK n \in 1 .. Len(queue) : queue[n].row = r
      BY <2>2
    <3>2. n \in 1 .. Len(queue') /\ queue'[n].row = r
      BY <1>8, <1>9, <3>1
    <3>3. QED
      BY <3>2, OneHolds DEF Reached
  <2>3. CASE InHand(chan[c], r)
    <3>1. PICK n : n = Len(queue) + 1
      OBVIOUS
    <3>2. n \in 1 .. Len(queue') /\ queue'[n].row = r
      BY <1>8, <1>9, <2>3, <3>1 DEF InHand
    <3>3. QED
      BY <3>2, OneHolds DEF Reached
  <2>4. QED
    BY <1>12, <2>1, <2>2, <2>3, OneHolds DEF Reached
<1>13. ReachedInv'
  BY <1>1, <1>12, ReachedKept
<1>14. QED
  BY <1>2, <1>8, <1>9, <1>10, <1>11, <1>13 DEF Delivery

LEMMA RequeueDelivers ==
  ASSUME RowsInv, ReportInv, Delivery, NEW c, Channel = {c}, Requeue(c)
  PROVE  Delivery'
<1>1. /\ c \in Channel /\ chan[c].pc = "requeue" /\ MatchInv(c) /\ HandInv(c)
      /\ UNCHANGED <<tab, nextSeq, answerable, confirmed, queued, sent>>
      /\ IsEvent(chan[c].event)
  BY DEF Delivery, Requeue, At, vars, history, ReportInv, ReportShape, IsLocal
<1>2. PICK d : d = chan[c].event
  OBVIOUS
<1>3. PICK e : e = CountSend(d) /\ PutBack(e)
  BY <1>2 DEF Requeue
<1>4. e.row = d.row /\ e.seq = d.seq /\ e.full = d.full
  <2>1. PICK a, b, k, f : d = [row |-> a, seq |-> b, report_count |-> k, full |-> f]
    BY <1>1, <1>2 DEF IsEvent
  <2>2. QED
    BY <1>3, <2>1 DEF CountSend
<1>5. Known(d) /\ sent[d.row] > 0
  BY <1>1, <1>2 DEF HandInv, At
<1>6. Known(e)
  BY <1>4, <1>5 DEF Known
<1>7. chan'[c].pc = "drain"
  BY <1>1, RequeueIs DEF Becomes
<1>8. /\ (MatchInv(c)' => Delivery')
      /\ Len(queue) \in Nat /\ Len(queue') = Len(queue) + 1
      /\ \A n \in 1 .. Len(queue) : queue'[n] = queue[n]
      /\ queue'[Len(queue) + 1] = e /\ e.row \notin confirmed
  BY <1>1, <1>2, <1>3, <1>4, <1>6, <1>7, BackDelivers DEF Hands
<1>9. NoneConfirmed
  BY <1>1, NotMatching
<1>10. NoneConfirmed'
  BY <1>1, <1>8, <1>9 DEF NoneConfirmed
<1>11. QED
  BY <1>7, <1>8, <1>10, StillNone

LEMMA PutUnmatchedDelivers ==
  ASSUME RowsInv, ReportInv, Delivery, NEW c, Channel = {c}, PutUnmatched(c)
  PROVE  Delivery'
<1>1. /\ c \in Channel /\ chan[c].pc = "putback" /\ MatchInv(c) /\ HandInv(c)
      /\ UNCHANGED <<tab, nextSeq, answerable, confirmed, queued, sent>>
      /\ chan[c].i \in Nat
  BY DEF Delivery, PutUnmatched, At, vars, history, RowsInv, ScanInv
<1>2. PICK e : e = chan[c].event /\ PutBack(e)
  BY DEF PutUnmatched
<1>3. Known(e)
  BY <1>1, <1>2 DEF HandInv
<1>4. /\ chan'[c].pc = "match" /\ chan'[c].i = chan[c].i + 1 /\ chan'[c].seq = chan[c].seq
  BY <1>1, PutUnmatchedIs DEF Becomes
<1>5. /\ (MatchInv(c)' => Delivery')
      /\ Len(queue) \in Nat /\ Len(queue') = Len(queue) + 1
      /\ \A n \in 1 .. Len(queue) : queue'[n] = queue[n]
      /\ queue'[Len(queue) + 1] = e /\ e.row \notin confirmed
  BY <1>1, <1>2, <1>3, <1>4, BackDelivers DEF Hands
<1>6. ASSUME NEW n \in 1 .. Len(queue'), queue'[n].row \in confirmed
      PROVE  n + chan'[c].i <= Len(queue') /\ queue'[n].seq = chan'[c].seq
  <2>1. n \in 1 .. Len(queue) /\ queue'[n] = queue[n]
    BY <1>5, <1>6
  <2>2. n + chan[c].i <= Len(queue) /\ queue[n].seq = chan[c].seq
    BY <1>1, <1>6, <2>1 DEF MatchInv
  <2>3. QED
    BY <1>1, <1>4, <1>5, <2>1, <2>2
<1>7. \E f \in answerable' : f.seq = chan'[c].seq
  BY <1>1, <1>4 DEF MatchInv, Matching
<1>8. MatchInv(c)'
  BY <1>1, <1>4, <1>6, <1>7 DEF MatchInv, Matching
<1>9. QED
  BY <1>5, <1>8

(* A confirmation is for a frame that was sent, and so for the record      *)
(* under that number.                                                      *)
LEMMA ConfirmationDelivers ==
  ASSUME RowsInv, ReportInv, Delivery, NEW c, Channel = {c}, NEW f \in answerable,
         Confirmation(c, f)
  PROVE  Delivery'
<1>1. /\ c \in Channel /\ chan[c].pc = "idle" /\ MatchInv(c) /\ IsQueue(queue)
      /\ UNCHANGED <<tab, queue, nextSeq, answerable, queued, sent>>
      /\ confirmed' = confirmed \cup {f.row}
      /\ QueueInv /\ FramesInv /\ ReachedInv
  BY DEF Delivery, Confirmation, At, vars, memory, ReportInv, ReportShape
<1>2. chan'[c].pc = "match" /\ chan'[c].i = 0 /\ chan'[c].seq = f.seq
  BY <1>1, ConfirmationIs DEF Becomes
<1>3. NoneConfirmed /\ Len(queue) \in Nat
  BY <1>1, NotMatching, QueueNat
<1>4. MatchInv(c)'
  <2>1. ASSUME NEW n \in 1 .. Len(queue'), queue'[n].row \in confirmed'
        PROVE  n + chan'[c].i <= Len(queue') /\ queue'[n].seq = chan'[c].seq
    <3>1. queue[n].row = f.row
      BY <1>1, <1>3, <2>1 DEF NoneConfirmed
    <3>2. queue[n].seq = f.seq
      BY <1>1, <3>1 DEF QueueInv, Alike
    <3>3. QED
      BY <1>1, <1>2, <1>3, <3>2
  <2>2. QED
    BY <1>1, <1>2, <2>1 DEF MatchInv, Matching
<1>5. QueueInv'
  BY <1>1 DEF QueueInv, Known, Alike, Apart
<1>6. FramesInv'
  BY <1>1 DEF FramesInv
<1>7. HandInv(c)'
  BY <1>2 DEF HandInv
<1>8. ReachedInv'
  <2>1. \A r : ~InHand(chan[c], r)
    BY <1>1 DEF InHand
  <2>2. \A r : Reached(r) => Reached(r)'
    BY <1>1, <2>1, ReachedSame
  <2>3. QED
    BY <1>1, <1>2, <2>2, ReachedKept
<1>9. QED
  BY <1>4, <1>5, <1>6, <1>7, <1>8 DEF Delivery

(* The event that a confirmation takes out has been sent; any other goes   *)
(* back.                                                                   *)
LEMMA TakeDelivers ==
  ASSUME RowsInv, ReportInv, Delivery, NEW c, Channel = {c}, TakeForMatch(c)
  PROVE  Delivery'
<1>1. /\ c \in Channel /\ MatchInv(c) /\ chan[c].pc = "pop_match" /\ IsQueue(queue)
      /\ chan[c].i \in Nat /\ chan[c].i < Len(queue)
      /\ UNCHANGED <<tab, nextSeq, answerable, confirmed, queued, sent>> /\ queue' = Rest
      /\ QueueInv /\ FramesInv /\ ReachedInv
  BY DEF Delivery, RowsInv, ScanInv, MatchInv, TakeForMatch, At, vars, history, ReportInv,
         ReportShape
<1>2. Len(queue) \in Nat /\ 1 <= Len(queue)
  BY <1>1, QueueNat
<1>3. PICK e : e = Taken
  OBVIOUS
<1>4. /\ e = queue[1] /\ Known(e) /\ 1 \in 1 .. Len(queue)
      /\ \A f \in answerable : Alike(f, e)
  BY <1>1, <1>2, <1>3, QueueTails DEF QueueInv, Taken
<1>5. \A d : Known(d) => Known(d)'
  BY <1>1 DEF Known
<1>6. /\ QueueInv' /\ Len(queue') = Len(queue) - 1
      /\ \A n \in 1 .. Len(queue') : queue'[n] = queue[n + 1] /\ Apart(queue'[n], e)
  <2>1. \A f \in answerable' : \A n \in 2 .. Len(queue) : Alike(f, queue[n])
    BY <1>1, <1>2 DEF QueueInv
  <2>2. QED
    BY <1>1, <1>2, <1>3, <1>5, <2>1, TailedQueue
<1>7. FramesInv'
  BY <1>1 DEF FramesInv
<1>8. ASSUME NEW r, Reached(r), r # e.row \/ sent[e.row] > 0 \/ InHand(chan'[c], e.row)
      PROVE  Reached(r)'
  <2>1. ~InHand(chan[c], r)
    BY <1>1 DEF InHand
  <2>2. CASE sent[r] > 0
    BY <1>1, <2>2 DEF Reached
  <2>3. CASE \E n \in 1 .. Len(queue) : queue[n].row = r
    <3>1. PICK n \in 1 .. Len(queue) : queue[n].row = r
      BY <2>3
    <3>2. CASE n = 1
      <4>1. r = e.row
        BY <1>4, <3>1, <3>2
      <4>2. QED
        BY <1>1, <1>8, <4>1, OneHolds DEF Reached
    <3>3. CASE n # 1
      <4>1. PICK m : m = n - 1
        OBVIOUS
      <4>2. m \in 1 .. Len(queue') /\ m + 1 = n
        BY <1>2, <1>6, <3>3, <4>1
      <4>3. queue'[m].row = r
        BY <1>6, <3>1, <4>2
      <4>4. QED
        BY <4>2, <4>3, OneHolds DEF Reached
    <3>4. QED
      BY <3>2, <3>3
  <2>4. QED
    BY <1>8, <2>1, <2>2, <2>3, OneHolds DEF Reached
<1>9. PICK f0 \in answerable : f0.seq = chan[c].seq
  BY <1>1 DEF MatchInv, Matching
<1>10. ASSUME NEW n \in 1 .. Len(queue'), queue'[n].row \in confirmed
       PROVE  n + 1 + chan[c].i <= Len(queue) /\ queue'[n].seq = chan[c].seq /\ queue'[n].seq # e.seq
  <2>1. n + 1 \in 1 .. Len(queue) /\ queue'[n] = queue[n + 1] /\ Apart(queue'[n], e)
    BY <1>2, <1>6
  <2>2. n + 1 + chan[c].i <= Len(queue) /\ queue[n + 1].seq = chan[c].seq
    BY <1>1, <1>10, <2>1 DEF MatchInv
  <2>3. QED
    BY <2>1, <2>2 DEF Apart
<1>11. CASE Matches(chan[c].seq, e) /\ Move(c, "match", chan[c].i + 1)
  <2>1. /\ chan'[c].pc = "match" /\ chan'[c].i = chan[c].i + 1 /\ chan'[c].seq = chan[c].seq
    BY <1>1, <1>11, Moved
  <2>2. chan[c].seq = e.seq
    BY <1>11 DEF Matches
  <2>3. sent[e.row] > 0
    <3>1. f0.row = e.row
      BY <1>4, <1>9, <2>2 DEF Alike
    <3>2. QED
      BY <1>1, <1>9, <3>1 DEF FramesInv
  <2>4. MatchInv(c)'
    <3>1. \A n \in 1 .. Len(queue') : queue'[n].row \notin confirmed'
      BY <1>1, <1>10, <2>2
    <3>2. QED
      BY <1>1, <1>9, <2>1, <3>1 DEF MatchInv, Matching
  <2>5. HandInv(c)'
    BY <2>1 DEF HandInv
  <2>6. \A r : Reached(r) => Reached(r)'
    BY <1>8, <2>3
  <2>7. ReachedInv'
    BY <1>1, <2>1, <2>6, ReachedKept
  <2>8. QED
    BY <1>6, <1>7, <2>4, <2>5, <2>7 DEF Delivery
<1>12. CASE ~Matches(chan[c].seq, e) /\ chan' = [chan EXCEPT ![c].pc = "putback", ![c].event = e]
  <2>1. /\ chan'[c].pc = "putback" /\ chan'[c].i = chan[c].i /\ chan'[c].seq = chan[c].seq
        /\ chan'[c].event = e
    BY <1>1, <1>12, TakeOver DEF Becomes
  <2>2. chan[c].seq # e.seq
    BY <1>12 DEF Matches
  <2>3. e.row \notin confirmed
    BY <1>1, <1>4, <2>2 DEF MatchInv
  <2>4. MatchInv(c)'
    <3>1. \A n \in 1 .. Len(queue') : queue'[n].row \in confirmed' =>
            n + chan'[c].i <= Len(queue') /\ queue'[n].seq = chan'[c].seq
      BY <1>1, <1>2, <1>6, <1>10, <2>1
    <3>2. QED
      BY <1>1, <1>9, <2>1, <3>1 DEF MatchInv, Matching
  <2>5. HandInv(c)'
    <3>1. Len(queue') < Capacity
      BY <1>1, <1>2, <1>6, ReportAssumption DEF QueueInv
    <3>2. Known(e)'
      BY <1>4, <1>5
    <3>3. QED
      BY <1>1, <1>4, <1>6, <2>1, <2>3, <3>1, <3>2 DEF HandInv, Known, Alike, Apart, At
  <2>6. InHand(chan'[c], e.row)
    BY <2>1 DEF InHand
  <2>7. \A r : Reached(r) => Reached(r)'
    BY <1>8, <2>6
  <2>8. ReachedInv'
    BY <1>1, <2>1, <2>7, ReachedKept
  <2>9. QED
    BY <1>6, <1>7, <2>4, <2>5, <2>8 DEF Delivery
<1>13. QED
  BY <1>3, <1>11, <1>12 DEF TakeForMatch
--------------------------------------------------------------------------------
LEMMA InitDelivers == ReportInit => EventsInv
<1> SUFFICES ASSUME ReportInit PROVE Delivery
  BY DEF EventsInv
<1>1. /\ queue = <<>> /\ nextSeq = 0 /\ answerable = {} /\ confirmed = {}
      /\ \A c \in Channel : chan[c] = AtRest
      /\ tab[Important] = {}
  BY DEF ReportInit, Init, Important, Priority
<1>2. Len(queue) = 0 /\ Capacity \in Nat
  BY <1>1, ReportAssumption
<1>3. QueueInv /\ FramesInv
  BY <1>1, <1>2 DEF QueueInv, FramesInv
<1>4. \A c \in Channel : HandInv(c) /\ MatchInv(c) /\ ~At(c, "clear")
  BY <1>1, <1>2, AtRestShape DEF HandInv, MatchInv, Matching, At
<1>5. QED
  BY <1>1, <1>3, <1>4 DEF Delivery, ReachedInv

LEMMA EventsStep ==
  ASSUME RowsInv, ReportInv, NothingGoes, NothingGoes', NumbersFit, EventsInv,
         NEW c, Channel = {c}, ReportNext
  PROVE  EventsInv'
<1>1. TypeOK /\ KeptInv /\ used["restarts"] \in Nat
  BY RestartsType DEF RowsInv
<1>2. CASE PowerFailure
  <2>1. used'["restarts"] = used["restarts"] + 1
    BY <1>1, <1>2, EnvironmentIs DEF PowerFailure, Environment
  <2>2. QED
    BY <1>1, <2>1 DEF EventsInv, Without
<1>3. ASSUME used'["restarts"] = used["restarts"], Delivery => Delivery' PROVE EventsInv'
  BY <1>3 DEF EventsInv, Without
<1>4. CASE StoreEnvironment
  <2>1. tab' = tab /\ used'["restarts"] = used["restarts"]
    BY <1>1, <1>4, EnvironmentIs DEF StoreEnvironment
  <2>2. UNCHANGED <<queue, nextSeq, chan, answerable, confirmed, queued, sent>>
    BY <1>4 DEF StoreEnvironment, reportVars, memory, history
  <2>3. QED
    BY <1>3, <2>1, <2>2, StoreDelivers
<1>5. ASSUME NEW s \in Saver, StoreStep(s) PROVE EventsInv'
  <2>1. SaverStep(s) /\ UNCHANGED <<queue, nextSeq, chan, answerable, confirmed, queued, sent>>
    BY <1>5 DEF StoreStep, history
  <2>2. used'["restarts"] = used["restarts"]
    BY <1>1, <2>1, SaverRestartsNot
  <2>3. \A x \in tab'[Important] : x.report = 0 => x \in tab[Important]
    <3>1. CASE Adds(s, Important)
      BY <3>1 DEF Adds, Inserted, Important, OrdinaryEvent
    <3>2. QED
      BY <1>1, <2>1, <3>1, OnlySaverAdds DEF Important, Priority
  <2>4. QED
    BY <1>3, <2>1, <2>2, <2>3, StoreDelivers
<1>6. CASE UpdateEventRow(c)
  <2>1. used' = used
    BY <1>6 DEF UpdateEventRow
  <2>2. QED
    BY <1>3, <1>6, <2>1, UpdateDelivers
<1>7. CASE Enqueue(c)
  <2>1. used' = used
    BY <1>7 DEF Enqueue, vars
  <2>2. QED
    BY <1>7, <2>1, EnqueueDelivers DEF EventsInv, Without
<1>8. CASE GetEventRow(c) \/ Scan(c) \/ GetImportanceEvent(c) \/ OtherStep(c)
  <2>1. used' = used
    BY <1>8 DEF GetEventRow, Scan, GetImportanceEvent, OtherStep, Turn, Leave, SendEvent, Requeue,
                TakeForMatch, PutUnmatched, Confirmation, vars
  <2>2. Delivery => Delivery'
    BY <1>8, PlainDelivers, SendDelivers, RequeueDelivers, TakeDelivers, PutUnmatchedDelivers,
       ConfirmationDelivers DEF OtherStep
  <2>3. QED
    BY <1>3, <2>1, <2>2
<1>9. QED
  BY <1>2, <1>4, <1>5, <1>6, <1>7, <1>8 DEF ReportNext, ChannelStep, OtherStep

LEMMA EventsStutter ==
  ASSUME RowsInv, EventsInv, NEW c, Channel = {c}, UNCHANGED allVars
  PROVE  EventsInv'
<1>1. UNCHANGED <<tab, used, queue, nextSeq, chan, answerable, confirmed, queued, sent>>
  BY DEF allVars, vars, reportVars, memory, history
<1>2. QED
  BY <1>1, StoreDelivers DEF EventsInv, Without

LEMMA Delivered ==
  OneConnection => (ReportSpec /\ []NothingGoes /\ []NumbersFit => [](RowsInv /\ EventsInv))
<1> SUFFICES ASSUME OneConnection
             PROVE  ReportSpec /\ []NothingGoes /\ []NumbersFit => [](RowsInv /\ EventsInv)
  OBVIOUS
<1>1. ASSUME RowsInv, ReportInv, NothingGoes, NothingGoes', NumbersFit, EventsInv,
             [ReportNext]_allVars
      PROVE  EventsInv'
  BY <1>1, EventsStep, EventsStutter DEF OneConnection
<1>2. ReportSpec /\ []NothingGoes => []RowsInv
  <2>1. ReportSpec /\ []NothingGoes => [](RowsInv /\ QueuedOnce)
    BY QueuesOnce
  <2>2. QED
    BY <2>1, PTL
<1>3. QED
  BY <1>1, <1>2, InitDelivers, RightsAreBounded, PTL DEF ReportSpec

(* With one connection, as long as no record goes and the numbers fit: a   *)
(* record whose flag is cleared was sent or is on its way, and it was      *)
(* queued once (send_event queues first and clears the flag afterwards;    *)
(* AFN_00H takes out only what the station has confirmed).                 *)
THEOREM ReportsOnce ==
  OneConnection => (ReportSpec /\ []NothingGoes /\ []NumbersFit => []ReportedOnce)
<1> SUFFICES ASSUME OneConnection
             PROVE  ReportSpec /\ []NothingGoes /\ []NumbersFit => []ReportedOnce
  OBVIOUS
<1>1. RowsInv /\ EventsInv => ReportedOnce
  <2>1. SUFFICES ASSUME RowsInv, EventsInv PROVE NotLost /\ QueuedOnce
    BY DEF ReportedOnce
  <2>2. QueuedOnce
    BY <2>1 DEF RowsInv, OnceInv, QueuedOnce
  <2>3. NotLost
    BY <2>1 DEF EventsInv, Delivery, ReachedInv, Reached, NotLost, ReportKept
  <2>4. QED
    BY <2>2, <2>3
<1>2. ReportSpec /\ []NothingGoes /\ []NumbersFit => [](RowsInv /\ EventsInv)
  BY Delivered
<1>3. QED
  BY <1>1, <1>2, PTL

(* Under the same conditions, what the station has confirmed is not in the *)
(* queue once AFN_00H is through with it (Mrs_fw_proto376_1.c:606).        *)
THEOREM ConfirmedLeave ==
  OneConnection => (ReportSpec /\ []NothingGoes /\ []NumbersFit => []ConfirmedNotQueued)
<1> SUFFICES ASSUME OneConnection
             PROVE  ReportSpec /\ []NothingGoes /\ []NumbersFit => []ConfirmedNotQueued
  OBVIOUS
<1>1. EventsInv => ConfirmedNotQueued
  <2>1. SUFFICES ASSUME EventsInv, Without({"restarts"}), \A c \in Channel : At(c, "idle")
                 PROVE  \A n \in 1 .. Len(queue) : queue[n].row \notin confirmed
    BY DEF ConfirmedNotQueued
  <2>2. PICK c \in Channel : MatchInv(c) /\ chan[c].pc = "idle"
    BY <2>1 DEF OneConnection, EventsInv, Delivery, At
  <2>3. QED
    BY <2>2, NotMatching DEF NoneConfirmed
<1>2. ReportSpec /\ []NothingGoes /\ []NumbersFit => [](RowsInv /\ EventsInv)
  BY Delivered
<1>3. QED
  BY <1>1, <1>2, PTL
=================================================================================
