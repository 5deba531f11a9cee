-------------------------------- MODULE EventStore --------------------------------
(***************************************************************************)
(* Saving event records (EventRecord.c: saveEventFile, saveEvent;          *)
(* SQLite.c).  A thread that saves an event runs saveEventFile: it evicts  *)
(* old records of the kind, inserts the new one, persists the event        *)
(* counter of the class twice, deletes the records of the kind in the      *)
(* other class and counts the record.  m_EC1, m_EC2 and m_ErcNum are plain *)
(* globals, shared by the threads without a lock; each database call holds *)
(* sqlite_lock from DBopen to DBclose.                                     *)
(*                                                                         *)
(* A step is one database call with the local code around it; UpdateEC     *)
(* takes two, because it is two statements with a possible crash between.  *)
(* The environment is the rest of the terminal: the clock, the main        *)
(* station that sets F9 or the clock or erases the data, power failure,    *)
(* and database calls that fail.                                           *)
(***************************************************************************)
EXTENDS EventDb

CONSTANTS
  Erc,                \* the kinds of events (ERC numbers)
  Saver,              \* the threads that save events
  Saves,              \* the kinds that each of them saves
  MAX_NUM_EACH_ERC,   \* records kept of a kind
  EveMax,             \* where the event counters stop
  MaxTime,            \* bound of the clock
  NoSaver,            \* sqlite_lock is free
  Bound               \* bounds on how often each cause may occur

Causes == {"saves", "flags", "clocksets", "restarts", "resets", "failures"}

ASSUME StoreAssumption ==
  /\ Erc # {}
  /\ Saves \in [Saver -> SUBSET Erc]
  /\ MAX_NUM_EACH_ERC \in Nat \ {0}
  /\ EveMax \in Nat \ {0}
  /\ MaxTime \in Nat
  /\ NoSaver \notin Saver
  /\ Bound \in [Causes -> Nat]

VARIABLES
  tab,         \* ordinaryEvent (class 0) and ImportanceEvent (class 1)
  dbEC,        \* ordinaryEC and importanceEC: no row yet, or one value
  tables,      \* the tables exist
  sqlite_lock, \* the thread in the middle of UpdateEC, or NoSaver
  ec,          \* m_EC2 (class 0) and m_EC1 (class 1)
  ercNum,      \* m_ErcNum
  valid,       \* F9: kinds that are recorded
  rating,      \* F9: class of each kind
  clock,       \* GetSecond()
  saving,      \* the locals of each thread's saveEventFile
  used         \* how often each bounded cause has occurred

db      == <<tab, dbEC, tables>>
globals == <<ec, ercNum>>
config  == <<valid, rating>>
vars    == <<tab, dbEC, tables, sqlite_lock, ec, ercNum, valid, rating, clock,
             saving, used>>

Priority == {0, 1}
OrdinaryEvent == 0

(* The class whose records of the kind a save deletes.                     *)
Other_same(p) == p
Other(p) == 1 - p

Label == {"idle", "evict", "recount", "insert", "ec1", "ec1_insert",
          "ec2", "ec2_insert", "other", "count"}

Saving(l, e, p, t, n, v, r) ==
  [pc |-> l, erc |-> e, prio |-> p, time |-> t, old |-> n, val |-> v, res |-> r]

NotSaving == Saving("idle", CHOOSE e \in Erc : TRUE, OrdinaryEvent, 0, 0, 0, 0)

May(c)   == used[c] < Bound[c]
Using(c) == used' = [used EXCEPT ![c] = @ + 1]

(* GetEC1, GetEC2: an empty counter table reads as 0.                      *)
GetEC(p) == IF dbEC[p] = {} THEN 0 ELSE CHOOSE v \in dbEC[p] : TRUE

(* EventInit for one kind: the larger of the numbers in the two tables.    *)
Recounted(e) ==
  LET important == Count(tab[1], e)
      ordinary  == Count(tab[0], e)
  IN  IF important > ordinary THEN important ELSE ordinary

Init ==
  /\ tab = [p \in Priority |-> {}]
  /\ dbEC = [p \in Priority |-> {}]
  /\ tables = TRUE
  /\ sqlite_lock = NoSaver
  /\ ec = [p \in Priority |-> 0]
  /\ ercNum = [e \in Erc |-> 0]
  /\ valid = [e \in Erc |-> TRUE]
  /\ rating \in [Erc -> Priority]
  /\ clock = 0
  /\ saving = [s \in Saver |-> NotSaving]
  /\ used = [c \in Causes |-> 0]
--------------------------------------------------------------------------------
(* A database call of thread s waits for the lock, and then works or fails *)
(* (DBopen or sqlite3_exec).  Without tables it always fails.              *)
Calls(s, l) ==
  /\ saving[s].pc = l
  /\ sqlite_lock = NoSaver

Works == tables /\ UNCHANGED used

Fails ==
  \/ /\ ~tables
     /\ UNCHANGED used
  \/ /\ tables
     /\ May("failures")
     /\ Using("failures")

(* "if (m_ErcNum[ErcName-1] >= MAX_NUM_EACH_ERC)".                         *)
IsFull_late(n) == n > MAX_NUM_EACH_ERC
IsFull_early(n) == n >= MAX_NUM_EACH_ERC - 1
IsFull(n) == n >= MAX_NUM_EACH_ERC

(* "if (m_EC1 < EveMax) m_EC1++".                                          *)
CounterUp_short(v) == IF v + 1 < EveMax THEN v + 1 ELSE v
CounterUp(v) == IF v < EveMax THEN v + 1 ELSE v

(* The argument of saveimportanceEC, saveordinaryEC when it is called.     *)
CounterToSave(c, p) == c[p]

Goto(s, l) == saving' = [saving EXCEPT ![s].pc = l]

(* CreateEvent* takes the time, saveEventFile reads the flags of F9 and    *)
(* the number of records of the kind.                                      *)
Begin(s, e) ==
  /\ saving[s].pc = "idle"
  /\ valid[e]
  /\ May("saves")
  /\ Using("saves")
  /\ saving' = [saving EXCEPT ![s] =
       Saving(IF IsFull(ercNum[e]) THEN "evict" ELSE "insert",
              e, rating[e], clock, ercNum[e], 0, 0)]
  /\ UNCHANGED <<db, sqlite_lock, globals, config, clock>>

(* DeleteordinaryEvent, DeleteImportanceEvent.                             *)
DeleteEvent(s) ==
  /\ Calls(s, "evict")
  /\ \/ /\ Works
        /\ tab' = [tab EXCEPT ![saving[s].prio] = WithoutOldest(@, saving[s].erc)]
     \/ /\ Fails
        /\ UNCHANGED tab
  /\ Goto(s, "recount")
  /\ UNCHANGED <<dbEC, tables, sqlite_lock, globals, config, clock>>

(* GetordinaryEvent_Num, GetImportanceEvent_Num and the loop: go on while  *)
(* the number went down and is still too large.                            *)
GetEvent_Num(s) ==
  LET e == saving[s].erc
      again(n) == n < saving[s].old /\ IsFull(n)
  IN  /\ Calls(s, "recount")
      /\ \/ /\ Works
            /\ ercNum' = [ercNum EXCEPT ![e] = Count(tab[saving[s].prio], e)]
         \/ /\ Fails
            /\ UNCHANGED ercNum
      /\ saving' = [saving EXCEPT
           ![s].pc = IF again(ercNum'[e]) THEN "evict" ELSE "insert",
           ![s].old = ercNum'[e]]
      /\ UNCHANGED <<db, sqlite_lock, ec, config, clock>>

(* saveEvent up to saveimportanceEC, saveordinaryEC: the counter goes up   *)
(* to EveMax at most, and what the insert answers is ignored.              *)
InsertEvent(s) ==
  LET p == saving[s].prio
      flag == IF p = OrdinaryEvent THEN 0 ELSE 1
  IN  /\ Calls(s, "insert")
      /\ ec' = [ec EXCEPT ![p] = CounterUp(@)]
      /\ \/ /\ Works
            /\ tab' = [tab EXCEPT ![p] =
                         Inserted(@, saving[s].erc, saving[s].time, flag)]
         \/ /\ Fails
            /\ UNCHANGED tab
      /\ saving' = [saving EXCEPT ![s].pc = "ec1", ![s].val = CounterToSave(ec', p)]
      /\ UNCHANGED <<dbEC, tables, sqlite_lock, ercNum, config, clock>>

(* UpdateEC1, UpdateEC2: delete the row, insert the value passed when the  *)
(* call was made.  saveEventFile calls it a second time.  saveEvent has no *)
(* return statement: built without optimisation, as the Makefile does, it  *)
(* answers what its last call answered, which is the first of the two.     *)
(* (A delete that fails alone changes nothing: GetEC takes the last row.)  *)
After(l) == IF l \in {"ec1", "ec1_insert"} THEN "ec2" ELSE "other"

EndUpdate(s, result) ==
  LET first == saving[s].pc \in {"ec1", "ec1_insert"}
  IN  saving' = [saving EXCEPT ![s].pc = After(@),
                               ![s].val = CounterToSave(ec, saving[s].prio),
                               ![s].res = IF first THEN result ELSE @]

UpdateEC(s) ==
  /\ \E l \in {"ec1", "ec2"} : Calls(s, l)
  /\ \/ /\ Works
        /\ dbEC' = [dbEC EXCEPT ![saving[s].prio] = {}]
        /\ sqlite_lock' = s
        /\ Goto(s, IF saving[s].pc = "ec1" THEN "ec1_insert" ELSE "ec2_insert")
     \/ /\ Fails
        /\ EndUpdate(s, -1)
        /\ UNCHANGED <<dbEC, sqlite_lock>>
  /\ UNCHANGED <<tab, tables, globals, config, clock>>

(* When the file was removed in the meantime the value goes with it.       *)
UpdateEC_insert(s) ==
  /\ saving[s].pc \in {"ec1_insert", "ec2_insert"}
  /\ sqlite_lock' = NoSaver
  /\ \/ /\ dbEC' = IF tables THEN [dbEC EXCEPT ![saving[s].prio] = {saving[s].val}]
                             ELSE dbEC
        /\ EndUpdate(s, 0)
        /\ UNCHANGED used
     \/ /\ Fails
        /\ EndUpdate(s, -1)
        /\ UNCHANGED dbEC
  /\ UNCHANGED <<tab, tables, globals, config, clock>>

(* DelimpERC after an ordinary record, DelordERC after an important one;   *)
(* then a failed saveEvent ends the call.                                  *)
DelERC(s) ==
  LET q == Other(saving[s].prio)
  IN  /\ Calls(s, "other")
      /\ \/ /\ Works
            /\ tab' = [tab EXCEPT ![q] = WithoutErc(@, saving[s].erc)]
         \/ /\ Fails
            /\ UNCHANGED tab
      /\ saving' = [saving EXCEPT ![s] =
           IF saving[s].res < 0 THEN NotSaving ELSE [@ EXCEPT !.pc = "count"]]
      /\ UNCHANGED <<dbEC, tables, sqlite_lock, globals, config, clock>>

(* m_ErcNum[ErcName-1]++ and the answer of the call.                       *)
CountRecord(s) ==
  /\ saving[s].pc = "count"
  /\ ercNum' = [ercNum EXCEPT ![saving[s].erc] = @ + 1]
  /\ saving' = [saving EXCEPT ![s] = NotSaving]
  /\ UNCHANGED <<db, sqlite_lock, ec, config, clock, used>>

SaverStep(s) ==
  \/ \E e \in Saves[s] : Begin(s, e)
  \/ DeleteEvent(s) \/ GetEvent_Num(s) \/ InsertEvent(s)
  \/ UpdateEC(s) \/ UpdateEC_insert(s) \/ DelERC(s) \/ CountRecord(s)
--------------------------------------------------------------------------------
Tick ==
  /\ clock < MaxTime
  /\ clock' = clock + 1
  /\ UNCHANGED <<db, sqlite_lock, globals, config, saving, used>>

(* AFN05 F31: the main station sets the clock, forwards or backwards.      *)
SetClock(t) ==
  /\ May("clocksets")
  /\ Using("clocksets")
  /\ clock' = t
  /\ UNCHANGED <<db, sqlite_lock, globals, config, saving>>

(* AFN04 F9: which kinds are recorded, and in which class.                 *)
SetF9(e, v, p) ==
  /\ <<v, p>> # <<valid[e], rating[e]>>
  /\ May("flags")
  /\ Using("flags")
  /\ valid' = [valid EXCEPT ![e] = v]
  /\ rating' = [rating EXCEPT ![e] = p]
  /\ UNCHANGED <<db, sqlite_lock, globals, clock, saving>>

(* EventDataInit: remove the file, which takes no lock, then create_table. *)
(* The counters in memory keep their values.                               *)
RemoveFile ==
  /\ tables
  /\ May("resets")
  /\ Using("resets")
  /\ tables' = FALSE
  /\ tab' = [p \in Priority |-> {}]
  /\ dbEC' = [p \in Priority |-> {}]
  /\ UNCHANGED <<sqlite_lock, globals, config, clock, saving>>

create_table ==
  /\ ~tables
  /\ sqlite_lock = NoSaver
  /\ tables' = TRUE
  /\ UNCHANGED <<tab, dbEC, sqlite_lock, globals, config, clock, saving, used>>

(* Power failure at any point, and EventInit at the next start.            *)
Restart ==
  /\ May("restarts")
  /\ Using("restarts")
  /\ tables' = TRUE
  /\ sqlite_lock' = NoSaver
  /\ ec' = [p \in Priority |-> GetEC(p)]
  /\ ercNum' = [e \in Erc |-> Recounted(e)]
  /\ saving' = [s \in Saver |-> NotSaving]
  /\ UNCHANGED <<tab, dbEC, config, clock>>

Environment ==
  \/ Tick
  \/ \E t \in 0 .. MaxTime : SetClock(t)
  \/ \E e \in Erc, v \in BOOLEAN, p \in Priority : SetF9(e, v, p)
  \/ RemoveFile \/ create_table
  \/ Restart

Next == (\E s \in Saver : SaverStep(s)) \/ Environment

Spec == Init /\ [][Next]_vars
--------------------------------------------------------------------------------
Row == [rowid : Nat \ {0}, erc : Erc, time : 0 .. MaxTime, report : {0, 1}]

SavedEC == {{}} \cup {{v} : v \in 0 .. EveMax}

Locals == [pc : Label, erc : Erc, prio : Priority, time : 0 .. MaxTime,
           old : Nat, val : 0 .. EveMax, res : {0, -1}]

TypeOK ==
  /\ tab \in [Priority -> SUBSET Row]
  /\ \A p \in Priority : IsFiniteSet(tab[p])
  /\ dbEC \in [Priority -> SavedEC]
  /\ tables \in BOOLEAN
  /\ sqlite_lock \in Saver \cup {NoSaver}
  /\ ec \in [Priority -> 0 .. EveMax]
  /\ ercNum \in [Erc -> Nat]
  /\ valid \in [Erc -> BOOLEAN]
  /\ rating \in [Erc -> Priority]
  /\ clock \in 0 .. MaxTime
  /\ saving \in [Saver -> Locals]
  /\ used \in [Causes -> Nat]

Quiet == \A s \in Saver : saving[s].pc = "idle"

(* "At most ten records of a kind" (EventRecord.h:20), in each class.  As  *)
(* long as no two threads save the same kind and the database works, this  *)
(* survives changes of class in the middle of a save, clock changes,       *)
(* erasure of the file under a save, and restarts.                         *)
ErcBound ==
  \A p \in Priority, e \in Erc : Count(tab[p], e) <= MAX_NUM_EACH_ERC

(* Before a kind is saved, m_ErcNum is not behind the tables, or the save  *)
(* would not evict.                                                        *)
Occupied(e) == \E s \in Saver : saving[s].pc # "idle" /\ saving[s].erc = e

NoUndercount ==
  \A e \in Erc : ~Occupied(e) =>
    \A p \in Priority : Count(tab[p], e) <= ercNum[e]

(* Why ErcBound holds: how m_ErcNum and the tables relate at each point of *)
(* a save.  Between the insert and the count, m_ErcNum is one short.       *)
OneThreadPerKind == \A s, t \in Saver : s # t => Saves[s] \cap Saves[t] = {}
NoFailures == Bound["failures"] = 0

NothingWithoutTables == ~tables => \A p \in Priority : tab[p] = {}

SaveInv(s) ==
  LET pc == saving[s].pc
      e  == saving[s].erc
      n  == Count(tab[saving[s].prio], e)
  IN  /\ pc # "idle" => e \in Saves[s]
      /\ pc \in {"evict", "recount", "insert"} => saving[s].res = 0
      /\ pc \in {"evict", "recount"} => saving[s].old = ercNum[e]
      /\ pc \in {"recount", "insert"} => n < MAX_NUM_EACH_ERC
      /\ pc = "insert" => n <= ercNum[e]
      /\ pc \in {"ec1", "ec1_insert", "ec2", "ec2_insert", "other", "count"} =>
           n <= ercNum[e] + 1
      /\ pc \in {"ec1", "ec1_insert", "ec2", "ec2_insert", "other"} /\ saving[s].res = -1 =>
           n = 0
      /\ pc = "count" => Count(tab[Other(saving[s].prio)], e) = 0

StoreInv ==
  /\ ErcBound
  /\ NoUndercount
  /\ NothingWithoutTables
  /\ \A s \in Saver : SaveInv(s)

(* So far none of these causes has occurred.                               *)
Without(causes) == \A c \in causes : used[c] = 0

(* Between saves the persisted counters are the ones in memory, unless the *)
(* power failed between the two statements of UpdateEC, a call failed, or  *)
(* the file was erased.                                                    *)
EcPersisted ==
  Without({"restarts", "resets", "failures"}) /\ Quiet =>
    \A p \in Priority : GetEC(p) = ec[p]

(* The counters count events: there are never more records of a class than *)
(* its counter says, until the counter stops at EveMax.  A power failure   *)
(* between the insert and the counter ends this.                           *)
EcCoversRecords ==
  Without({"restarts"}) =>
    \A p \in Priority : Cardinality(tab[p]) <= ec[p] \/ ec[p] = EveMax

(* EC1 and EC2, which the station compares to see whether it has missed    *)
(* events, can be relied on: in the file they are what memory says, and    *)
(* they cover every record there is.                                       *)
CountersSound == EcPersisted /\ EcCoversRecords

(* saveEventFile is about to answer 0: the record is in the table of its   *)
(* class, and the other class has none of the kind.  saveEvent ignores the *)
(* result of the insert, so this is lost when a call fails.                *)
SavedIsStored ==
  Without({"resets", "failures"}) =>
    \A s \in Saver : saving[s].pc = "count" =>
      /\ \E r \in Rows(tab[saving[s].prio], saving[s].erc) : r.time = saving[s].time
      /\ Rows(tab[Other(saving[s].prio)], saving[s].erc) = {}

(* The records that a step takes out of the table of class p.              *)
Gone(p) == tab[p] \ tab'[p]

(* "Delete the earliest": while the clock runs forward, what an eviction   *)
(* removes was saved before everything of the kind that stays.             *)
OldestGoes ==
  Without({"clocksets"}) =>
    \A p \in Priority : \A g \in Gone(p), k \in tab[p] \cap tab'[p] :
      g.erc = k.erc => g.rowid < k.rowid

(* "When there are more than ten of a kind" (EventRecord.c:199): a save    *)
(* evicts only from a full kind, or drops a kind from the class that it    *)
(* has left.  m_ErcNum is one number for both classes: once F9 has moved a *)
(* kind, a call failed, or the file was erased under a save, a table that  *)
(* is not full is evicted from.                                            *)
GoesWhenFull ==
  Without({"flags", "failures", "resets"}) =>
    \A p \in Priority : \A g \in Gone(p) :
      \/ Count(tab[p], g.erc) >= MAX_NUM_EACH_ERC
      \/ \E s \in Saver : saving[s].pc = "other" /\ saving[s].erc = g.erc
      \/ ~tables'

(* What a save may take away: the earliest record of a full kind.          *)
EvictsOldestOfFull == [][OldestGoes /\ GoesWhenFull]_vars
================================================================================
