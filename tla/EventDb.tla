--------------------------------- MODULE EventDb ---------------------------------
(***************************************************************************)
(* The two event tables of the terminal's SQLite database, as the          *)
(* statements of SQLite.c read and change them.  A table is a set of rows  *)
(* [rowid, erc, time, report]; a SELECT without ORDER BY walks it in rowid *)
(* order.  SQLite gives a new row the largest rowid plus one.  The event   *)
(* text ("data") of a row is left out: rows differ in their rowid.         *)
(***************************************************************************)
EXTENDS Integers, FiniteSets, FiniteSetsExt

(* The rows of one kind of event.                                          *)
Rows(T, e) == {r \in T : r.erc = e}

Count(T, e) == Cardinality(Rows(T, e))

(* "insert into ... values(...)": InsertImportanceEvent,                   *)
(* InsertordinaryEvent.                                                    *)
FreshId(T) == IF T = {} THEN 1 ELSE 1 + Max({r.rowid : r \in T})

Inserted(T, e, t, flag) ==
  T \cup {[rowid |-> FreshId(T), erc |-> e, time |-> t, report |-> flag]}

(* "delete ... where ERC=e and time = (select min(time) ... where ERC=e)": *)
(* every row of the kind that carries the smallest time.                   *)
Oldest(T, e) == {r \in Rows(T, e) : \A q \in Rows(T, e) : r.time <= q.time}

WithoutOldest(T, e) == T \ Oldest(T, e)

(* "delete ... where ERC == e": DelimpERC, DelordERC.                      *)
WithoutErc(T, e) == T \ Rows(T, e)

(* The row that "select ... limit i, 1" answers, counting from 0.          *)
RowsBefore(T, r) == {q \in T : q.rowid < r.rowid}

RowAt(T, i) == CHOOSE r \in T : Cardinality(RowsBefore(T, r)) = i

(* GetEventRow: the Report column in rowid order, into an array of n.      *)
ReportFlags(T, n) ==
  [i \in 0 .. n - 1 |-> IF i < Cardinality(T) THEN RowAt(T, i).report ELSE 0]

(* UpdateEventRow(i): of "select rowid ... limit 0, i + 1" the last rowid  *)
(* counts, so a table of fewer rows has its last row updated, and an empty *)
(* one none.                                                               *)
Unflagged_next(T, i) ==
  IF T = {} THEN T
  ELSE LET last == RowAt(T, IF i + 1 < Cardinality(T) THEN i + 1 ELSE Cardinality(T) - 1)
       IN  (T \ {last}) \cup {[last EXCEPT !.report = 0]}

Unflagged(T, i) ==
  IF T = {} THEN T
  ELSE LET last == RowAt(T, IF i < Cardinality(T) THEN i ELSE Cardinality(T) - 1)
       IN  (T \ {last}) \cup {[last EXCEPT !.report = 0]}
================================================================================
