------------------------------- MODULE SqlRow -------------------------------
(* sqlite_wrap.c as a caller of it sees it: queries, and the row objects that*)
(* walk over what they return.  A statement is a place where SQLite keeps a  *)
(* prepared query; how SQLite answers is any of the ways it can.             *)
EXTENDS Integers, Sequences, FiniteSets

CONSTANTS
  RowObjects,    \* the sqlRow variables of the caller
  Statements,    \* places for prepared statements
  Results,       \* what queries return: sequences of rows of columns
  SQL_MAX_SPEC,  \* most specifiers in a query: 32
  Memory,        \* integers that uninitialized memory may hold
  MaxRowid,      \* bound of the row ids that insertions give
  NONE           \* a NULL pointer

ASSUME RowAssumption ==
  /\ NONE \notin Statements \cup RowObjects
  /\ Results \subseteq Seq(Seq([type : {"INTEGER", "FLOAT", "TEXT", "BLOB", "NULL"}, n : Nat]))
  /\ \A result \in Results : \A k \in DOMAIN result : result[k] # <<>>
  /\ SQL_MAX_SPEC \in Nat /\ MaxRowid \in Nat /\ Memory \subseteq Int

VARIABLES
  stmt,       \* of each row object, NONE before its first query too
  col,        \* the column array of each row object: its columns, or NONE
  prepared,   \* the statements not finalized: their result and how many rows were stepped to
  arrays,     \* how many column arrays are allocated
  given,      \* numbers of the rows that a row object has shown since its query
  lastRowid,  \* row id of the latest insertion
  returned    \* what the latest call returned, and what it was about

row_vars == <<stmt, col, prepared, arrays, given, lastRowid, returned>>

Returns(fn, value, result) == returned' = [fn |-> fn, value |-> value, result |-> result]
NoArray == [allocated |-> FALSE, columns |-> <<>>]
Array_(columns) == [allocated |-> TRUE, columns |-> columns]
NotPrepared == [open |-> FALSE, result |-> <<>>, at |-> 0]

-----------------------------------------------------------------------------
(* SQLite.  A step goes to the next row, or finds that there is none, or     *)
(* fails; a finalized statement is gone.                                     *)
StepOutcomes(p) ==
  {IF p.at < Len(p.result) THEN "ROW" ELSE "DONE", "BUSY"}
Stepped(p, rc) == IF rc = "ROW" THEN [p EXCEPT !.at = @ + 1] ELSE p

(* How a query can go: too many specifiers, some trouble - a specifier there *)
(* is not, or an error of SQLite at any of its calls -, or the outcome of    *)
(* the first step.                                                           *)
Outcome(specifiers, trouble, result) ==
  IF specifiers > SQL_MAX_SPEC \/ trouble THEN "ERROR"
  ELSE IF result = <<>> THEN "DONE" ELSE "ROW"

(* What a column's type leaves in its fields: i may be what was in memory.   *)
ColumnNullUnset(v) ==
  CASE v.type \in {"INTEGER", "TEXT", "BLOB"} -> [type |-> v.type, i |-> {v.n}]
    [] OTHER -> [type |-> v.type, i |-> Memory]

Column(v) ==
  CASE v.type \in {"INTEGER", "TEXT", "BLOB"} -> [type |-> v.type, i |-> {v.n}]
    [] v.type = "FLOAT" -> [type |-> v.type, i |-> Memory]
    [] v.type = "NULL" -> [type |-> v.type, i |-> {0}]

Columns(row) == [j \in DOMAIN row |-> Column(row[j])]

-----------------------------------------------------------------------------
RowInit ==
  /\ stmt = [r \in RowObjects |-> NONE]
  /\ col = [r \in RowObjects |-> NoArray]
  /\ prepared = [s \in Statements |-> NotPrepared]
  /\ arrays = 0
  /\ given = [r \in RowObjects |-> <<>>]
  /\ lastRowid = 0
  /\ returned = [fn |-> "none", value |-> 0, result |-> <<>>]

(* A query.  The statement it prepares goes to the row object, if there is a *)
(* row and the caller gave an object; if not, it is finalized in the end, at *)
(* whatever point the function left off.                                     *)
sqlGenericQuery(r, s, rc, result) ==
  LET keeps == rc = "ROW" /\ r # NONE
  IN  /\ ~prepared[s].open
      /\ stmt' = [q \in RowObjects |-> IF q # r THEN stmt[q] ELSE IF keeps THEN s ELSE NONE]
      /\ col' = [q \in RowObjects |-> IF q = r /\ keeps THEN NoArray ELSE col[q]]
      /\ prepared' = [prepared EXCEPT ![s] =
                        IF keeps THEN [open |-> TRUE, result |-> result, at |-> 1]
                        ELSE NotPrepared]

(* A row object may be used again once its statement is finalized.           *)
sqlSelect(r, s, specifiers, trouble, result) ==
  LET rc == Outcome(specifiers, trouble, result)
  IN  /\ stmt[r] = NONE
      /\ sqlGenericQuery(r, s, rc, result)
      /\ given' = [given EXCEPT ![r] = <<>>]
      /\ Returns("sqlSelect", rc, result)
      /\ UNCHANGED <<arrays, lastRowid>>

(* The row object after sqlEnd(), and the statement.                         *)
EndKeepsStatement(r) ==
  /\ arrays' = IF col[r].allocated THEN arrays - 1 ELSE arrays
  /\ prepared' = [prepared EXCEPT ![stmt[r]] = NotPrepared]
  /\ col' = [col EXCEPT ![r] = NoArray]
  /\ stmt' = stmt

End(r) ==
  /\ arrays' = IF col[r].allocated THEN arrays - 1 ELSE arrays
  /\ prepared' = [prepared EXCEPT ![stmt[r]] = NotPrepared]
  /\ col' = [col EXCEPT ![r] = NoArray]
  /\ stmt' = [stmt EXCEPT ![r] = NONE]

(* For a row object that has no statement, this and sqlNextRow() do nothing. *)
sqlEnd(r) ==
  /\ stmt[r] # NONE
  /\ End(r)
  /\ Returns("sqlEnd", 0, <<>>)
  /\ UNCHANGED <<given, lastRowid>>

(* The columns of the row that the statement p has come to.                  *)
Show(r, p) ==
  /\ arrays' = (IF col[r].allocated THEN arrays - 1 ELSE arrays) + 1
  /\ col' = [col EXCEPT ![r] = Array_(Columns(p.result[p.at]))]
  /\ prepared' = [prepared EXCEPT ![stmt[r]] = p]
  /\ given' = [given EXCEPT ![r] = Append(@, p.at)]
  /\ UNCHANGED stmt

(* The first row was stepped to by the query, before there was an array.     *)
StepsEachTime(r) == TRUE

Steps(r) == col[r].allocated

sqlNextRow(r) ==
  LET p == prepared[stmt[r]]
  IN  /\ stmt[r] # NONE
      /\ \/ ~Steps(r) /\ Show(r, p) /\ Returns("sqlNextRow", 1, p.result)
         \/ /\ Steps(r)
            /\ \E rc \in StepOutcomes(p) :
                 IF rc = "ROW"
                 THEN Show(r, Stepped(p, rc)) /\ Returns("sqlNextRow", 1, p.result)
                 ELSE /\ End(r) /\ UNCHANGED given
                      /\ Returns(IF rc = "DONE" THEN "sqlNextRow" ELSE "sqlNextRow failed",
                                 0, p.result)
      /\ UNCHANGED lastRowid

(* With one row the array is allocated at once.                              *)
sqlSelectOneRow(r, s, specifiers, trouble, result) ==
  LET rc == Outcome(specifiers, trouble, result)
  IN  /\ stmt[r] = NONE
      /\ IF rc = "ROW"
         THEN /\ ~prepared[s].open
              /\ stmt' = [stmt EXCEPT ![r] = s]
              /\ prepared' = [prepared EXCEPT ![s] = [open |-> TRUE, result |-> result, at |-> 1]]
              /\ col' = [col EXCEPT ![r] = Array_(Columns(result[1]))]
              /\ arrays' = arrays + 1
              /\ given' = [given EXCEPT ![r] = <<1>>]
         ELSE /\ sqlGenericQuery(r, s, rc, result)
              /\ given' = [given EXCEPT ![r] = <<>>]
              /\ UNCHANGED arrays
      /\ Returns("sqlSelectOneRow", rc, result)
      /\ UNCHANGED lastRowid

(* Its row object is its own, and ended before it returns.                   *)
sqlSelectInt(s, specifiers, trouble, result) ==
  LET rc == Outcome(specifiers, trouble, result)
  IN  /\ ~prepared[s].open
      /\ \E i \in IF rc = "ROW" THEN Columns(result[1])[1].i ELSE {0} :
           Returns(IF rc = "ERROR" THEN "sqlSelectInt failed" ELSE "sqlSelectInt", i, result)
      /\ UNCHANGED <<stmt, col, prepared, arrays, given, lastRowid>>

(* sqlInsert() returns the row id, sqlQuery() that the statement was done; a *)
(* statement that returns a row counts as failed, though it was carried out. *)
sqlInsert(s, specifiers, trouble, result) ==
  LET rc == Outcome(specifiers, trouble, result)
  IN  /\ sqlGenericQuery(NONE, s, rc, result)
      /\ lastRowid < MaxRowid
      /\ lastRowid' = IF rc = "ERROR" THEN lastRowid ELSE lastRowid + 1
      /\ Returns("sqlInsert", IF rc = "DONE" THEN lastRowid' ELSE 0, result)
      /\ UNCHANGED <<arrays, given>>

sqlQuery(s, specifiers, trouble, result) ==
  LET rc == Outcome(specifiers, trouble, result)
  IN  /\ sqlGenericQuery(NONE, s, rc, result)
      /\ Returns("sqlQuery", IF rc = "DONE" THEN 1 ELSE 0, result)
      /\ UNCHANGED <<arrays, given, lastRowid>>

RowNext ==
  \/ \E specifiers \in {SQL_MAX_SPEC, SQL_MAX_SPEC + 1}, trouble \in BOOLEAN,
        result \in Results, s \in Statements :
       \/ \E r \in RowObjects :
            \/ sqlSelect(r, s, specifiers, trouble, result)
            \/ sqlSelectOneRow(r, s, specifiers, trouble, result)
       \/ sqlSelectInt(s, specifiers, trouble, result)
       \/ sqlInsert(s, specifiers, trouble, result)
       \/ sqlQuery(s, specifiers, trouble, result)
  \/ \E r \in RowObjects : sqlEnd(r) \/ sqlNextRow(r)

RowSpec == RowInit /\ [][RowNext]_row_vars

-----------------------------------------------------------------------------
(* Every statement that is not finalized belongs to one row object, and a row*)
(* object points only to such a statement: none is finalized twice, used     *)
(* after that or lost, whatever failed; and the same for column arrays.      *)
StatementsOwned ==
  /\ \A s \in Statements :
       Cardinality({r \in RowObjects : stmt[r] = s}) = IF prepared[s].open THEN 1 ELSE 0
  /\ \A r \in RowObjects : col[r].allocated => stmt[r] # NONE
  /\ arrays = Cardinality({r \in RowObjects : col[r].allocated})

(* A row object shows the rows of its query in order, none twice and none    *)
(* left out from the first on, its columns are those of the row shown last,  *)
(* and an end that is not due to an error comes after all of them.           *)
RowsInOrder ==
  /\ \A r \in RowObjects :
       LET n == Len(given[r])
       IN  /\ given[r] = [k \in 1 .. n |-> k]
           /\ stmt[r] # NONE /\ col[r].allocated =>
                col[r].columns = Columns(prepared[stmt[r]].result[n])
  /\ returned.fn = "sqlNextRow" /\ returned.value = 0 =>
       \E r \in RowObjects : stmt[r] = NONE /\ Len(given[r]) = Len(returned.result)

(* sqlSelectInt() returns the integer of the first column of the first row,  *)
(* and 0 for NULL, for no row and on an error; for a text or a blob it is the*)
(* length, and for a real number anything.                                   *)
SelectIntTrue ==
  /\ returned.fn = "sqlSelectInt failed" => returned.value = 0
  /\ returned.fn = "sqlSelectInt" =>
       LET first == returned.result[1][1]
       IN  IF returned.result = <<>> THEN returned.value = 0
           ELSE CASE first.type = "NULL" -> returned.value = 0
                  [] first.type = "FLOAT" -> returned.value \in Memory
                  [] OTHER -> returned.value = first.n
=============================================================================
