--------------------------- MODULE SqlRow_proofs ---------------------------
(***************************************************************************)
(* Proofs about SqlRow for any number of row objects and statements and    *)
(* any results: who owns a statement, that rows come in order, and what    *)
(* sqlSelectInt() returns.                                                 *)
(***************************************************************************)
EXTENDS SqlRow, FiniteSetTheorems, TLAPS

(* Every variable has its type.                                              *)
ColumnTables ==
  {<<>>} \cup UNION {{Columns(result[k]) : k \in DOMAIN result} : result \in Results}

RowTypeOK ==
  /\ stmt \in [RowObjects -> Statements \cup {NONE}]
  /\ col \in [RowObjects -> [allocated : BOOLEAN, columns : ColumnTables]]
  /\ prepared \in [Statements ->
                     [open : BOOLEAN, result : Results \cup {<<>>}, at : Nat]]
  /\ arrays \in Nat
  /\ given \in [RowObjects -> Seq(Nat)]
  /\ lastRowid \in 0 .. MaxRowid

(* A statement that is open has an owner, which has an open statement and    *)
(* shares it with nobody.                                                    *)
HasOwner(s) == prepared[s].open => \E r \in RowObjects : stmt[r] = s
OwnsOpen(r) == stmt[r] # NONE => prepared[stmt[r]].open
OwnsAlone(r) ==
  \A q \in RowObjects : stmt[r] # NONE /\ stmt[q] = stmt[r] => q = r

(* The column arrays that are there, and no others, are counted.             *)
WithArray == {r \in RowObjects : col[r].allocated}
ArraysCounted == IsFiniteSet(WithArray) /\ arrays = Cardinality(WithArray)

(* A row object has shown the rows up to the one its statement is at, or is  *)
(* still before the first, which the query has stepped to; the array holds   *)
(* the columns of that row.                                                  *)
AtItsRow(r) ==
  LET p == prepared[stmt[r]]
  IN  IF stmt[r] = NONE THEN ~col[r].allocated
      ELSE /\ p.result \in Results /\ p.at \in 1 .. Len(p.result)
           /\ IF col[r].allocated
              THEN Len(given[r]) = p.at /\ col[r].columns = Columns(p.result[p.at])
              ELSE Len(given[r]) = 0 /\ p.at = 1

GivenInOrder(r) == given[r] = [k \in 1 .. Len(given[r]) |-> k]

(* An end that is not due to an error comes after all rows.                  *)
EndsAfterAll ==
  returned.fn = "sqlNextRow" /\ returned.value = 0 =>
    \E r \in RowObjects : stmt[r] = NONE /\ Len(given[r]) = Len(returned.result)

ObjectInv(r) == OwnsOpen(r) /\ OwnsAlone(r) /\ AtItsRow(r) /\ GivenInOrder(r)

RowInv ==
  /\ RowTypeOK
  /\ \A s \in Statements : HasOwner(s)
  /\ \A r \in RowObjects : ObjectInv(r)
  /\ ArraysCounted

IInv == RowInv /\ EndsAfterAll /\ SelectIntTrue

-----------------------------------------------------------------------------
(* What the invariants are about, from the inductive one.                    *)
LEMMA OwnedFromIInv == IInv => StatementsOwned
<1> SUFFICES ASSUME IInv PROVE StatementsOwned
  OBVIOUS
<1> USE RowAssumption DEF IInv, RowInv, RowTypeOK
<1>1. ASSUME NEW s \in Statements
      PROVE  Cardinality({r \in RowObjects : stmt[r] = s})
               = IF prepared[s].open THEN 1 ELSE 0
  <2>1. CASE prepared[s].open
    <3>1. PICK r \in RowObjects : stmt[r] = s
      BY <2>1 DEF HasOwner
    <3>2. {q \in RowObjects : stmt[q] = s} = {r}
      BY <3>1 DEF ObjectInv, OwnsAlone
    <3> QED BY <2>1, <3>2, FS_Singleton
  <2>2. CASE ~prepared[s].open
    <3>1. {q \in RowObjects : stmt[q] = s} = {}
      BY <2>2 DEF ObjectInv, OwnsOpen
    <3> QED BY <2>2, <3>1, FS_EmptySet
  <2> QED BY <2>1, <2>2
<1>2. \A r \in RowObjects : col[r].allocated => stmt[r] # NONE
  BY DEF ObjectInv, AtItsRow
<1> QED BY <1>1, <1>2 DEF StatementsOwned, ArraysCounted, WithArray

LEMMA OrderFromIInv == IInv => RowsInOrder
BY DEF IInv, RowInv, ObjectInv, GivenInOrder, AtItsRow, RowsInOrder, EndsAfterAll

LEMMA InitIInv == RowInit => IInv
<1> SUFFICES ASSUME RowInit PROVE IInv
  OBVIOUS
<1> USE RowAssumption DEF RowInit
<1>1. WithArray = {}
  BY DEF WithArray, NoArray
<1>2. ArraysCounted
  BY <1>1, FS_EmptySet DEF ArraysCounted
<1>3. RowTypeOK
  BY DEF RowTypeOK, NoArray, NotPrepared, ColumnTables
<1>4. \A s \in Statements : HasOwner(s)
  BY DEF HasOwner, NotPrepared
<1>5. \A r \in RowObjects : ObjectInv(r)
  BY DEF ObjectInv, OwnsOpen, OwnsAlone, AtItsRow, GivenInOrder, NoArray
<1> QED BY <1>2, <1>3, <1>4, <1>5 DEF IInv, RowInv, EndsAfterAll, SelectIntTrue

-----------------------------------------------------------------------------
LEMMA EmptyIsSeq ==
  /\ <<>> \in Seq(Nat) /\ Len(<<>>) = 0 /\ <<>> = [k \in 1 .. 0 |-> k]
  /\ <<1>> \in Seq(Nat) /\ Len(<<1>>) = 1 /\ <<1>> = [k \in 1 .. 1 |-> k]
OBVIOUS

(* What a step does to the rows is one of four things: nothing but clear the *)
(* place of a statement that is not open, ...                                *)
LEMMA NothingKept ==
  ASSUME RowInv, NEW s \in Statements, ~prepared[s].open,
         UNCHANGED <<stmt, col, arrays>>,
         prepared' = [prepared EXCEPT ![s] = NotPrepared],
         lastRowid' \in 0 .. MaxRowid,
         \/ given' = given
         \/ \E r \in RowObjects : stmt[r] = NONE /\ given' = [given EXCEPT ![r] = <<>>]
  PROVE  RowInv'
<1> USE RowAssumption DEF RowInv, RowTypeOK
<1>1. RowTypeOK'
  <2>1. prepared' \in [Statements ->
                         [open : BOOLEAN, result : Results \cup {<<>>}, at : Nat]]
    BY DEF NotPrepared
  <2>2. given' \in [RowObjects -> Seq(Nat)]
    BY EmptyIsSeq
  <2> QED BY <2>1, <2>2
<1>2. ASSUME NEW t \in Statements PROVE HasOwner(t)'
  BY DEF HasOwner, NotPrepared
<1>3. ASSUME NEW r \in RowObjects PROVE ObjectInv(r)'
  <2>1. ObjectInv(r) /\ stmt[r] # s
    BY DEF ObjectInv, OwnsOpen
  <2>2. stmt[r] # NONE => prepared'[stmt[r]] = prepared[stmt[r]] /\ given'[r] = given[r]
    BY <2>1
  <2>3. given'[r] = given[r] \/ given'[r] = <<>>
    OBVIOUS
  <2>4. OwnsOpen(r)' /\ OwnsAlone(r)' /\ AtItsRow(r)'
    BY <2>1, <2>2 DEF ObjectInv, OwnsOpen, OwnsAlone, AtItsRow
  <2>5. GivenInOrder(r)'
    BY <2>1, <2>3, EmptyIsSeq DEF ObjectInv, GivenInOrder
  <2> QED BY <2>4, <2>5 DEF ObjectInv
<1>4. ArraysCounted'
  BY DEF ArraysCounted, WithArray
<1> QED BY <1>1, <1>2, <1>3, <1>4

(* ... give a new statement to a row object that has none, which shows       *)
(* nothing yet or the first row, ...                                         *)
LEMMA StatementKept ==
  ASSUME RowInv, NEW s \in Statements, ~prepared[s].open,
         NEW r \in RowObjects, stmt[r] = NONE,
         NEW result \in Results, result # <<>>,
         stmt' = [stmt EXCEPT ![r] = s],
         prepared' = [prepared EXCEPT ![s] = [open |-> TRUE, result |-> result, at |-> 1]],
         UNCHANGED lastRowid,
         \/ /\ col' = [col EXCEPT ![r] = NoArray]
            /\ given' = [given EXCEPT ![r] = <<>>]
            /\ arrays' = arrays
         \/ /\ col' = [col EXCEPT ![r] = Array_(Columns(result[1]))]
            /\ given' = [given EXCEPT ![r] = << 1 >>]
            /\ arrays' = arrays + 1
  PROVE  RowInv'
<1> USE RowAssumption DEF RowInv, RowTypeOK
<1>1. Len(result) \in Nat /\ 1 \in 1 .. Len(result) /\ 1 \in DOMAIN result
  OBVIOUS
<1>2. Columns(result[1]) \in ColumnTables
  BY <1>1 DEF ColumnTables
<1>3. RowTypeOK'
  <2>1. prepared' \in [Statements ->
                         [open : BOOLEAN, result : Results \cup {<<>>}, at : Nat]]
    OBVIOUS
  <2>2. given' \in [RowObjects -> Seq(Nat)] /\ arrays' \in Nat
    <3>1. PICK g \in {<<>>, <<1>>} : given' = [given EXCEPT ![r] = g]
      OBVIOUS
    <3>2. g \in Seq(Nat)
      BY EmptyIsSeq
    <3>3. given' \in [RowObjects -> Seq(Nat)]
      BY <3>1, <3>2
    <3>4. arrays' = arrays \/ arrays' = arrays + 1
      OBVIOUS
    <3>5. arrays' \in Nat
      BY ONLY <3>4, arrays \in Nat
    <3> QED BY <3>3, <3>5
  <2>3. /\ NoArray \in [allocated : BOOLEAN, columns : ColumnTables]
        /\ Array_(Columns(result[1])) \in [allocated : BOOLEAN, columns : ColumnTables]
    BY <1>2 DEF NoArray, Array_, ColumnTables
  <2>4. col' \in [RowObjects -> [allocated : BOOLEAN, columns : ColumnTables]]
    BY <2>3
  <2> QED BY <2>1, <2>2, <2>4
<1>4. ASSUME NEW t \in Statements PROVE HasOwner(t)'
  <2>1. CASE t = s
    BY <2>1 DEF HasOwner
  <2>2. CASE t # s
    <3>1. prepared'[t].open => \E q \in RowObjects \ {r} : stmt[q] = t
      BY <2>2 DEF HasOwner
    <3> QED BY <3>1 DEF HasOwner
  <2> QED BY <2>1, <2>2
<1>5. ASSUME NEW q \in RowObjects PROVE ObjectInv(q)'
  <2>1. ObjectInv(q) /\ stmt[q] # s
    BY DEF ObjectInv, OwnsOpen
  <2>2. CASE q # r
    <3>1. stmt'[q] = stmt[q] /\ col'[q] = col[q] /\ given'[q] = given[q]
          /\ (stmt[q] # NONE => prepared'[stmt[q]] = prepared[stmt[q]])
      BY <2>1, <2>2
    <3> QED
      BY <2>1, <2>2, <3>1
         DEF ObjectInv, OwnsOpen, OwnsAlone, AtItsRow, GivenInOrder
  <2>3. CASE q = r
    <3>1. stmt'[r] = s /\ prepared'[s] = [open |-> TRUE, result |-> result, at |-> 1]
      OBVIOUS
    <3>2. OwnsOpen(r)' /\ OwnsAlone(r)'
      BY <3>1 DEF OwnsOpen, OwnsAlone, ObjectInv
    <3>3. \/ col'[r] = NoArray /\ given'[r] = <<>>
          \/ col'[r] = Array_(Columns(result[1])) /\ given'[r] = <<1>>
      OBVIOUS
    <3>4. AtItsRow(r)'
      BY <1>1, <3>1, <3>3 DEF AtItsRow, NoArray, Array_
    <3>5. GivenInOrder(r)'
      BY <3>3 DEF GivenInOrder
    <3> QED BY <2>3, <3>2, <3>4, <3>5 DEF ObjectInv
  <2> QED BY <2>2, <2>3
<1>6. ArraysCounted'
  <2>1. ~col[r].allocated /\ r \notin WithArray
    BY DEF ObjectInv, AtItsRow, WithArray
  <2>2. CASE col' = [col EXCEPT ![r] = NoArray] /\ arrays' = arrays
    <3>1. WithArray' = WithArray
      BY <2>1, <2>2 DEF WithArray, NoArray
    <3> QED BY <2>2, <3>1 DEF ArraysCounted
  <2>3. CASE col' = [col EXCEPT ![r] = Array_(Columns(result[1]))] /\ arrays' = arrays + 1
    <3>1. WithArray' = WithArray \cup {r}
      BY <2>1, <2>3 DEF WithArray, Array_
    <3> QED BY <2>1, <2>3, <3>1, FS_AddElement DEF ArraysCounted
  <2> QED BY <2>2, <2>3
<1> QED BY <1>3, <1>4, <1>5, <1>6

(* ... show the row that the statement has come to, the first or the next,   *)
LEMMA RowShown ==
  ASSUME RowInv, NEW r \in RowObjects, stmt[r] # NONE, NEW p,
         Show(r, p), UNCHANGED lastRowid,
         \/ ~col[r].allocated /\ p = prepared[stmt[r]]
         \/ /\ col[r].allocated /\ prepared[stmt[r]].at < Len(prepared[stmt[r]].result)
            /\ p = [prepared[stmt[r]] EXCEPT !.at = @ + 1]
  PROVE  RowInv'
<1> USE RowAssumption DEF RowInv, RowTypeOK, Show
<1> DEFINE s == stmt[r]
<1>1. s \in Statements /\ ObjectInv(r)
  OBVIOUS
<1>2. /\ p.open /\ p.result = prepared[s].result /\ p.result \in Results
      /\ p.at \in 1 .. Len(p.result) /\ p.at = Len(given[r]) + 1
      /\ p \in [open : BOOLEAN, result : Results \cup {<<>>}, at : Nat]
  <2>1. /\ prepared[s] \in [open : BOOLEAN, result : Results \cup {<<>>}, at : Nat]
        /\ prepared[s].open /\ prepared[s].result \in Results
        /\ prepared[s].at \in 1 .. Len(prepared[s].result)
        /\ Len(prepared[s].result) \in Nat
        /\ Len(given[r]) = IF col[r].allocated THEN prepared[s].at ELSE 0
        /\ ~col[r].allocated => prepared[s].at = 1
    BY <1>1 DEF ObjectInv, AtItsRow, OwnsOpen
  <2>2. CASE p = prepared[s] /\ ~col[r].allocated
    BY <2>1, <2>2
  <2>3. CASE col[r].allocated /\ prepared[s].at < Len(prepared[s].result)
    <3>1. p = [prepared[s] EXCEPT !.at = prepared[s].at + 1]
      BY <2>3
    <3>2. p.open = prepared[s].open
      BY ONLY <2>1, <3>1
    <3>3. p.result = prepared[s].result
      BY ONLY <2>1, <3>1
    <3>4. p.at = prepared[s].at + 1
      BY ONLY <2>1, <3>1
    <3>5. p \in [open : BOOLEAN, result : Results \cup {<<>>}, at : Nat]
      BY ONLY <2>1, <3>1
    <3>6. p.at \in 1 .. Len(p.result)
      BY ONLY <2>1, <2>3, <3>3, <3>4
    <3>7. p.at = Len(given[r]) + 1
      BY ONLY <2>1, <2>3, <3>4
    <3> QED BY <2>1, <3>2, <3>3, <3>5, <3>6, <3>7
  <2> QED BY <2>2, <2>3
<1>3. Columns(p.result[p.at]) \in ColumnTables
  BY <1>2 DEF ColumnTables
<1>4. arrays' = IF col[r].allocated THEN arrays ELSE arrays + 1
  OBVIOUS
<1>5. RowTypeOK'
  BY <1>1, <1>2, <1>3, <1>4, SMTT(30) DEF Array_
<1>6. ASSUME NEW t \in Statements PROVE HasOwner(t)'
  BY <1>1, <1>2 DEF HasOwner
<1>7. ASSUME NEW q \in RowObjects PROVE ObjectInv(q)'
  <2>1. ObjectInv(q)
    OBVIOUS
  <2>2. CASE q # r
    <3>1. stmt[q] # NONE => stmt[q] # s
      BY <2>1, <2>2 DEF ObjectInv, OwnsAlone
    <3>2. stmt'[q] = stmt[q] /\ col'[q] = col[q] /\ given'[q] = given[q]
          /\ (stmt[q] # NONE => prepared'[stmt[q]] = prepared[stmt[q]])
      BY <2>2, <3>1
    <3> QED
      BY <2>1, <2>2, <3>2, SMTT(30)
         DEF ObjectInv, OwnsOpen, OwnsAlone, AtItsRow, GivenInOrder
  <2>3. CASE q = r
    <3>1. stmt'[r] = s /\ prepared'[s] = p /\ col'[r] = Array_(Columns(p.result[p.at]))
      BY <1>1
    <3>2. OwnsOpen(r)' /\ OwnsAlone(r)'
      BY <1>1, <1>2, <3>1 DEF OwnsOpen, OwnsAlone, ObjectInv
    <3>3. given'[r] = Append(given[r], p.at) /\ given[r] \in Seq(Nat)
      OBVIOUS
    <3>4. Len(given'[r]) = p.at
      BY <1>2, <3>3
    <3>5. AtItsRow(r)'
      BY <1>2, <3>1, <3>4 DEF AtItsRow, Array_
    <3>6. GivenInOrder(r)'
      <4>1. given[r] = [k \in 1 .. Len(given[r]) |-> k] /\ Len(given[r]) \in Nat
        BY <1>1 DEF ObjectInv, GivenInOrder
      <4>2. Append(given[r], p.at) = [k \in 1 .. p.at |-> k]
        BY ONLY <4>1, <1>2, <3>3
      <4> QED BY <3>3, <3>4, <4>2 DEF GivenInOrder
    <3> QED BY <2>3, <3>2, <3>5, <3>6 DEF ObjectInv
  <2> QED BY <2>2, <2>3
<1>8. ArraysCounted'
  <2>1. WithArray' = WithArray \cup {r} /\ (r \in WithArray <=> col[r].allocated)
    BY DEF WithArray, Array_
  <2> QED BY <1>4, <2>1, FS_AddElement DEF ArraysCounted
<1> QED BY <1>5, <1>6, <1>7, <1>8

(* ... or end.                                                               *)
LEMMA RowsEnded ==
  ASSUME RowInv, NEW r \in RowObjects, stmt[r] # NONE, End(r),
         UNCHANGED <<given, lastRowid>>
  PROVE  RowInv'
<1> USE RowAssumption DEF RowInv, RowTypeOK, End
<1> DEFINE s == stmt[r]
<1>1. s \in Statements /\ ObjectInv(r)
  OBVIOUS
<1>2. WithArray' = WithArray \ {r} /\ (r \in WithArray <=> col[r].allocated)
  BY DEF WithArray, NoArray
<1>3. ArraysCounted' /\ arrays' \in Nat
  <2>1. IsFiniteSet(WithArray) /\ arrays = Cardinality(WithArray)
    BY DEF ArraysCounted
  <2>2. IsFiniteSet(WithArray') /\ arrays' = Cardinality(WithArray')
    BY <1>2, <2>1, FS_RemoveElement
  <2> QED BY <2>2, FS_CardinalityType DEF ArraysCounted
<1>4. RowTypeOK'
  BY <1>1, <1>3 DEF NoArray, NotPrepared, ColumnTables
<1>5. ASSUME NEW t \in Statements PROVE HasOwner(t)'
  <2>1. CASE t = s
    BY <2>1, <1>1 DEF HasOwner, NotPrepared
  <2>2. CASE t # s
    <3>1. prepared'[t].open => \E q \in RowObjects \ {r} : stmt[q] = t
      BY <2>2, <1>1 DEF HasOwner
    <3> QED BY <3>1 DEF HasOwner
  <2> QED BY <2>1, <2>2
<1>6. ASSUME NEW q \in RowObjects PROVE ObjectInv(q)'
  <2>1. ObjectInv(q)
    OBVIOUS
  <2>2. CASE q # r
    <3>1. stmt[q] # NONE => stmt[q] # s
      BY <2>1, <2>2 DEF ObjectInv, OwnsAlone
    <3>2. stmt'[q] = stmt[q] /\ col'[q] = col[q] /\ given'[q] = given[q]
          /\ (stmt[q] # NONE => prepared'[stmt[q]] = prepared[stmt[q]])
      BY <2>2, <3>1, <1>1
    <3> QED
      BY <2>1, <2>2, <3>2
         DEF ObjectInv, OwnsOpen, OwnsAlone, AtItsRow, GivenInOrder
  <2>3. CASE q = r
    BY <2>3, <2>1
       DEF ObjectInv, OwnsOpen, OwnsAlone, AtItsRow, GivenInOrder, NoArray
  <2> QED BY <2>2, <2>3
<1> QED BY <1>3, <1>4, <1>5, <1>6

-----------------------------------------------------------------------------
(* The calls, each one of those four things.                                 *)
LEMMA RowOutcome ==
  ASSUME NEW specifiers, NEW trouble, NEW result,
         Outcome(specifiers, trouble, result) = "ROW"
  PROVE  result # <<>>
BY DEF Outcome

LEMMA GenericQueryRowInv ==
  ASSUME RowInv, NEW r \in RowObjects \cup {NONE}, r # NONE => stmt[r] = NONE,
         NEW s \in Statements, NEW result \in Results, NEW rc,
         rc = "ROW" => result # <<>>,
         sqlGenericQuery(r, s, rc, result),
         given' = IF r = NONE THEN given ELSE [given EXCEPT ![r] = <<>>],
         UNCHANGED arrays, lastRowid' \in 0 .. MaxRowid,
         r # NONE => UNCHANGED lastRowid
  PROVE  RowInv'
<1> USE RowAssumption DEF sqlGenericQuery
<1>1. /\ stmt = [q \in RowObjects |-> stmt[q]] /\ col = [q \in RowObjects |-> col[q]]
      /\ NONE \notin RowObjects
  BY DEF RowInv, RowTypeOK
<1>2. CASE rc = "ROW" /\ r # NONE
  <2>1. stmt' = [stmt EXCEPT ![r] = s] /\ col' = [col EXCEPT ![r] = NoArray]
    BY <1>1, <1>2
  <2> QED BY <1>2, <2>1, StatementKept
<1>3. CASE ~(rc = "ROW" /\ r # NONE)
  <2>1. stmt' = stmt /\ col' = col
    BY <1>1, <1>3
  <2> QED BY <1>3, <2>1, NothingKept
<1> QED BY <1>2, <1>3

LEMMA SelectRowInv ==
  ASSUME RowInv, NEW r \in RowObjects, NEW s \in Statements, NEW specifiers,
         NEW trouble, NEW result \in Results,
         sqlSelect(r, s, specifiers, trouble, result)
  PROVE  RowInv'
BY RowAssumption, RowOutcome, GenericQueryRowInv DEF sqlSelect, RowInv, RowTypeOK

LEMMA SelectOneRowInv ==
  ASSUME RowInv, NEW r \in RowObjects, NEW s \in Statements, NEW specifiers,
         NEW trouble, NEW result \in Results,
         sqlSelectOneRow(r, s, specifiers, trouble, result)
  PROVE  RowInv'
<1> DEFINE rc == Outcome(specifiers, trouble, result)
<1>1. CASE rc = "ROW"
  BY <1>1, RowOutcome, StatementKept DEF sqlSelectOneRow
<1>2. CASE rc # "ROW"
  <2>1. /\ stmt[r] = NONE /\ sqlGenericQuery(r, s, rc, result)
        /\ given' = [given EXCEPT ![r] = <<>>] /\ UNCHANGED <<arrays, lastRowid>>
    BY <1>2 DEF sqlSelectOneRow
  <2> HIDE DEF rc
  <2> QED BY <1>2, <2>1, RowAssumption, GenericQueryRowInv DEF RowInv, RowTypeOK
<1> QED BY <1>1, <1>2

LEMMA InsertRowInv ==
  ASSUME RowInv, NEW s \in Statements, NEW specifiers, NEW trouble,
         NEW result \in Results,
         \/ sqlInsert(s, specifiers, trouble, result)
         \/ sqlQuery(s, specifiers, trouble, result)
  PROVE  RowInv'
<1> DEFINE rc == Outcome(specifiers, trouble, result)
<1>1. /\ sqlGenericQuery(NONE, s, rc, result)
      /\ UNCHANGED <<arrays, given>>
  BY DEF sqlInsert, sqlQuery
<1>2. lastRowid' \in 0 .. MaxRowid
  BY RowAssumption DEF sqlInsert, sqlQuery, RowInv, RowTypeOK
<1>3. rc = "ROW" => result # <<>>
  BY RowOutcome
<1> HIDE DEF rc
<1> QED BY <1>1, <1>2, <1>3, GenericQueryRowInv

LEMMA NextRowInv ==
  ASSUME RowInv, NEW r \in RowObjects, sqlEnd(r) \/ sqlNextRow(r)
  PROVE  RowInv'
<1>1. CASE sqlEnd(r)
  BY <1>1, RowsEnded DEF sqlEnd
<1>2. CASE sqlNextRow(r)
  <2> DEFINE p == prepared[stmt[r]]
  <2>1. stmt[r] # NONE /\ UNCHANGED lastRowid
    BY <1>2 DEF sqlNextRow
  <2>2. CASE ~Steps(r) /\ Show(r, p)
    BY <2>1, <2>2, RowShown DEF Steps
  <2>3. ASSUME Steps(r), NEW rc \in StepOutcomes(p), rc = "ROW", Show(r, Stepped(p, rc))
        PROVE  RowInv'
    <3>1. p.at < Len(p.result)
      BY <2>3 DEF StepOutcomes
    <3>2. Stepped(p, rc) = [p EXCEPT !.at = @ + 1]
      BY <2>3 DEF Stepped
    <3>3. col[r].allocated
      BY <2>3 DEF Steps
    <3> QED BY <2>1, <2>3, <3>1, <3>2, <3>3, RowShown
  <2>4. CASE End(r) /\ UNCHANGED given
    BY <2>1, <2>4, RowsEnded
  <2> QED BY <1>2, <2>2, <2>3, <2>4 DEF sqlNextRow
<1> QED BY <1>1, <1>2

LEMMA NextRowInvariant == RowInv /\ [RowNext]_row_vars => RowInv'
<1> SUFFICES ASSUME RowInv, [RowNext]_row_vars PROVE RowInv'
  OBVIOUS
<1>1. CASE UNCHANGED row_vars
  BY <1>1 DEF row_vars, RowInv, RowTypeOK, HasOwner, ObjectInv, OwnsOpen, OwnsAlone,
              AtItsRow, GivenInOrder, ArraysCounted, WithArray
<1>2. ASSUME NEW specifiers, NEW trouble, NEW result \in Results, NEW s \in Statements,
             sqlSelectInt(s, specifiers, trouble, result)
      PROVE  RowInv'
  BY <1>2 DEF sqlSelectInt, RowInv, RowTypeOK, HasOwner, ObjectInv, OwnsOpen, OwnsAlone,
              AtItsRow, GivenInOrder, ArraysCounted, WithArray
<1> QED
  BY <1>1, <1>2, SelectRowInv, SelectOneRowInv, InsertRowInv, NextRowInv DEF RowNext

LEMMA ReturnsGives ==
  ASSUME NEW fn, NEW value, NEW result, Returns(fn, value, result)
  PROVE  returned'.fn = fn /\ returned'.value = value /\ returned'.result = result
BY DEF Returns

LEMMA FirstOfSeq ==
  ASSUME NEW S, NEW q \in Seq(S), q # <<>>
  PROVE  1 \in DOMAIN q /\ q[1] \in S
OBVIOUS

(* Each call leaves its own name in returned.                                *)
LEMMA CallNames ==
  ASSUME NEW r, NEW s, NEW specifiers, NEW trouble, NEW result
  PROVE  /\ sqlSelect(r, s, specifiers, trouble, result) => returned'.fn = "sqlSelect"
         /\ sqlSelectOneRow(r, s, specifiers, trouble, result)
              => returned'.fn = "sqlSelectOneRow"
         /\ sqlSelectInt(s, specifiers, trouble, result)
              => returned'.fn \in {"sqlSelectInt", "sqlSelectInt failed"}
         /\ sqlInsert(s, specifiers, trouble, result) => returned'.fn = "sqlInsert"
         /\ sqlQuery(s, specifiers, trouble, result) => returned'.fn = "sqlQuery"
<1>1. sqlSelect(r, s, specifiers, trouble, result) => returned'.fn = "sqlSelect"
  BY DEF sqlSelect, Returns
<1>2. sqlSelectOneRow(r, s, specifiers, trouble, result)
        => returned'.fn = "sqlSelectOneRow"
  BY DEF sqlSelectOneRow, Returns
<1>3. sqlSelectInt(s, specifiers, trouble, result)
        => returned'.fn \in {"sqlSelectInt", "sqlSelectInt failed"}
  BY ReturnsGives DEF sqlSelectInt
<1>4. sqlInsert(s, specifiers, trouble, result) => returned'.fn = "sqlInsert"
  BY DEF sqlInsert, Returns
<1>5. sqlQuery(s, specifiers, trouble, result) => returned'.fn = "sqlQuery"
  BY DEF sqlQuery, Returns
<1> QED BY <1>1, <1>2, <1>3, <1>4, <1>5

LEMMA WalkNames ==
  ASSUME NEW r
  PROVE  /\ sqlEnd(r) => returned'.fn = "sqlEnd"
         /\ sqlNextRow(r) => returned'.fn \in {"sqlNextRow", "sqlNextRow failed"}
<1>1. sqlEnd(r) => returned'.fn = "sqlEnd"
  BY DEF sqlEnd, Returns
<1>2. sqlNextRow(r) => returned'.fn \in {"sqlNextRow", "sqlNextRow failed"}
  BY ReturnsGives DEF sqlNextRow
<1> QED BY <1>1, <1>2

(* When a step says that the rows are over, the statement was at the last.   *)
LEMMA OverAfterLast ==
  ASSUME RowInv, NEW r \in RowObjects, sqlNextRow(r), returned'.fn = "sqlNextRow",
         returned'.value = 0
  PROVE  stmt'[r] = NONE /\ Len(given'[r]) = Len(returned'.result)
<1> DEFINE p == prepared[stmt[r]]
<1>1. CASE ~Steps(r) /\ Show(r, p) /\ Returns("sqlNextRow", 1, p.result)
  BY <1>1 DEF Returns
<1>2. CASE Steps(r) /\ Returns("sqlNextRow", 1, p.result)
  BY <1>2 DEF Returns
<1>3. ASSUME NEW rc \in StepOutcomes(p), rc # "ROW", Steps(r), End(r), UNCHANGED given,
             Returns(IF rc = "DONE" THEN "sqlNextRow" ELSE "sqlNextRow failed", 0, p.result)
      PROVE  stmt'[r] = NONE /\ Len(given'[r]) = Len(returned'.result)
  <2>1. rc = "DONE" /\ returned'.result = p.result
    <3> DEFINE fn == IF rc = "DONE" THEN "sqlNextRow" ELSE "sqlNextRow failed"
    <3>1. returned'.fn = fn /\ returned'.result = p.result
      BY <1>3, ReturnsGives
    <3> QED BY <3>1
  <2>2. ~(p.at < Len(p.result))
    BY <1>3, <2>1 DEF StepOutcomes
  <2>3. stmt[r] # NONE /\ col[r].allocated
    BY <1>3 DEF sqlNextRow, Steps
  <2>4. /\ p.result \in Results /\ p.at \in 1 .. Len(p.result) /\ Len(given[r]) = p.at
    BY <2>3 DEF RowInv, ObjectInv, AtItsRow
  <2>5. Len(p.result) \in Nat
    BY <2>4, RowAssumption
  <2>6. stmt'[r] = NONE
    BY <1>3 DEF End, RowInv, RowTypeOK
  <2> QED BY <1>3, <2>1, <2>2, <2>4, <2>5, <2>6
<1> QED BY <1>1, <1>2, <1>3 DEF sqlNextRow

LEMMA NextEndsAfterAll ==
  ASSUME RowInv, EndsAfterAll, [RowNext]_row_vars
  PROVE  EndsAfterAll'
<1>1. CASE UNCHANGED row_vars
  BY <1>1 DEF row_vars, EndsAfterAll
<1>2. CASE returned'.fn # "sqlNextRow"
  BY <1>2 DEF EndsAfterAll
<1>3. CASE \E r \in RowObjects : sqlNextRow(r)
  BY <1>3, OverAfterLast DEF EndsAfterAll
<1>4. RowNext /\ returned'.fn = "sqlNextRow" => \E r \in RowObjects : sqlNextRow(r)
  BY CallNames, WalkNames DEF RowNext
<1> QED BY <1>1, <1>2, <1>3, <1>4

(* The integer of a column is what the type of the column makes of it.       *)
LEMMA ColumnInteger ==
  ASSUME NEW v \in [type : {"INTEGER", "FLOAT", "TEXT", "BLOB", "NULL"}, n : Nat],
         NEW i \in Column(v).i
  PROVE  CASE v.type = "NULL" -> i = 0
           [] v.type = "FLOAT" -> i \in Memory
           [] OTHER -> i = v.n
BY DEF Column

LEMMA SelectIntReturns ==
  ASSUME NEW s \in Statements, NEW specifiers, NEW trouble, NEW result \in Results,
         sqlSelectInt(s, specifiers, trouble, result)
  PROVE  SelectIntTrue'
<1> DEFINE rc == Outcome(specifiers, trouble, result)
<1>1. PICK i \in IF rc = "ROW" THEN Columns(result[1])[1].i ELSE {0} :
        returned' = [fn |-> IF rc = "ERROR" THEN "sqlSelectInt failed" ELSE "sqlSelectInt",
                     value |-> i, result |-> result]
  BY DEF sqlSelectInt, Returns
<1>2. CASE rc # "ROW"
  <2>1. i = 0 /\ (rc # "ERROR" => result = <<>>)
    BY <1>1, <1>2 DEF Outcome
  <2> QED BY <1>1, <2>1 DEF SelectIntTrue
<1>3. CASE rc = "ROW"
  <2> DEFINE first == result[1][1]
  <2>1. result # <<>> /\ result \in Seq(Seq([type : {"INTEGER", "FLOAT", "TEXT", "BLOB",
                                                   "NULL"}, n : Nat]))
    BY <1>3, RowOutcome, RowAssumption
  <2>2. 1 \in DOMAIN result
        /\ result[1] \in Seq([type : {"INTEGER", "FLOAT", "TEXT", "BLOB", "NULL"}, n : Nat])
    BY ONLY <2>1, FirstOfSeq
  <2>3. result[1] # <<>>
    BY <2>2, RowAssumption
  <2>4. 1 \in DOMAIN result[1]
    BY ONLY <2>2, <2>3, FirstOfSeq
  <2>5. first \in [type : {"INTEGER", "FLOAT", "TEXT", "BLOB", "NULL"}, n : Nat]
    BY ONLY <2>2, <2>3, FirstOfSeq
  <2>6. i \in Column(first).i
    BY <1>1, <1>3, <2>4 DEF Columns
  <2>7. (CASE first.type = "NULL" -> i = 0
           [] first.type = "FLOAT" -> i \in Memory
           [] OTHER -> i = first.n)
    BY <2>5, <2>6, ColumnInteger
  <2>8. returned'.fn = "sqlSelectInt" /\ returned'.value = i /\ returned'.result = result
    BY <1>1, <1>3
  <2> QED BY <2>1, <2>7, <2>8 DEF SelectIntTrue
<1> QED BY <1>2, <1>3

LEMMA NextSelectIntTrue ==
  ASSUME SelectIntTrue, [RowNext]_row_vars
  PROVE  SelectIntTrue'
<1>1. CASE UNCHANGED row_vars
  BY <1>1 DEF row_vars, SelectIntTrue
<1>2. CASE returned'.fn \notin {"sqlSelectInt", "sqlSelectInt failed"}
  BY <1>2 DEF SelectIntTrue
<1>3. RowNext => \/ returned'.fn \notin {"sqlSelectInt", "sqlSelectInt failed"}
                 \/ SelectIntTrue'
  BY CallNames, WalkNames, SelectIntReturns, ZenonT(60) DEF RowNext
<1> QED BY <1>1, <1>2, <1>3

LEMMA NextIInv == IInv /\ [RowNext]_row_vars => IInv'
BY NextRowInvariant, NextEndsAfterAll, NextSelectIntTrue DEF IInv

-----------------------------------------------------------------------------
(* However queries and steps fail, each statement that is not finalized is   *)
(* owned by exactly one row object, and so are the column arrays             *)
(* (sqlite_wrap.c:121-167).                                                   *)
THEOREM SpecStatementsOwned == RowSpec => []StatementsOwned
BY InitIInv, NextIInv, OwnedFromIInv, PTL DEF RowSpec

(* A row object shows the rows of its query in order, each once and from the *)
(* first on, with their own columns, and ends after the last unless a step   *)
(* failed (sqlite_wrap.c:134-167).                                           *)
THEOREM SpecRowsInOrder == RowSpec => []RowsInOrder
BY InitIInv, NextIInv, OrderFromIInv, PTL DEF RowSpec

(* sqlSelectInt() returns the integer of the first column of the first row,  *)
(* but of a real number what memory held (sqlite_wrap.c:219-232).            *)
THEOREM SpecSelectIntTrue == RowSpec => []SelectIntTrue
<1>1. IInv => SelectIntTrue
  BY DEF IInv
<1> QED BY <1>1, InitIInv, NextIInv, PTL DEF RowSpec
=============================================================================
