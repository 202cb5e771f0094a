--------------------------- MODULE KVStore_proofs ---------------------------
(***************************************************************************)
(* Proofs about KVStore for any number of threads, keys and values: its    *)
(* type invariant, the invariant on the row kvGet decides by, and that the *)
(* statements implement the atomic calls of KVSpec.                        *)
(***************************************************************************)
EXTENDS KVStore, TLAPS

(* Where a thread is fits the call it is in.                                 *)
PcFitsCall(c) ==
  /\ pc[c] = "idle" <=> op[c] = NoCall
  /\ pc[c] \in {"insert", "update"} => op[c].kind = "set"
  /\ pc[c] = "delete" => op[c].kind = "del"
  /\ pc[c] \in {"select", "row", "purge", "end"} => op[c].kind = "get"

(* Locks are held only inside statements, and all along kvGet's cursor.      *)
LocksFitPc(c) ==
  /\ pc[c] \in {"row", "purge", "end"} => c \in shared
  /\ c \in shared => pc[c] \in Statements \cup {"row", "end"}
  /\ writer = c => pc[c] \in Writes

(* The cursor stands on the row of the key, and it is over when purged.      *)
CursorIsCurrent(c) ==
  /\ pc[c] \in {"row", "purge"} =>
       seen[c] # NoRow /\ rows[key(c)] = seen[c]
  /\ pc[c] = "purge" => Expired(seen[c], clock)

(* When a call takes effect, and what it may return.                         *)
EffectFitsPc(c) ==
  /\ pc[c] \in {"idle", "insert", "update", "delete", "select", "row"} =>
       ~took[c] /\ ret[c] = Null
  /\ pc[c] = "purge" => took[c] /\ ret[c] = Null
  /\ pc[c] = "end" => took[c]
  /\ op[c].kind = "del" => ret[c] = Null
  /\ op[c].kind = "get" => ret[c] \in Value \cup {Null}
  /\ pc[c] = "return" /\ op[c].kind = "set" =>
       ret[c] \in {0, 1} /\ (ret[c] = 0 => ~took[c])

CInv(c) ==
  PcFitsCall(c) /\ LocksFitPc(c) /\ CursorIsCurrent(c) /\ EffectFitsPc(c)

IInv == TypeOK /\ \A c \in Conn : CInv(c)

-----------------------------------------------------------------------------
LEMMA InitIInv == Init => IInv
BY KVConstants
   DEF Init, IInv, TypeOK, CInv, PcFitsCall, LocksFitPc, CursorIsCurrent,
       EffectFitsPc, NoCall, Handle, PC, Statements, Writes

(* Nothing that a thread finds out about a row is undone by the clock.       *)
LEMMA TickIInv ==
  ASSUME IInv, Tick
  PROVE  IInv'
<1> USE DEF Tick, locks, IInv
<1>1. TypeOK'
  BY DEF TypeOK
<1>2. \A row \in Row : Expired(row, clock) => Expired(row, clock')
  BY DEF TypeOK, Expired, Row
<1>3. ASSUME NEW c \in Conn PROVE CInv(c)'
  BY <1>2 DEF TypeOK, CInv, PcFitsCall, LocksFitPc, CursorIsCurrent,
         EffectFitsPc, key
<1> QED BY <1>1, <1>3

(* A step of c that leaves rows and the clock alone, and takes away no lock  *)
(* of another thread, concerns c only.                                       *)
LEMMA OthersUndisturbed ==
  ASSUME IInv, NEW c \in Conn, NEW d \in Conn, d # c,
         rows' = rows, clock' = clock,
         op'[d] = op[d], pc'[d] = pc[d], seen'[d] = seen[d], ret'[d] = ret[d],
         took'[d] = took[d],
         d \in shared' <=> d \in shared,
         writer' = d => writer = d
  PROVE  CInv(d)'
BY DEF IInv, CInv, PcFitsCall, LocksFitPc, CursorIsCurrent, EffectFitsPc, key

LEMMA OpenCloseIInv ==
  ASSUME IInv, NEW c \in Conn, Open(c) \/ Close(c)
  PROVE  IInv'
<1> USE DEF Open, Close, locks, IInv
<1>1. TypeOK'
  BY DEF TypeOK, Handle
<1>2. ASSUME NEW d \in Conn PROVE CInv(d)'
  BY DEF TypeOK, CInv, PcFitsCall, LocksFitPc, CursorIsCurrent,
         EffectFitsPc, key
<1> QED BY <1>1, <1>2

LEMMA ExpireAtIsNat ==
  ASSUME IInv, NEW ttl \in TTL
  PROVE  ExpireAt(ttl, clock) \in Nat
BY KVConstants DEF ExpireAt, IInv, TypeOK

LEMMA BeginIInv ==
  ASSUME IInv, NEW c \in Conn, NEW call \in Call, NEW stmt,
         <<call.kind, stmt>> \in {<<"set", "insert">>, <<"get", "select">>,
                                  <<"del", "delete">>},
         Begin(c, call, stmt)
  PROVE  IInv'
<1> USE DEF Begin, locks, IInv, TypeOK
<1>1. call # NoCall /\ stmt \in {"insert", "select", "delete"}
  BY DEF NoCall, Call
<1>2. TypeOK'
  BY <1>1 DEF PC, Statements, Writes
<1>3. CInv(c)
  OBVIOUS
<1>4. c \notin shared /\ writer # c /\ ~took[c] /\ ret[c] = Null
  BY <1>3 DEF CInv, LocksFitPc, EffectFitsPc, Statements, Writes
<1>5. CInv(c)'
  BY <1>1, <1>4
     DEF CInv, PcFitsCall, LocksFitPc, CursorIsCurrent, EffectFitsPc
<1>6. ASSUME NEW d \in Conn, d # c PROVE CInv(d)'
  BY <1>6, OthersUndisturbed
<1> QED BY <1>2, <1>5, <1>6

LEMMA CallsIInv ==
  ASSUME IInv, NEW c \in Conn, Calls(c)
  PROVE  IInv'
<1>1. ASSUME NEW k \in Key, NEW v \in Value, NEW ttl \in TTL,
             kvSet(c, k, v, ttl)
      PROVE  IInv'
  <2>1. SetCall(k, v, ExpireAt(ttl, clock)) \in Call
    BY ExpireAtIsNat DEF SetCall, Call, Row
  <2> QED BY <2>1, <1>1, BeginIInv DEF kvSet, SetCall
<1>2. ASSUME NEW k \in Key, kvGet(c, k) PROVE IInv'
  <2>1. GetCall(k) \in Call
    BY DEF GetCall, Call
  <2> QED BY <2>1, <1>2, BeginIInv DEF kvGet, GetCall
<1>3. ASSUME NEW k \in Key, kvDel(c, k) PROVE IInv'
  <2>1. DelCall(k) \in Call
    BY DEF DelCall, Call
  <2> QED BY <2>1, <1>3, BeginIInv DEF kvDel, DelCall
<1> QED BY <1>1, <1>2, <1>3 DEF Calls

LEMMA ReturnIInv ==
  ASSUME IInv, NEW c \in Conn, Return(c)
  PROVE  IInv'
<1> USE DEF Return, locks, IInv, TypeOK
<1>1. TypeOK'
  BY DEF PC
<1>2. c \notin shared /\ writer # c
  BY DEF CInv, LocksFitPc, Statements, Writes
<1>3. CInv(c)'
  BY <1>2 DEF CInv, PcFitsCall, LocksFitPc, CursorIsCurrent, EffectFitsPc,
              NoCall
<1>4. ASSUME NEW d \in Conn, d # c PROVE CInv(d)'
  BY <1>4, OthersUndisturbed
<1> QED BY <1>1, <1>3, <1>4

-----------------------------------------------------------------------------
(* Taking a lock.                                                            *)
LEMMA LockIInv ==
  ASSUME IInv, NEW c \in Conn, Share(c) \/ Reserve(c) \/ Pending(c)
  PROVE  IInv'
<1> USE KVConstants DEF IInv, TypeOK, Share, Reserve, Pending
<1>1. TypeOK'
  OBVIOUS
<1>2. CInv(c)'
  BY DEF CInv, PcFitsCall, LocksFitPc, CursorIsCurrent, EffectFitsPc, key
<1>3. ASSUME NEW d \in Conn, d # c PROVE CInv(d)'
  BY <1>3, OthersUndisturbed
<1> QED BY <1>1, <1>2, <1>3

(* Finalizing a statement takes no lock from another connection, and leaves  *)
(* the locks in order.                                                       *)
LEMMA FinalizedLocks ==
  ASSUME IInv, NEW c \in Conn, pc[c] \in Statements, Finalized(c)
  PROVE  /\ shared' \subseteq Conn
         /\ writer' \in shared' \cup {NoConn} /\ excl' \in {writer', NoConn}
         /\ writer' # c
         /\ c \in shared' <=> pc[c] = "purge"
         /\ \A d \in Conn \ {c} :
              (d \in shared' <=> d \in shared) /\ (writer' = d => writer = d)
BY KVConstants DEF IInv, TypeOK, Finalized, CInv, LocksFitPc

LEMMA FailureIInv ==
  ASSUME IInv, NEW c \in Conn, pc[c] \in Statements, StatementFails(c)
  PROVE  IInv'
<1> USE DEF IInv, TypeOK, StatementFails
<1>1. Finalized(c)
  OBVIOUS
<1>2. TypeOK'
  BY <1>1, FinalizedLocks DEF AfterError, RetError, PC, Statements, Writes
<1>3. CInv(c)'
  BY <1>1, FinalizedLocks
     DEF CInv, PcFitsCall, LocksFitPc, CursorIsCurrent, EffectFitsPc, key,
         AfterError, RetError, Statements, Writes
<1>4. ASSUME NEW d \in Conn, d # c PROVE CInv(d)'
  BY <1>4, <1>1, FinalizedLocks, OthersUndisturbed
<1> QED BY <1>2, <1>3, <1>4

(* A statement that is done: what else it does is left to the caller.        *)
LEMMA DoneIInv ==
  ASSUME IInv, NEW c \in Conn, pc[c] \in Statements, StatementDone(c),
         rows' \in [Key -> Row \cup {NoRow}],
         rows' = rows \/ shared = {c},
         took' \in {took, [took EXCEPT ![c] = TRUE]}
  PROVE  IInv'
<1> USE DEF IInv, TypeOK, StatementDone
<1>1. Finalized(c)
  OBVIOUS
<1>2. TypeOK'
  BY <1>1, FinalizedLocks
     DEF AfterDone, RetDone, PC, Statements, Writes
<1>3. CInv(c)'
  BY <1>1, FinalizedLocks
     DEF CInv, PcFitsCall, LocksFitPc, CursorIsCurrent, EffectFitsPc, key,
         AfterDone, RetDone, Statements, Writes
<1>4. ASSUME NEW d \in Conn, d # c PROVE CInv(d)'
  <2>1. CASE rows' = rows
    BY <2>1, <1>4, <1>1, FinalizedLocks, OthersUndisturbed
  <2>2. CASE shared = {c}
    <3>1. pc[d] \notin {"row", "purge", "end"} /\ CInv(d)
      BY <2>2, <1>4 DEF CInv, LocksFitPc
    <3> QED
      BY <3>1, <1>4, <1>1, FinalizedLocks
         DEF CInv, PcFitsCall, LocksFitPc, CursorIsCurrent, EffectFitsPc
  <2> QED BY <2>1, <2>2
<1> QED BY <1>2, <1>3, <1>4

LEMMA CursorIInv ==
  ASSUME IInv, NEW c \in Conn, RowFound(c) \/ CheckExpire(c) \/ sqlEnd(c)
  PROVE  IInv'
<1> USE DEF IInv, TypeOK, RowFound, CheckExpire, sqlEnd, locks
<1>1. CInv(c) /\ key(c) \in Key
  BY DEF CInv, PcFitsCall, NoCall, Call, key
<1>2. CASE RowFound(c)
  <2>1. TypeOK'
    BY <1>1, <1>2 DEF PC, SharedAfterRow
  <2>2. CInv(c)'
    BY <1>1, <1>2
       DEF CInv, PcFitsCall, LocksFitPc, CursorIsCurrent, EffectFitsPc, key,
           SharedAfterRow, Statements, Writes
  <2>3. ASSUME NEW d \in Conn, d # c PROVE CInv(d)'
    BY <1>2, <2>3, OthersUndisturbed DEF SharedAfterRow
  <2> QED BY <2>1, <2>2, <2>3
<1>3. CASE CheckExpire(c)
  <2>1. seen[c] \in Row
    BY <1>1, <1>3 DEF CInv, CursorIsCurrent
  <2>2. TypeOK'
    BY <1>3, <2>1 DEF PC, Statements, Writes, Row
  <2>3. CInv(c)'
    BY <1>1, <1>3, <2>1
       DEF CInv, PcFitsCall, LocksFitPc, CursorIsCurrent, EffectFitsPc, key,
           RowOver, Statements, Writes, Row
  <2>4. ASSUME NEW d \in Conn, d # c PROVE CInv(d)'
    BY <1>3, <2>4, OthersUndisturbed
  <2> QED BY <2>2, <2>3, <2>4
<1>4. CASE sqlEnd(c)
  <2>1. writer # c
    BY <1>1, <1>4 DEF CInv, LocksFitPc, Writes
  <2>2. TypeOK'
    BY <1>4, <2>1 DEF PC
  <2>3. CInv(c)'
    BY <1>1, <1>4, <2>1
       DEF CInv, PcFitsCall, LocksFitPc, CursorIsCurrent, EffectFitsPc, key
  <2>4. ASSUME NEW d \in Conn, d # c PROVE CInv(d)'
    BY <1>4, <2>4, OthersUndisturbed
  <2> QED BY <2>2, <2>3, <2>4
<1> QED BY <1>2, <1>3, <1>4

-----------------------------------------------------------------------------
LEMMA StepIInv ==
  ASSUME IInv, NEW c \in Conn, Step(c)
  PROVE  IInv'
<1> USE KVConstants
<1>1. TypeOK /\ CInv(c)
  BY DEF IInv
<1>2. c # NoConn /\ (excl = c => writer = c) /\ (writer = c => pc[c] \in Writes)
  BY <1>1 DEF TypeOK, CInv, LocksFitPc
<1>3. CASE Misuse(c) \/ ShareRefused(c) \/ ReserveRefused(c) \/ Constraint(c)
           \/ CommitRefused(c)
  BY <1>2, <1>3, FailureIInv
     DEF Misuse, ShareRefused, ReserveRefused, Constraint, CommitRefused,
         Statements, Writes
<1>4. CASE Share(c) \/ Reserve(c) \/ Pending(c)
  BY <1>4, LockIInv
<1>5. took \in [Conn -> BOOLEAN] /\ rows \in [Key -> Row \cup {NoRow}]
  BY <1>1 DEF TypeOK
<1>6. CASE NoMatch(c)
  <2>1. took' \in {took, [took EXCEPT ![c] = TRUE]} /\ rows' = rows
    BY <1>5, <1>6 DEF NoMatch
  <2> QED BY <1>5, <1>6, <2>1, DoneIInv DEF NoMatch, Statements, Writes
<1>7. CASE NoRowFound(c)
  BY <1>5, <1>7, DoneIInv DEF NoRowFound, Statements
<1>8. CASE Commit(c)
  <2>1. pc[c] \in Statements /\ op[c] \in Call
    BY <1>1, <1>2, <1>8
       DEF Commit, Statements, Writes, TypeOK, CInv, PcFitsCall
  <2>2. rows' \in [Key -> Row \cup {NoRow}]
    BY <1>5, <1>8, <2>1 DEF Commit, RowAfter, Call
  <2> QED BY <1>8, <2>1, <2>2, DoneIInv DEF Commit
<1>9. CASE RowFound(c) \/ CheckExpire(c) \/ sqlEnd(c)
  BY <1>9, CursorIInv
<1>10. CASE Return(c)
  BY <1>10, ReturnIInv
<1> QED BY <1>3, <1>4, <1>6, <1>7, <1>8, <1>9, <1>10 DEF Step

LEMMA NextIInv == IInv /\ [Next]_vars => IInv'
<1> SUFFICES ASSUME IInv, [Next]_vars PROVE IInv'
  OBVIOUS
<1>1. CASE UNCHANGED vars
  BY <1>1 DEF vars, IInv, TypeOK, CInv, PcFitsCall, LocksFitPc,
              CursorIsCurrent, EffectFitsPc, key
<1>2. CASE Tick
  BY <1>2, TickIInv
<1>3. ASSUME NEW c \in Conn, Open(c) \/ Close(c) \/ Calls(c) \/ Step(c)
      PROVE  IInv'
  BY <1>3, OpenCloseIInv, CallsIInv, StepIInv
<1> QED BY <1>1, <1>2, <1>3 DEF Next

(* The inductive invariant holds of every behaviour of the store.            *)
THEOREM SpecIInv == Spec => []IInv
BY InitIInv, NextIInv, PTL DEF Spec

(* The types of the store's state and the order of its locks, for any number *)
(* of threads, keys and values.                                              *)
THEOREM SpecTypeOK == Spec => []TypeOK
<1>1. IInv => TypeOK
  BY DEF IInv
<1> QED BY <1>1, SpecIInv, PTL

(* The row by which kvGet decides, and which it deletes, is the current row  *)
(* of its key (sqlite_wrap.c:266-275).                                       *)
THEOREM SpecSeenIsCurrent == Spec => []SeenIsCurrent
<1>1. IInv => SeenIsCurrent
  BY DEF IInv, SeenIsCurrent, CInv, CursorIsCurrent
<1> QED BY <1>1, SpecIInv, PTL

(* No way out of a call leaves a lock behind (sqlite_wrap.c:113-116, 275).   *)
THEOREM SpecNoLockLeftBehind == Spec => []NoLockLeftBehind
<1>1. IInv => NoLockLeftBehind
  BY DEF IInv, NoLockLeftBehind, CInv, LocksFitPc, Statements, Writes
<1> QED BY <1>1, SpecIInv, PTL

-----------------------------------------------------------------------------
(* The refinement.  `Answer' is what the abstract `answer' is mapped to.     *)
Answer == [c \in Conn |-> IF op[c].kind = "get" THEN ret[c] ELSE Null]

LEMMA InitRefines == Init => KV!KVInit
BY DEF Init, KV!KVInit, NoCall, KV!NoCall

(* A step that neither returns nor takes effect cannot be seen above.        *)
LEMMA Invisible ==
  ASSUME UNCHANGED <<rows, clock, op, took, returned>>,
         \A c \in Conn : op[c].kind = "get" => ret'[c] = ret[c]
  PROVE  UNCHANGED KV!kvVars
<1>1. Answer' = Answer
  BY DEF Answer
<1> QED BY <1>1 DEF KV!kvVars, Answer

LEMMA BeginRefines ==
  ASSUME IInv, NEW c \in Conn, Calls(c)
  PROVE  KV!Invoke(c)
<1> USE DEF IInv, TypeOK, KV!NoCall, NoCall, KV!GetCall, GetCall, KV!DelCall,
            DelCall, KV!SetCall, SetCall, KV!ExpireAt, ExpireAt
<1>1. pc[c] = "idle" /\ op[c] = NoCall /\ ret[c] = Null
  BY DEF Calls, kvSet, kvGet, kvDel, Begin, CInv, PcFitsCall, EffectFitsPc
<1>2. /\ UNCHANGED <<rows, clock, took, ret>>
      /\ returned' = [returned EXCEPT ![c] = Null]
      /\ \E k \in Key :
           \/ op' = [op EXCEPT ![c] = GetCall(k)]
           \/ op' = [op EXCEPT ![c] = DelCall(k)]
           \/ \E v \in Value, ttl \in TTL :
                op' = [op EXCEPT ![c] = SetCall(k, v, ExpireAt(ttl, clock))]
  BY DEF Calls, kvSet, kvGet, kvDel, Begin
<1>3. Answer' = Answer
  BY <1>1, <1>2 DEF Answer
<1> QED BY <1>1, <1>2, <1>3 DEF KV!Invoke, Answer

LEMMA ReturnRefines ==
  ASSUME IInv, NEW c \in Conn, Return(c)
  PROVE  KV!Return(c)
<1> USE DEF IInv, TypeOK, KV!NoCall, NoCall, Return
<1>1. CInv(c) /\ pc[c] = "return" /\ op[c] # NoCall /\ op[c] \in Call
  BY DEF CInv, PcFitsCall
<1>2. ret[c] \in KV!Results(c)
  <2>1. op[c].kind \in {"set", "get", "del"}
    BY <1>1 DEF Call
  <2>2. CASE op[c].kind = "set"
    BY <1>1, <2>2 DEF KV!Results, CInv, EffectFitsPc
  <2>3. CASE op[c].kind = "get"
    BY <1>1, <2>3 DEF KV!Results, CInv, EffectFitsPc
  <2>4. CASE op[c].kind = "del"
    BY <1>1, <2>4 DEF KV!Results, CInv, EffectFitsPc
  <2> QED BY <2>1, <2>2, <2>3, <2>4
<1>3. Answer' = [Answer EXCEPT ![c] = Null]
  BY DEF Answer
<1> QED BY <1>1, <1>2, <1>3 DEF KV!Return, Answer

LEMMA FailureRefines ==
  ASSUME IInv, NEW c \in Conn, pc[c] \in Statements, StatementFails(c)
  PROVE  UNCHANGED KV!kvVars
<1> USE DEF IInv, TypeOK, StatementFails
<1>1. op[c].kind = "get" => RetError(c) = ret[c]
  BY DEF CInv, PcFitsCall, RetError
<1>2. \A d \in Conn : op[d].kind = "get" => ret'[d] = ret[d]
  BY <1>1
<1> QED BY <1>2, Invisible

LEMMA CommitRefines ==
  ASSUME IInv, NEW c \in Conn, Commit(c)
  PROVE  KV!Store(c) \/ KV!Remove(c) \/ KV!Purge(c)
<1> USE DEF IInv, TypeOK, Commit, StatementDone
<1>1. CInv(c) /\ pc[c] \in Writes
  BY KVConstants DEF CInv, LocksFitPc
<1>2. op[c] \in Call
  BY <1>1 DEF CInv, PcFitsCall, Writes
<1>3. CASE op[c].kind = "set"
  <2>1. Answer' = Answer
    BY <1>3 DEF Answer
  <2>2. ~took[c]
    BY <1>1, <1>3 DEF CInv, PcFitsCall, EffectFitsPc, Writes
  <2> QED BY <1>3, <2>1, <2>2
          DEF KV!Store, KV!TakesEffect, Answer, key, RowAfter
<1>4. CASE op[c].kind # "set"
  <2>1. ret' = ret
    BY <1>4 DEF RetDone
  <2>2. Answer' = Answer
    BY <2>1 DEF Answer
  <2>3. rows' = [rows EXCEPT ![op[c].key] = NoRow]
    BY <1>4 DEF RowAfter, key
  <2>4. CASE pc[c] = "delete"
    <3>1. op[c].kind = "del" /\ ~took[c]
      BY <1>1, <2>4 DEF CInv, PcFitsCall, EffectFitsPc
    <3> QED BY <3>1, <2>2, <2>3
            DEF KV!Remove, KV!TakesEffect, Answer
  <2>5. CASE pc[c] = "purge"
    <3>1. op[c].kind = "get" /\ took[c]
      BY <1>1, <2>5 DEF CInv, PcFitsCall, EffectFitsPc
    <3>2. rows[op[c].key] # NoRow /\ Expired(rows[op[c].key], clock)
      BY <1>1, <2>5 DEF CInv, CursorIsCurrent, key
    <3>3. took' = took
      BY <3>1
    <3> QED BY <3>1, <3>2, <3>3, <2>2, <2>3
            DEF KV!Purge, KV!Expired, Expired, Answer
  <2>6. pc[c] \notin {"insert", "update"}
    BY <1>1, <1>4 DEF CInv, PcFitsCall
  <2> QED BY <2>4, <2>5, <2>6, <1>1 DEF Writes
<1> QED BY <1>3, <1>4

LEMMA NoMatchRefines ==
  ASSUME IInv, NEW c \in Conn, NoMatch(c)
  PROVE  KV!Remove(c) \/ UNCHANGED KV!kvVars
<1> USE DEF IInv, TypeOK, NoMatch, StatementDone
<1>1. CInv(c) /\ pc[c] # "idle"
  OBVIOUS
<1>2. CASE pc[c] = "delete"
  <2>1. op[c].kind = "del" /\ ~took[c] /\ ret' = ret
    BY <1>1, <1>2 DEF CInv, PcFitsCall, EffectFitsPc, RetDone
  <2>2. Answer' = Answer
    BY <2>1 DEF Answer
  <2>3. rows' = [rows EXCEPT ![op[c].key] = NoRow]
    BY DEF key
  <2>4. took' = [took EXCEPT ![c] = TRUE]
    BY <1>2
  <2> QED BY <2>1, <2>2, <2>3, <2>4 DEF KV!Remove, KV!TakesEffect, Answer
<1>3. CASE pc[c] # "delete"
  <2>1. took' = took
    BY <1>3
  <2>2. \A d \in Conn : op[d].kind = "get" => ret'[d] = ret[d]
    BY DEF RetDone
  <2> QED BY <2>1, <2>2, Invisible
<1> QED BY <1>2, <1>3

(* kvGet takes effect where it learns what it will return.                   *)
LEMMA ReadRefines ==
  ASSUME IInv, NEW c \in Conn, NoRowFound(c) \/ CheckExpire(c)
  PROVE  KV!Read(c)
<1> USE DEF IInv, TypeOK
<1>1. CInv(c) /\ op[c].kind = "get" /\ ~took[c] /\ ret[c] = Null
  BY DEF CInv, PcFitsCall, EffectFitsPc, NoRowFound, CheckExpire
<1>2. ret' = [ret EXCEPT ![c] = KV!Live(op[c].key)]
  <2>1. CASE NoRowFound(c)
    BY <1>1, <2>1
       DEF NoRowFound, StatementDone, RetDone, KV!Live, key
  <2>2. CASE CheckExpire(c)
    <3>1. seen[c] # NoRow /\ rows[op[c].key] = seen[c]
      BY <1>1, <2>2 DEF CheckExpire, CInv, CursorIsCurrent, key
    <3>2. RowOver(c) <=> KV!Expired(rows[op[c].key], clock)
      BY <3>1 DEF RowOver, Expired, KV!Expired
    <3> QED BY <1>1, <2>2, <3>1, <3>2 DEF CheckExpire, KV!Live
  <2> QED BY <2>1, <2>2
<1>3. Answer' = [Answer EXCEPT ![c] = KV!Live(op[c].key)]
  BY <1>1, <1>2 DEF Answer, NoRowFound, CheckExpire, StatementDone
<1>4. took' = [took EXCEPT ![c] = TRUE]
      /\ UNCHANGED <<rows, clock, op, returned>>
  BY DEF NoRowFound, CheckExpire, StatementDone
<1> QED BY <1>1, <1>3, <1>4 DEF KV!Read, KV!TakesEffect, Answer

LEMMA StepRefines ==
  ASSUME IInv, NEW c \in Conn, Step(c)
  PROVE  KV!KVNext \/ UNCHANGED KV!kvVars
<1>1. c # NoConn /\ (excl = c => writer = c) /\ (writer = c => pc[c] \in Writes)
  BY KVConstants DEF IInv, TypeOK, CInv, LocksFitPc
<1>2. CASE Misuse(c) \/ ShareRefused(c) \/ ReserveRefused(c) \/ Constraint(c)
           \/ CommitRefused(c)
  BY <1>1, <1>2, FailureRefines
     DEF Misuse, ShareRefused, ReserveRefused, Constraint, CommitRefused,
         Statements, Writes
<1>3. CASE Share(c) \/ Reserve(c) \/ Pending(c) \/ RowFound(c) \/ sqlEnd(c)
  BY <1>3, Invisible DEF Share, Reserve, Pending, RowFound, sqlEnd
<1>4. CASE Commit(c)
  BY <1>4, CommitRefines DEF KV!KVNext
<1>5. CASE NoMatch(c)
  BY <1>5, NoMatchRefines DEF KV!KVNext
<1>6. CASE NoRowFound(c) \/ CheckExpire(c)
  BY <1>6, ReadRefines DEF KV!KVNext
<1>7. CASE Return(c)
  BY <1>7, ReturnRefines DEF KV!KVNext
<1> QED BY <1>2, <1>3, <1>4, <1>5, <1>6, <1>7 DEF Step

LEMMA NextRefines ==
  IInv /\ [Next]_vars => [KV!KVNext]_(KV!kvVars)
<1> SUFFICES ASSUME IInv, [Next]_vars
             PROVE  KV!KVNext \/ UNCHANGED KV!kvVars
  OBVIOUS
<1>1. CASE UNCHANGED vars
  BY <1>1, Invisible DEF vars
<1>2. CASE Tick
  <2>1. Answer' = Answer
    BY <1>2 DEF Tick, Answer
  <2> QED BY <1>2, <2>1 DEF Tick, KV!Tick, KV!KVNext, Answer
<1>3. ASSUME NEW c \in Conn, Open(c) \/ Close(c)
      PROVE  UNCHANGED KV!kvVars
  BY <1>3, Invisible DEF Open, Close
<1>4. ASSUME NEW c \in Conn, Calls(c) PROVE KV!KVNext
  BY <1>4, BeginRefines DEF KV!KVNext
<1>5. ASSUME NEW c \in Conn, Step(c) PROVE KV!KVNext \/ UNCHANGED KV!kvVars
  BY <1>5, StepRefines
<1> QED BY <1>1, <1>2, <1>3, <1>4, <1>5 DEF Next

(* The statements of kvSet, kvGet and kvDel, under SQLite's locks, implement *)
(* calls that take effect at one moment or not at all (sqlite_wrap.c:239-282).*)
THEOREM SpecImplements == Spec => Implements
BY InitRefines, NextRefines, SpecIInv, PTL DEF Spec, KV!Spec, Implements
=============================================================================
