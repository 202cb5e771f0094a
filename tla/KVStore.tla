------------------------------ MODULE KVStore ------------------------------
(***************************************************************************)
(* The key-value store of sqlite_wrap.c, statement by statement.  Every    *)
(* thread has an SQLite connection of its own to one database file, opened *)
(* by botHandleRequest() through dbInit() and closed by dbClose().         *)
(*                                                                         *)
(* SQLite is external.  What the code depends on is how its rollback-      *)
(* journal locks refuse statements: a connection reads under SHARED, writes*)
(* under RESERVED, of which there is one, and commits under PENDING and    *)
(* EXCLUSIVE, which no SHARED of another connection may accompany.  botlib *)
(* sets no busy timeout, so a statement that cannot have its lock fails at *)
(* once with SQLITE_BUSY and has changed nothing.  Each statement is a     *)
(* transaction of its own; a SELECT keeps SHARED until it is finalized.    *)
(***************************************************************************)
EXTENDS KVTypes

CONSTANT MaxClock     (* bound: ticks of the clock *)

ASSUME MaxClockOK == MaxClock \in Nat

VARIABLES
  rows,      \* the table KeyValue: the row of each key, or NoRow
  clock,     \* the time
  handle,    \* DbHandle of each thread
  op,        \* the call each thread is in, with its arguments
  pc,        \* the statement or step of that call
  shared,    \* connections that hold SHARED (or more)
  writer,    \* connection that holds RESERVED (or more)
  excl,      \* connection that holds PENDING or EXCLUSIVE
  seen,      \* the row kvGet's SELECT stands on
  ret,       \* what the call is about to return
  took,      \* history: whether the call has taken effect
  returned   \* history: what a thread's last call returned, until it calls again

vars == <<rows, clock, handle, op, pc, shared, writer, excl, seen, ret, took,
          returned>>

Handle == {"closed", "open", "null"}     \* "null": dbInit() failed
Writes == {"insert", "update", "delete", "purge"}
Statements == Writes \cup {"select"}
PC == {"idle", "row", "end", "return"} \cup Statements

Init ==
  /\ rows = [k \in Key |-> NoRow]
  /\ clock = 0
  /\ handle = [c \in Conn |-> "closed"]
  /\ op = [c \in Conn |-> NoCall]
  /\ pc = [c \in Conn |-> "idle"]
  /\ shared = {} /\ writer = NoConn /\ excl = NoConn
  /\ seen = [c \in Conn |-> NoRow]
  /\ ret = [c \in Conn |-> Null]
  /\ took = [c \in Conn |-> FALSE]
  /\ returned = [c \in Conn |-> Null]

locks == <<shared, writer, excl>>

Tick ==
  /\ clock < MaxClock
  /\ clock' = clock + 1
  /\ UNCHANGED <<rows, handle, op, pc, locks, seen, ret, took, returned>>

-----------------------------------------------------------------------------
(* The thread opens and closes its connection.  When the file cannot be      *)
(* opened the handle is NULL and the thread runs with it all the same.       *)

Open(c) ==
  /\ handle[c] = "closed"
  /\ \E h \in {"open", "null"} : handle' = [handle EXCEPT ![c] = h]
  /\ UNCHANGED <<rows, clock, op, pc, locks, seen, ret, took, returned>>

Close(c) ==
  /\ pc[c] = "idle" /\ handle[c] # "closed"
  /\ handle' = [handle EXCEPT ![c] = "closed"]
  /\ UNCHANGED <<rows, clock, op, pc, locks, seen, ret, took, returned>>

(* The callback calls one of the three functions.                            *)
Begin(c, call, stmt) ==
  /\ pc[c] = "idle" /\ handle[c] # "closed"
  /\ op' = [op EXCEPT ![c] = call]
  /\ pc' = [pc EXCEPT ![c] = stmt]
  /\ returned' = [returned EXCEPT ![c] = Null]
  /\ UNCHANGED <<rows, clock, handle, locks, seen, ret, took>>

kvSet(c, k, v, ttl) == Begin(c, SetCall(k, v, ExpireAt(ttl, clock)), "insert")
kvGet(c, k) == Begin(c, GetCall(k), "select")
kvDel(c, k) == Begin(c, DelCall(k), "delete")

Return(c) ==
  /\ pc[c] = "return"
  /\ returned' = [returned EXCEPT ![c] = ret[c]]
  /\ op' = [op EXCEPT ![c] = NoCall]
  /\ pc' = [pc EXCEPT ![c] = "idle"]
  /\ ret' = [ret EXCEPT ![c] = Null]
  /\ took' = [took EXCEPT ![c] = FALSE]
  /\ seen' = [seen EXCEPT ![c] = NoRow]
  /\ UNCHANGED <<rows, clock, handle, locks>>

-----------------------------------------------------------------------------
(* What the code does next, and what it will return, when a statement has    *)
(* been carried out (SQLITE_DONE) and when it has not.                       *)

AfterDoneNoEnd(stmt) == "return"
AfterDone(stmt) == IF stmt = "purge" THEN "end" ELSE "return"
RetDone(c) == IF op[c].kind = "set" THEN 1 ELSE ret[c]

AfterErrorRetry(stmt) ==
  CASE stmt = "insert" -> "insert"
    [] stmt = "purge" -> "end"
    [] OTHER -> "return"
AfterError(stmt) ==
  CASE stmt = "insert" -> "update"
    [] stmt = "purge" -> "end"
    [] OTHER -> "return"
RetError(c) == IF pc[c] = "update" THEN 0 ELSE ret[c]

(* The statement of c is finalized: it lets its locks go, but SHARED stays   *)
(* while kvGet's SELECT is open.                                             *)
Finalized(c) ==
  /\ shared' = IF pc[c] = "purge" THEN shared ELSE shared \ {c}
  /\ writer' = IF writer = c THEN NoConn ELSE writer
  /\ excl' = IF excl = c THEN NoConn ELSE excl

StatementDone(c) ==
  /\ Finalized(c)
  /\ pc' = [pc EXCEPT ![c] = AfterDone(pc[c])]
  /\ ret' = [ret EXCEPT ![c] = RetDone(c)]
  /\ UNCHANGED <<clock, handle, op, seen, returned>>

StatementFails(c) ==
  /\ Finalized(c)
  /\ pc' = [pc EXCEPT ![c] = AfterError(pc[c])]
  /\ ret' = [ret EXCEPT ![c] = RetError(c)]
  /\ UNCHANGED <<rows, clock, handle, op, seen, took, returned>>

key(c) == op[c].key

(* sqlite3_prepare_v2() with a NULL handle: SQLITE_MISUSE.                   *)
Misuse(c) ==
  /\ pc[c] \in Statements /\ handle[c] = "null"
  /\ StatementFails(c)

(* A statement begins under SHARED, which PENDING and EXCLUSIVE refuse.      *)
Share(c) ==
  /\ pc[c] \in Statements /\ handle[c] = "open"
  /\ c \notin shared /\ excl = NoConn
  /\ shared' = shared \cup {c}
  /\ UNCHANGED <<rows, clock, handle, op, pc, writer, excl, seen, ret, took,
                 returned>>

ShareRefused(c) ==
  /\ pc[c] \in Statements /\ handle[c] = "open"
  /\ c \notin shared /\ excl # NoConn
  /\ StatementFails(c)

(* One that writes needs RESERVED too, which one connection has at a time.   *)
Reserve(c) ==
  /\ pc[c] \in Writes /\ c \in shared /\ writer = NoConn
  /\ writer' = c
  /\ UNCHANGED <<rows, clock, handle, op, pc, shared, excl, seen, ret, took,
                 returned>>

ReserveRefused(c) ==
  /\ pc[c] \in Writes /\ c \in shared /\ writer \notin {NoConn, c}
  /\ StatementFails(c)

(* INSERT of a key that has a row: the unique index refuses it.              *)
Constraint(c) ==
  /\ pc[c] = "insert" /\ writer = c /\ rows[key(c)] # NoRow
  /\ StatementFails(c)

(* UPDATE or DELETE of a key that has none: SQLITE_DONE, nothing to commit.  *)
NoMatch(c) ==
  /\ pc[c] \in {"update", "delete", "purge"}
  /\ writer = c /\ rows[key(c)] = NoRow
  /\ StatementDone(c)
  /\ took' = [took EXCEPT ![c] = @ \/ pc[c] = "delete"]
  /\ UNCHANGED rows

(* The change is made in the connection's own pages; then it is committed if *)
(* no other connection reads, and rolled back with SQLITE_BUSY otherwise.    *)
Pending(c) ==
  /\ writer = c /\ excl = NoConn
  /\ pc[c] = "insert" <=> rows[key(c)] = NoRow
  /\ excl' = c
  /\ UNCHANGED <<rows, clock, handle, op, pc, shared, writer, seen, ret, took,
                 returned>>

CommitRefused(c) ==
  /\ excl = c /\ shared # {c}
  /\ StatementFails(c)

RowAfter(c) == IF op[c].kind = "set" THEN op[c].row ELSE NoRow

Commit(c) ==
  /\ excl = c /\ shared = {c}
  /\ rows' = [rows EXCEPT ![key(c)] = RowAfter(c)]
  /\ took' = [took EXCEPT ![c] = TRUE]
  /\ StatementDone(c)

-----------------------------------------------------------------------------
(* kvGet between its SELECT and its end.                                     *)

(* What is left of the connection's SHARED once a row was found.             *)
SharedReleased(c) == shared \ {c}
SharedAfterRow(c) == shared

NoRowFound(c) ==
  /\ pc[c] = "select" /\ c \in shared /\ rows[key(c)] = NoRow
  /\ took' = [took EXCEPT ![c] = TRUE]
  /\ StatementDone(c)
  /\ UNCHANGED rows

RowFound(c) ==
  /\ pc[c] = "select" /\ c \in shared /\ rows[key(c)] # NoRow
  /\ seen' = [seen EXCEPT ![c] = rows[key(c)]]
  /\ pc' = [pc EXCEPT ![c] = "row"]
  /\ shared' = SharedAfterRow(c)
  /\ UNCHANGED <<rows, clock, handle, op, writer, excl, ret, took, returned>>

RowOverEvenForEver(c) == seen[c].expire < clock
RowOver(c) == Expired(seen[c], clock)

CheckExpire(c) ==
  /\ pc[c] = "row"
  /\ IF RowOver(c)
       THEN /\ pc' = [pc EXCEPT ![c] = "purge"]
            /\ UNCHANGED ret
       ELSE /\ pc' = [pc EXCEPT ![c] = "end"]
            /\ ret' = [ret EXCEPT ![c] = seen[c].value]
  /\ took' = [took EXCEPT ![c] = TRUE]
  /\ UNCHANGED <<rows, clock, handle, op, locks, seen, returned>>

sqlEnd(c) ==
  /\ pc[c] = "end"
  /\ shared' = shared \ {c}
  /\ pc' = [pc EXCEPT ![c] = "return"]
  /\ UNCHANGED <<rows, clock, handle, op, writer, excl, seen, ret, took,
                 returned>>

-----------------------------------------------------------------------------
Step(c) ==
  \/ Misuse(c) \/ Share(c) \/ ShareRefused(c)
  \/ Reserve(c) \/ ReserveRefused(c)
  \/ Constraint(c) \/ NoMatch(c)
  \/ Pending(c) \/ CommitRefused(c) \/ Commit(c)
  \/ NoRowFound(c) \/ RowFound(c) \/ CheckExpire(c) \/ sqlEnd(c)
  \/ Return(c)

Calls(c) ==
  \E k \in Key :
    \/ \E v \in Value, ttl \in TTL : kvSet(c, k, v, ttl)
    \/ kvGet(c, k)
    \/ kvDel(c, k)

Next ==
  \/ \E c \in Conn : Open(c) \/ Close(c) \/ Calls(c) \/ Step(c)
  \/ Tick

Spec == Init /\ [][Next]_vars

(* Threads are scheduled: one that is in a call goes on.  Nothing is assumed *)
(* of locks, since no statement waits for one.                               *)
FairSpec == Spec /\ \A c \in Conn : WF_vars(Step(c))

-----------------------------------------------------------------------------
(* Properties.                                                               *)

(* Every variable has its type; the writer holds SHARED as well, and who     *)
(* commits is the writer.                                                    *)
TypeOK ==
  /\ rows \in [Key -> Row \cup {NoRow}]
  /\ clock \in Nat
  /\ handle \in [Conn -> Handle]
  /\ op \in [Conn -> Call \cup {NoCall}]
  /\ pc \in [Conn -> PC]
  /\ shared \subseteq Conn
  /\ writer \in shared \cup {NoConn}
  /\ excl \in {writer, NoConn}
  /\ seen \in [Conn -> Row \cup {NoRow}]
  /\ ret \in [Conn -> Value \cup {Null, 0, 1}]
  /\ took \in [Conn -> BOOLEAN]
  /\ returned \in [Conn -> Value \cup {Null, 0, 1}]

(* The row kvGet decides by, and which it is about to delete, is still the   *)
(* row of the key: no other thread can have given the key a new value since  *)
(* the SELECT, because the cursor is not ended before the DELETE             *)
(* (sqlite_wrap.c:266-275).                                                  *)
SeenIsCurrent ==
  \A c \in Conn : pc[c] \in {"row", "purge"} => rows[key(c)] = seen[c]

(* A call that is over has left no lock behind, on any of its ways out: a     *)
(* connection that kept one would make every other thread's statements fail  *)
(* for as long as it lives (sqlite_wrap.c:113-116, 275).                     *)
NoLockLeftBehind ==
  \A c \in Conn : pc[c] \in {"idle", "return"} => c \notin shared

(* The statements of the three functions make up calls that take effect at   *)
(* one moment or not at all (sqlite_wrap.c:239-282).                         *)
KV == INSTANCE KVSpec WITH
        store <- rows,
        call <- op,
        effect <- took,
        answer <- [c \in Conn |-> IF op[c].kind = "get" THEN ret[c] ELSE Null]

Implements == KV!Spec

(* Every call returns, whatever the other threads do: no thread waits for a  *)
(* lock, so two of them never wait for each other (sqlite_wrap.c:244-275).   *)
EveryCallReturns ==
  \A c \in Conn : pc[c] # "idle" ~> pc[c] = "idle"

(* sqlite_wrap.c:239-241: "Return 1 on success, or 0 on error."              *)
SetOneMeansStored ==
  \A c \in Conn :
    pc[c] = "return" /\ op[c].kind = "set" /\ ret[c] = 1 => took[c]
=============================================================================
