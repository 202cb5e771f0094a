------------------------------- MODULE KVSpec -------------------------------
(***************************************************************************)
(* What the key-value store of botlib gives its callers, who call it from  *)
(* many threads at once: kvSet, kvGet and kvDel each take effect at one    *)
(* moment between their call and their return, or not at all, and a key    *)
(* whose time is over is never seen again.                                 *)
(*                                                                         *)
(* "Not at all" is part of it: another thread's transaction makes SQLite   *)
(* refuse a statement, and nobody tries again.  What a caller can conclude *)
(* is in Results: a 0 of kvSet means that nothing was stored, a value that *)
(* kvGet returns was the key's, a NULL says nothing, and neither does a 1. *)
(***************************************************************************)
EXTENDS KVTypes

VARIABLES
  store,     \* the row of each key, or NoRow
  clock,     \* the time
  call,      \* the call each thread is in
  effect,    \* whether that call has taken effect
  answer,    \* what kvGet has found
  returned   \* what a thread's last call returned, until it calls again

kvVars == <<store, clock, call, effect, answer, returned>>

Live(k) ==
  IF store[k] = NoRow \/ Expired(store[k], clock) THEN Null ELSE store[k].value

KVInit ==
  /\ store = [k \in Key |-> NoRow]
  /\ clock = 0
  /\ call = [c \in Conn |-> NoCall]
  /\ effect = [c \in Conn |-> FALSE]
  /\ answer = [c \in Conn |-> Null]
  /\ returned = [c \in Conn |-> Null]

Invoke(c) ==
  /\ call[c] = NoCall
  /\ \E k \in Key :
       \/ call' = [call EXCEPT ![c] = GetCall(k)]
       \/ call' = [call EXCEPT ![c] = DelCall(k)]
       \/ \E v \in Value, ttl \in TTL :
            call' = [call EXCEPT ![c] = SetCall(k, v, ExpireAt(ttl, clock))]
  /\ returned' = [returned EXCEPT ![c] = Null]
  /\ UNCHANGED <<store, clock, effect, answer>>

TakesEffect(c) ==
  /\ ~effect[c]
  /\ effect' = [effect EXCEPT ![c] = TRUE]
  /\ UNCHANGED <<clock, call, returned>>

Store(c) ==
  /\ call[c].kind = "set"
  /\ TakesEffect(c)
  /\ store' = [store EXCEPT ![call[c].key] = call[c].row]
  /\ UNCHANGED answer

Remove(c) ==
  /\ call[c].kind = "del"
  /\ TakesEffect(c)
  /\ store' = [store EXCEPT ![call[c].key] = NoRow]
  /\ UNCHANGED answer

Read(c) ==
  /\ call[c].kind = "get"
  /\ TakesEffect(c)
  /\ answer' = [answer EXCEPT ![c] = Live(call[c].key)]
  /\ UNCHANGED store

(* A row whose time is over may be removed by a kvGet that meets it.         *)
Purge(c) ==
  /\ call[c].kind = "get"
  /\ store[call[c].key] # NoRow
  /\ Expired(store[call[c].key], clock)
  /\ store' = [store EXCEPT ![call[c].key] = NoRow]
  /\ UNCHANGED <<clock, call, effect, answer, returned>>

(* What a call may return: kvSet's 0 is honest; kvGet returns what it found. *)
Results(c) ==
  CASE call[c].kind = "set" -> IF effect[c] THEN {1} ELSE {0, 1}
    [] call[c].kind = "get" -> {answer[c]}
    [] call[c].kind = "del" -> {Null}

Return(c) ==
  /\ call[c] # NoCall
  /\ \E r \in Results(c) : returned' = [returned EXCEPT ![c] = r]
  /\ call' = [call EXCEPT ![c] = NoCall]
  /\ effect' = [effect EXCEPT ![c] = FALSE]
  /\ answer' = [answer EXCEPT ![c] = Null]
  /\ UNCHANGED <<store, clock>>

Tick ==
  /\ clock' = clock + 1
  /\ UNCHANGED <<store, call, effect, answer, returned>>

KVNext ==
  \/ \E c \in Conn :
       Invoke(c) \/ Store(c) \/ Remove(c) \/ Read(c) \/ Purge(c) \/ Return(c)
  \/ Tick

Spec == KVInit /\ [][KVNext]_kvVars
=============================================================================
