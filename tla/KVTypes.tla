------------------------------ MODULE KVTypes ------------------------------
(***************************************************************************)
(* What the key-value store's specification and its implementation both    *)
(* speak of: the rows of the table KeyValue and the calls of its users.    *)
(***************************************************************************)
EXTENDS Integers

CONSTANTS
  Conn,      (* the threads of the bot, each with a connection of its own     *)
  NoConn,    (* no thread                                                     *)
  Key,
  Value,
  Null,      (* no value: kvGet's NULL                                        *)
  NoRow,     (* no row for a key                                              *)
  TTL        (* the `expire' arguments callers give; 0 is "for ever"          *)

Row == [value : Value, expire : Nat]

ASSUME KVConstants ==
  /\ NoConn \notin Conn
  /\ Null \notin Value
  /\ NoRow \notin Row
  /\ TTL \subseteq Nat

(* A call: its kind, key, and for kvSet the row it wants to store.           *)
Call == [kind : {"get", "del"}, key : Key]
          \cup [kind : {"set"}, key : Key, row : Row]
NoCall == [kind |-> "none"]

SetCall(k, v, e) ==
  [kind |-> "set", key |-> k, row |-> [value |-> v, expire |-> e]]
GetCall(k) == [kind |-> "get", key |-> k]
DelCall(k) == [kind |-> "del", key |-> k]

(* if (expire) expire += time(NULL)                                          *)
ExpireAtBackwards(ttl, now) == IF ttl = 0 THEN 0 ELSE ttl - now
ExpireAt(ttl, now) == IF ttl = 0 THEN 0 ELSE ttl + now

(* expire && expire < time(NULL)                                             *)
Expired(row, now) == row.expire # 0 /\ row.expire < now
=============================================================================
