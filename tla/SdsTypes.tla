------------------------------ MODULE SdsTypes ------------------------------
(***************************************************************************)
(* The bytes, arguments and calls of the sds functions, for the abstract   *)
(* strings of SdsSpec and the strings in memory of Sds.                    *)
(***************************************************************************)
EXTENDS Integers, Sequences

CONSTANTS
  Byte,     (* the bytes a string is made of                              *)
  NUL,      (* the zero byte                                              *)
  CharSet,  (* the sets of characters sdstrim() is called with            *)
  Index,    (* the indexes sdsrange() is called with                      *)
  ByteMap,  (* what sdstolower(), sdstoupper(), sdsmapchars() do to bytes *)
  MaxArg,   (* bound: length of a byte string passed to a function        *)
  MaxLen    (* bound: length of a string                                  *)

ASSUME BytesOK ==
  /\ NUL \in Byte
  /\ \A cset \in CharSet : cset \subseteq Byte
  /\ Index \subseteq Int
  /\ ByteMap \subseteq [Byte -> Byte]
  /\ MaxArg \in Nat /\ MaxLen \in Nat /\ MaxArg <= MaxLen

Text == UNION {[1 .. n -> Byte] : n \in 0 .. MaxArg}

(* The bytes sdsgrowzero() adds. *)
Zeros(n) == [i \in 1 .. n |-> NUL]

VARIABLE call   \* history: the last call, with its argument, and whether it is
                \* an odd one, so that the same call made again is another

Does(fn, arg) == call' = <<~call[1], fn, arg>>
NoCallYet == call = <<FALSE, "none", "none">>
=============================================================================
