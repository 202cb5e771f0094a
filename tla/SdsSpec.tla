------------------------------ MODULE SdsSpec ------------------------------
(***************************************************************************)
(* What an sds string promises: it is a sequence of bytes, any of which    *)
(* may be zero, and each function of sds.c changes that sequence as below. *)
(* Where the bytes are kept, and in how much memory, cannot be seen.       *)
(***************************************************************************)
EXTENDS SdsTypes

VARIABLE val

(* The bytes sdstrim() takes away: those of the set, and zero bytes, which   *)
(* strchr() finds at the end of every set.                                   *)
Blank(cset) == cset \cup {NUL}

TrimmedFrom(text, cset, first, last) ==
  /\ \A i \in 1 .. Len(text) : i \notin first .. last => text[i] \in Blank(cset)
  /\ first <= last => /\ text[first] \notin Blank(cset)
                      /\ text[last] \notin Blank(cset)

(* Negative indexes count from the end, and none goes before the start.      *)
FromStart(i, n) == IF i >= 0 THEN i ELSE IF n + i < 0 THEN 0 ELSE n + i
AtMost(i, n) == IF i < n THEN i ELSE n

Become(t) == val' = t
Append_(t) == val' = val \o t
GrowZero(n) ==
  val' = IF n > Len(val) THEN val \o Zeros(n - Len(val)) ELSE val
Truncate(n) == n <= Len(val) /\ val' = SubSeq(val, 1, n)
UpToNul ==
  \E n \in 0 .. Len(val) :
    /\ \A i \in 1 .. n : val[i] # NUL
    /\ n < Len(val) => val[n + 1] = NUL
    /\ Truncate(n)
Trim(cset) ==
  \E first \in 1 .. Len(val) + 1, last \in 0 .. Len(val) :
    /\ TrimmedFrom(val, cset, first, last)
    /\ val' = SubSeq(val, first, last)
Range_(start, end) ==
  val' = SubSeq(val, FromStart(start, Len(val)) + 1,
                AtMost(FromStart(end, Len(val)) + 1, Len(val)))
MapBytes(f) == val' = [i \in 1 .. Len(val) |-> f[val[i]]]

SdsInit == val \in Text /\ NoCallYet

(* What the functions do that make, copy and append.  "read" stands for what *)
(* sdsIncrLen() adds, and sdscatfmt() is a call for each piece it appends.   *)
TextCall(t) ==
  \/ Does("sdsnewlen", t) /\ Become(t)
  \/ Does("sdscpylen", t) /\ Become(t)
  \/ Does("sdscatlen", t) /\ Append_(t)
  \/ Does("read", t) /\ Append_(t)
  \/ Does("sdscatfmt", t) /\ Append_(t)

LengthCall(n) ==
  \/ Does("sdsgrowzero", n) /\ GrowZero(n)
  \/ Does("sdsIncrLen", -n) /\ n <= Len(val) /\ Truncate(Len(val) - n)
  \/ Does("sdsMakeRoomFor", n) /\ UNCHANGED val

OtherCall ==
  \/ Does("sdsRemoveFreeSpace", "none") /\ UNCHANGED val
  \/ Does("sdsclear", "none") /\ Truncate(0)
  \/ Does("sdsupdatelen", "none") /\ UpToNul
  \/ \E cset \in CharSet : Does("sdstrim", cset) /\ Trim(cset)
  \/ \E start, end \in Index : Does("sdsrange", <<start, end>>) /\ Range_(start, end)
  \/ \E f \in ByteMap : Does("sdsmapchars", f) /\ MapBytes(f)

SdsNext ==
  \/ \E t \in Text : TextCall(t)
  \/ \E n \in 0 .. MaxLen : LengthCall(n)
  \/ OtherCall

SdsSpec == SdsInit /\ [][SdsNext]_<<val, call>>
=============================================================================
