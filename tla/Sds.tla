-------------------------------- MODULE Sds --------------------------------
(***************************************************************************)
(* The strings of sds.c.  A string is one allocation: a header, whose type *)
(* decides how wide its length and capacity fields are, the bytes, and a   *)
(* zero byte after them.  The functions move a string to a header of       *)
(* another type as it grows and shrinks, and everything depends on the     *)
(* header's fields agreeing with what was really allocated.                *)
(*                                                                         *)
(* One string is modelled, since functions do not share strings.  Lengths  *)
(* of the five header types are the constant Limit, and the allocator      *)
(* exits instead of failing (botlib.c:210-228).                            *)
(***************************************************************************)
EXTENDS SdsTypes

CONSTANTS
  Limit,     (* Limit[t]: first length too large for the fields of type t *)
  Prealloc,  (* SDS_MAX_PREALLOC                                          *)
  Garbage    (* what an allocated cell holds before it is written         *)

Type == 0 .. 4                     \* SDS_TYPE_5, 8, 16, 32, 64

(* The types are in order of width, and the widest is far from being full:   *)
(* a size_t does not overflow.                                               *)
ASSUME LimitsOK ==
  /\ Limit \in [Type -> Nat]
  /\ 0 < Limit[0]
  /\ \A t \in 0 .. 3 : Limit[t] < Limit[t + 1]
  /\ Prealloc \in Nat
  /\ 8 * MaxLen + Prealloc < Limit[4]
  /\ Garbage \notin Byte

VARIABLES
  s,     \* the string: its header, its memory and whether every use was legal
  left,  \* sdscatfmt: characters of the format not yet processed, or Idle
  at     \* sdscatfmt: i, the position of the next byte to write

vars == <<s, left, at, call>>

Idle == -1
Cell == Byte \cup {Garbage}

(* A header, and the cells after it: those of the bytes and of the zero.     *)
(* For the narrowest type there is no capacity field.                        *)
String == [type : Type, len : Nat, alloc : Nat, cells : Seq(Cell), ok : BOOLEAN]

-----------------------------------------------------------------------------
(* The allocator and the access to memory.  A write outside the allocation   *)
(* and a failed assertion are recorded in ok.                                *)

Allocated(cells, keep, n) ==
  [i \in 1 .. n + 1 |-> IF i <= keep /\ i <= Len(cells) THEN cells[i] ELSE Garbage]

(* malloc() and a copy of the first keep cells, or realloc(), which keeps    *)
(* them all.                                                                 *)
malloc(h, keep, n) ==
  [h EXCEPT !.cells = Allocated(h.cells, keep, n),
            !.ok = h.ok /\ keep <= n + 1 /\ keep <= Len(h.cells)]
reallocNoNul(h, n) == [h EXCEPT !.cells = Allocated(h.cells, Len(h.cells), n - 1)]
realloc(h, n) == [h EXCEPT !.cells = Allocated(h.cells, Len(h.cells), n)]

Put(h, i, t) ==
  [h EXCEPT !.cells = [k \in 1 .. Len(h.cells) |->
                         IF i < k /\ k <= i + Len(t) THEN t[k - i] ELSE h.cells[k]],
            !.ok = h.ok /\ i + Len(t) <= Len(h.cells)]
PutNul(h, i) == Put(h, i, <<NUL>>)
Assert_(h, cond) == [h EXCEPT !.ok = h.ok /\ cond]

-----------------------------------------------------------------------------
(* The fields of the header: a value is cut to the width of the type.        *)

sdsReqTypeAtMost(n) ==
  LET wide == {t \in 0 .. 3 : n <= Limit[t]}
  IN  IF wide = {} THEN 4 ELSE CHOOSE t \in wide : \A u \in wide : t <= u
sdsReqType(n) ==
  LET wide == {t \in 0 .. 3 : n < Limit[t]}
  IN  IF wide = {} THEN 4 ELSE CHOOSE t \in wide : \A u \in wide : t <= u

sdssetlen(h, n) == [h EXCEPT !.len = n % Limit[h.type]]
sdssetalloc(h, n) ==
  [h EXCEPT !.alloc = IF h.type = 0 THEN 0 ELSE n % Limit[h.type]]
sdsavail(h) == IF h.type = 0 THEN 0 ELSE h.alloc - h.len
sdsalloc(h) == IF h.type = 0 THEN h.len ELSE h.alloc

NotFive(t) == IF t = 0 THEN 1 ELSE t
ChangeType(h, t) == [h EXCEPT !.type = t]

-----------------------------------------------------------------------------
(* The functions that allocate.                                              *)

sdsnewlen(t) ==
  LET type == IF Len(t) = 0 THEN NotFive(sdsReqType(0)) ELSE sdsReqType(Len(t))
      h == [type |-> type, len |-> 0, alloc |-> 0, ok |-> TRUE,
            cells |-> Allocated(<<>>, 0, Len(t))]
  IN  PutNul(Put(sdssetalloc(sdssetlen(h, Len(t)), Len(t)), 0, t), Len(t))

Greedy(n) == IF n < Prealloc THEN 2 * n ELSE n + Prealloc

Grown(h, n) ==
  LET type == NotFive(sdsReqType(n))
      moved == IF type = h.type
                 THEN realloc(h, n)
                 ELSE sdssetlen(ChangeType(malloc(h, h.len + 1, n), type), h.len)
  IN  sdssetalloc(moved, n)

sdsMakeRoomFor(h, addlen) ==
  IF sdsavail(h) >= addlen THEN h ELSE Grown(h, Greedy(h.len + addlen))

Shrunk(h) ==
  LET type == sdsReqType(h.len)
  IN  IF h.type = type \/ type > 1
        THEN realloc(h, h.len)
        ELSE sdssetlen(ChangeType(malloc(h, h.len + 1, h.len), type), h.len)
RemoveFreeSpaceOldAlloc(h) ==
  IF sdsavail(h) = 0 THEN h ELSE sdssetalloc(Shrunk(h), h.alloc)
sdsRemoveFreeSpace(h) ==
  IF sdsavail(h) = 0 THEN h ELSE sdssetalloc(Shrunk(h), h.len)

-----------------------------------------------------------------------------
(* The functions that write.                                                 *)

sdscatlen(h, t) ==
  LET room == sdsMakeRoomFor(h, Len(t))
  IN  PutNul(sdssetlen(Put(room, h.len, t), h.len + Len(t)), h.len + Len(t))

sdscpylen(h, t) ==
  LET room == IF sdsalloc(h) < Len(t)
                THEN sdsMakeRoomFor(h, Len(t) - h.len) ELSE h
  IN  sdssetlen(PutNul(Put(room, 0, t), Len(t)), Len(t))

GrowZeroNoMemset(h, n) ==
  IF n <= h.len THEN h
    ELSE sdssetlen(PutNul(sdsMakeRoomFor(h, n - h.len), n), n)
(* The added bytes and the zero after them are cleared.                      *)
sdsgrowzero(h, n) ==
  IF n <= h.len THEN h
    ELSE sdssetlen(Put(sdsMakeRoomFor(h, n - h.len), h.len, Zeros(n - h.len + 1)), n)

sdsclear(h) == PutNul(sdssetlen(h, 0), 0)

(* Where strlen() stops: at the first zero byte.                             *)
StrlenIs(h, n) ==
  /\ h.cells[n + 1] = NUL
  /\ \A i \in 1 .. n : h.cells[i] # NUL
sdsupdatelen(h, strlen) == sdssetlen(h, strlen)

sdsIncrLen(h, incr) ==
  LET legal == IF h.type = 0
                 THEN \/ incr > 0 /\ h.len + incr < Limit[0]
                      \/ incr < 0 /\ h.len >= -incr
                 ELSE \/ incr >= 0 /\ h.alloc - h.len >= incr
                      \/ incr < 0 /\ h.len >= -incr
  IN  PutNul(sdssetlen(Assert_(h, legal), h.len + incr), h.len + incr)

(* The bytes from start, newlen of them, come to the front.                  *)
KeepOnly(h, start, newlen) ==
  sdssetlen(PutNul(Put(h, 0, SubSeq(h.cells, start + 1, start + newlen)), newlen), newlen)

(* Where the loops of sdstrim() stop: sp at the first byte to be kept, ep at *)
(* the last one or, if there is none, before sp.  strchr() finds the zero    *)
(* byte in every set.                                                        *)
Trimmed(h, cset, i) == h.cells[i + 1] \in cset \cup {NUL}
TrimStops(h, cset, sp, ep) ==
  /\ \A i \in 0 .. sp - 1 : Trimmed(h, cset, i)
  /\ sp < h.len => ~Trimmed(h, cset, sp)
  /\ \A i \in ep + 1 .. h.len - 1 : Trimmed(h, cset, i)
  /\ sp <= ep => ~Trimmed(h, cset, ep)
sdstrim(h, sp, ep) == KeepOnly(h, sp, (ep - sp) + 1)

(* An index counted from the end of a string of n bytes, as sdsrange() does. *)
Absolute(i, n) ==
  IF i >= 0 THEN i ELSE IF n + i < 0 THEN 0 ELSE n + i
NewLen(start, end, n) ==
  IF start > end \/ start >= n THEN 0
    ELSE IF end >= n THEN n - start ELSE (end - start) + 1
sdsrange(h, start, end) ==
  IF h.len = 0 THEN h
    ELSE LET from == Absolute(start, h.len)
             n == NewLen(from, Absolute(end, h.len), h.len)
         IN  KeepOnly(h, IF n = 0 THEN 0 ELSE from, n)

(* sdstolower(), sdstoupper() and sdsmapchars() replace byte by byte.        *)
sdsmapchars(h, f) ==
  [h EXCEPT !.cells = [k \in 1 .. Len(h.cells) |->
                         IF k <= h.len THEN f[h.cells[k]] ELSE h.cells[k]]]

-----------------------------------------------------------------------------
Init == /\ s \in {sdsnewlen(t) : t \in Text}
        /\ left = Idle /\ at = 0 /\ NoCallYet

Ready == left = Idle /\ UNCHANGED <<left, at>>
Fits(n) == s.len + n <= MaxLen

(* sdsnew(), sdsempty(), sdsdup(), sdsfromlonglong(): another string in the  *)
(* same variable, after sdsfree().                                           *)
New_(t) == Ready /\ Does("sdsnewlen", t) /\ s' = sdsnewlen(t)
(* sdscat(), sdscatsds(), sdscatprintf(), and each step of sdscatrepr(),     *)
(* sdsjoin() and sdsjoinsds().                                               *)
Cat(t) ==
  Ready /\ Fits(Len(t)) /\ Does("sdscatlen", t) /\ s' = sdscatlen(s, t)
Cpy(t) == Ready /\ Does("sdscpylen", t) /\ s' = sdscpylen(s, t)
GrowTo(n) == Ready /\ Does("sdsgrowzero", n) /\ s' = sdsgrowzero(s, n)
MakeRoom(n) ==
  Ready /\ Fits(n) /\ Does("sdsMakeRoomFor", n) /\ s' = sdsMakeRoomFor(s, n)
RemoveFreeSpace ==
  Ready /\ Does("sdsRemoveFreeSpace", "none") /\ s' = sdsRemoveFreeSpace(s)
Clear == Ready /\ Does("sdsclear", "none") /\ s' = sdsclear(s)
UpdateLen ==
  /\ Ready /\ Does("sdsupdatelen", "none")
  /\ \E n \in 0 .. Len(s.cells) - 1 : StrlenIs(s, n) /\ s' = sdsupdatelen(s, n)
TrimSet(cset) ==
  /\ Ready /\ Does("sdstrim", cset)
  /\ \E sp \in 0 .. s.len : \E ep \in sp - 1 .. s.len - 1 :
       TrimStops(s, cset, sp, ep) /\ s' = sdstrim(s, sp, ep)
RangeOf(start, end) ==
  Ready /\ Does("sdsrange", <<start, end>>) /\ s' = sdsrange(s, start, end)
MapChars(f) == Ready /\ Does("sdsmapchars", f) /\ s' = sdsmapchars(s, f)

(* How sdsIncrLen() is to be used: make room for n bytes, let read() put at  *)
(* most as many there, and add what it read; or take away from the end.      *)
ReadInto(n, t) ==
  /\ Ready /\ Fits(n) /\ 0 < n /\ Len(t) <= n /\ Does("read", t)
  /\ s' = sdsIncrLen(Put(sdsMakeRoomFor(s, n), s.len, t), Len(t))
CutEnd(n) ==
  Ready /\ n \in 1 .. s.len /\ Does("sdsIncrLen", -n) /\ s' = sdsIncrLen(s, -n)

(* sdscatfmt(): room for twice the format, then one specifier or character   *)
(* of the format at a time, then the zero byte.  Between the steps the string *)
(* has no zero byte after it.                                                *)
BeginFmt(n) ==
  /\ left = Idle /\ Fits(n) /\ Does("sdscatfmt", <<>>)
  /\ s' = sdsMakeRoomFor(s, s.len + 2 * n)
  /\ left' = n
  /\ at' = s.len

AtLeastOne(h) == IF sdsavail(h) = 0 THEN sdsMakeRoomFor(h, 1) ELSE h
RoomFor(h, n) == IF sdsavail(h) < n THEN sdsMakeRoomFor(h, n) ELSE h

PutNext(h, t) ==
  /\ Does("sdscatfmt", t)
  /\ s' = sdssetlen(Put(h, at, t), h.len + Len(t))    \* sdsinclen(s,l)
  /\ at' = at + Len(t)

(* A character of the format, or the one after a %, is copied.               *)
FmtCopies(b, used) ==
  /\ used <= left /\ left' = left - used
  /\ b # NUL
  /\ PutNext(AtLeastOne(s), <<b>>)
(* %s, %S, %i, %I, %u and %U: a text or the digits of a number.              *)
FmtInserts(t) ==
  /\ 2 <= left /\ left' = left - 2
  /\ Fits(Len(t) + left')
  /\ PutNext(RoomFor(AtLeastOne(s), Len(t)), t)
EndFmt ==
  /\ left = 0 /\ left' = Idle /\ at' = 0 /\ Does("sdscatfmt", <<>>)
  /\ s' = PutNul(s, at)

Next ==
  \/ \E t \in Text : New_(t) \/ Cat(t) \/ Cpy(t)
  \/ \E n \in 0 .. MaxLen : GrowTo(n) \/ MakeRoom(n) \/ CutEnd(n)
  \/ RemoveFreeSpace \/ Clear \/ UpdateLen
  \/ \E cset \in CharSet : TrimSet(cset)
  \/ \E start, end \in Index : RangeOf(start, end)
  \/ \E f \in ByteMap : MapChars(f)
  \/ \E n \in 0 .. MaxLen, t \in Text : ReadInto(n, t)
  \/ \E n \in 0 .. MaxArg : BeginFmt(n)
  \/ \E b \in Byte, used \in 1 .. 2 : FmtCopies(b, used)
  \/ \E t \in Text : FmtInserts(t)
  \/ EndFmt

Spec == Init /\ [][Next]_vars

-----------------------------------------------------------------------------
(* Properties.                                                               *)

Content == [i \in 1 .. s.len |-> s.cells[i]]

(* Every variable of the code has its type, and the string is made of bytes  *)
(* that were written: nothing shows memory as the allocator left it.         *)
TypeOK ==
  /\ s \in String
  /\ left \in {Idle} \cup 0 .. MaxArg
  /\ at \in Nat
  /\ s.len <= Len(s.cells)
  /\ Content \in Seq(Byte)

(* Through any sequence of calls nothing is written outside the allocation,  *)
(* no assertion of sdsIncrLen() fails when it is used as sds.c:321-332 says, *)
(* and the zero byte that printf() relies on is there whenever a function    *)
(* has returned (sds.c:81-88).                                               *)
MemorySafe ==
  /\ s.ok
  /\ s.len < Len(s.cells)
  /\ left = Idle => s.cells[s.len + 1] = NUL

(* A header with a capacity field knows exactly what was allocated, through  *)
(* every change of type: no memory is lost to it and none is invented        *)
(* (sds.c:245, 288).                                                         *)
KnowsCapacity == s.type > 0 => Len(s.cells) = s.alloc + 1

(* Lengths, header types and free space cannot be seen: each call does to    *)
(* the bytes what SdsSpec says of that call and its argument.                *)
Abstract == INSTANCE SdsSpec WITH val <- Content
Implements == Abstract!SdsSpec
=============================================================================
