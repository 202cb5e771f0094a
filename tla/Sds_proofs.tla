----------------------------- MODULE Sds_proofs -----------------------------
(***************************************************************************)
(* Proof that the strings of sds.c stay within their memory, whatever the  *)
(* calls and for every width of the header types, and that they behave as  *)
(* sequences of bytes.                                                     *)
(***************************************************************************)
EXTENDS Sds, TLAPS

(* A header that agrees with the allocation, whatever its length field says. *)
Consistent(h) ==
  /\ h \in String
  /\ h.ok
  /\ h.type > 0 => Len(h.cells) = h.alloc + 1 /\ h.alloc < Limit[h.type]

(* A string whose header tells the truth.  The zero byte after it is apart,  *)
(* since sdscatfmt() does without it until it has finished.                  *)
Sound(h) ==
  /\ Consistent(h)
  /\ h.len < Limit[h.type]
  /\ h.len < Len(h.cells)
  /\ \A i \in 1 .. h.len : h.cells[i] \in Byte

Ended(h) == h.cells[h.len + 1] = NUL

IInv ==
  /\ Sound(s)
  /\ s.len <= MaxLen
  /\ left \in {Idle} \cup 0 .. MaxArg
  /\ at \in Nat
  /\ left = Idle => Ended(s)
  /\ left # Idle => at = s.len /\ s.len + left <= MaxLen

-----------------------------------------------------------------------------
(* Arithmetic of the header.                                                 *)

LEMMA LimitFacts ==
  /\ \A t \in Type : Limit[t] \in Nat /\ Limit[t] > 0
  /\ \A t \in Type : Limit[t] <= Limit[4]
  /\ MaxLen \in Nat /\ 8 * MaxLen + Prealloc < Limit[4] /\ Prealloc \in Nat
  /\ Limit[4] \in Nat
BY LimitsOK, BytesOK DEF Type

LEMMA SmallModulo ==
  ASSUME NEW m \in Nat, NEW n \in Nat, n < m
  PROVE  n % m = n
OBVIOUS

LEMMA FunctionIsSequence ==
  ASSUME NEW S, NEW n \in Nat, NEW f \in [1 .. n -> S]
  PROVE  f \in Seq(S) /\ Len(f) = n
OBVIOUS

LEMMA ConcatElements ==
  ASSUME NEW S, NEW a \in Seq(S), NEW b \in Seq(S)
  PROVE  /\ a \o b \in Seq(S) /\ Len(a \o b) = Len(a) + Len(b)
         /\ \A k \in 1 .. Len(a) + Len(b) :
              (a \o b)[k] = IF k <= Len(a) THEN a[k] ELSE b[k - Len(a)]
OBVIOUS

LEMMA EmptySubSeq ==
  ASSUME NEW S, NEW q \in Seq(S), NEW m \in Int, NEW k \in Int, k < m
  PROVE  SubSeq(q, m, k) = <<>>
OBVIOUS

(* The type asked for is wide enough.                                        *)
LEMMA ReqTypeIsWide ==
  ASSUME NEW n \in Nat, n < Limit[4]
  PROVE  sdsReqType(n) \in Type /\ n < Limit[sdsReqType(n)]
<1> DEFINE wide == {t \in 0 .. 3 : n < Limit[t]}
<1>1. CASE wide = {}
  BY <1>1 DEF sdsReqType, Type
<1>2. CASE wide # {}
  <2>1. \E t \in wide : \A u \in wide : t <= u
    <3>1. CASE 0 \in wide BY <3>1
    <3>2. CASE 0 \notin wide /\ 1 \in wide BY <3>2
    <3>3. CASE 0 \notin wide /\ 1 \notin wide /\ 2 \in wide BY <3>3
    <3>4. CASE wide \cap 0 .. 2 = {} BY <3>4, <1>2
    <3> QED BY <3>1, <3>2, <3>3, <3>4
  <2>2. (CHOOSE t \in wide : \A u \in wide : t <= u) \in wide
    BY <2>1
  <2>3. sdsReqType(n) = CHOOSE t \in wide : \A u \in wide : t <= u
    BY <1>2 DEF sdsReqType
  <2> QED BY <2>2, <2>3 DEF Type
<1> QED BY <1>1, <1>2

LEMMA NotFiveIsWide ==
  ASSUME NEW t \in Type, NEW n \in Nat, n < Limit[t]
  PROVE  NotFive(t) \in 1 .. 4 /\ n < Limit[NotFive(t)]
BY LimitsOK DEF NotFive, Type

-----------------------------------------------------------------------------
(* What the functions on memory leave as it was.                             *)

(* Same bytes, and the same zero byte after them.                            *)
SameBytes(h, r) ==
  /\ r.len = h.len
  /\ \A i \in 1 .. h.len + 1 : r.cells[i] = h.cells[i]

LEMMA AllocatedCells ==
  ASSUME NEW cells \in Seq(Cell), NEW keep \in Nat, NEW n \in Nat
  PROVE  /\ Allocated(cells, keep, n) \in Seq(Cell)
         /\ Len(Allocated(cells, keep, n)) = n + 1
         /\ \A i \in 1 .. n + 1 :
              i <= keep /\ i <= Len(cells) => Allocated(cells, keep, n)[i] = cells[i]
BY DEF Allocated, Cell

LEMMA PutCells ==
  ASSUME NEW h \in String, NEW i \in Nat, NEW t \in Seq(Byte)
  PROVE  /\ Put(h, i, t) \in String
         /\ Len(Put(h, i, t).cells) = Len(h.cells)
         /\ Put(h, i, t).type = h.type /\ Put(h, i, t).len = h.len
         /\ Put(h, i, t).alloc = h.alloc
         /\ Put(h, i, t).ok = (h.ok /\ i + Len(t) <= Len(h.cells))
         /\ \A k \in 1 .. Len(h.cells) :
              Put(h, i, t).cells[k] =
                IF i < k /\ k <= i + Len(t) THEN t[k - i] ELSE h.cells[k]
<1> DEFINE new == [k \in 1 .. Len(h.cells) |->
                     IF i < k /\ k <= i + Len(t) THEN t[k - i] ELSE h.cells[k]]
<1>1. Len(h.cells) \in Nat /\ \A k \in 1 .. Len(h.cells) : new[k] \in Cell
  BY DEF String, Cell
<1>2. new \in Seq(Cell) /\ Len(new) = Len(h.cells)
  <2>1. new \in [1 .. Len(h.cells) -> Cell]
    BY <1>1
  <2> HIDE DEF new
  <2> QED BY <1>1, <2>1, FunctionIsSequence
<1>3. Put(h, i, t) = [h EXCEPT !.cells = new,
                               !.ok = h.ok /\ i + Len(t) <= Len(h.cells)]
  BY DEF Put
<1> HIDE DEF new
<1>4. Put(h, i, t) \in String
  BY <1>2, <1>3 DEF String
<1>5. Put(h, i, t).cells = new
  BY <1>3 DEF String
<1> QED BY <1>2, <1>3, <1>4, <1>5 DEF String, new

LEMMA SetLenFields ==
  ASSUME NEW h \in String, NEW n \in Nat, n < Limit[h.type]
  PROVE  /\ sdssetlen(h, n) \in String
         /\ sdssetlen(h, n) = [h EXCEPT !.len = n]
<1>1. h.type \in Type BY DEF String
<1>2. Limit[h.type] \in Nat BY <1>1, LimitFacts
<1>3. n % Limit[h.type] = n BY <1>2, SmallModulo
<1> QED BY <1>3 DEF sdssetlen, String

LEMMA SetAllocFields ==
  ASSUME NEW h \in String, NEW n \in Nat, h.type > 0 => n < Limit[h.type]
  PROVE  /\ sdssetalloc(h, n) \in String
         /\ sdssetalloc(h, n) = [h EXCEPT !.alloc = IF h.type = 0 THEN 0 ELSE n]
<1>1. h.type \in Type BY DEF String
<1>2. Limit[h.type] \in Nat BY <1>1, LimitFacts
<1>3. h.type # 0 => n % Limit[h.type] = n BY <1>1, <1>2, SmallModulo DEF Type
<1> QED BY <1>3 DEF sdssetalloc, String

(* malloc() and realloc(): the string moves with its bytes and its zero.     *)
LEMMA MallocFields ==
  ASSUME NEW h \in String, NEW keep \in Nat, NEW n \in Nat
  PROVE  /\ malloc(h, keep, n) \in String
         /\ malloc(h, keep, n).cells = Allocated(h.cells, keep, n)
         /\ malloc(h, keep, n).type = h.type /\ malloc(h, keep, n).len = h.len
         /\ malloc(h, keep, n).ok = (h.ok /\ keep <= n + 1 /\ keep <= Len(h.cells))
<1>1. h.cells \in Seq(Cell) BY DEF String
<1>2. Allocated(h.cells, keep, n) \in Seq(Cell)
  BY <1>1, AllocatedCells
<1> QED BY <1>2 DEF malloc, String

LEMMA ReallocFields ==
  ASSUME NEW h \in String, NEW n \in Nat
  PROVE  /\ realloc(h, n) \in String
         /\ realloc(h, n).cells = Allocated(h.cells, Len(h.cells), n)
         /\ realloc(h, n).type = h.type /\ realloc(h, n).len = h.len
         /\ realloc(h, n).ok = h.ok
<1>1. h.cells \in Seq(Cell) /\ Len(h.cells) \in Nat BY DEF String
<1>2. Allocated(h.cells, Len(h.cells), n) \in Seq(Cell)
  BY <1>1, AllocatedCells
<1> QED BY <1>2 DEF realloc, String

(* Moving a sound string to n cells and a header of type t.                  *)
LEMMA MovedIsSound ==
  ASSUME NEW h, Sound(h), NEW n \in Nat, h.len <= n,
         NEW t \in Type, n < Limit[t], NEW r \in String,
         r.type = t, r.len = h.len, r.ok = TRUE,
         r.alloc = IF t = 0 THEN 0 ELSE n,
         NEW keep \in Nat, keep > h.len, r.cells = Allocated(h.cells, keep, n)
  PROVE  Sound(r) /\ SameBytes(h, r)
<1>1. h.cells \in Seq(Cell) /\ h.len \in Nat /\ Len(h.cells) \in Nat
      /\ h.len < Len(h.cells) /\ \A i \in 1 .. h.len : h.cells[i] \in Byte
  BY DEF Sound, Consistent, String
<1>2. Len(r.cells) = n + 1
      /\ \A i \in 1 .. n + 1 :
           i <= keep /\ i <= Len(h.cells) => r.cells[i] = h.cells[i]
  <2>1. Len(Allocated(h.cells, keep, n)) = n + 1
        /\ \A i \in 1 .. n + 1 :
             i <= keep /\ i <= Len(h.cells)
               => Allocated(h.cells, keep, n)[i] = h.cells[i]
    BY <1>1, AllocatedCells
  <2> QED BY <2>1
<1>3. \A i \in 1 .. h.len + 1 : r.cells[i] = h.cells[i]
  BY <1>1, <1>2
<1>4. Limit[t] \in Nat BY LimitFacts
<1>5. r.len < Limit[r.type] /\ r.len < Len(r.cells)
  BY <1>1, <1>2, <1>4
<1>6. \A i \in 1 .. r.len : r.cells[i] \in Byte
  BY <1>1, <1>3
<1>7. r.type > 0 => Len(r.cells) = r.alloc + 1 /\ r.alloc < Limit[r.type]
  BY <1>2 DEF Type
<1> QED BY <1>3, <1>5, <1>6, <1>7 DEF Sound, Consistent, SameBytes

LEMMA MakeRoomIsSound ==
  ASSUME NEW h, Sound(h), NEW addlen \in Nat,
         2 * (h.len + addlen) + Prealloc < Limit[4]
  PROVE  /\ Sound(sdsMakeRoomFor(h, addlen))
         /\ SameBytes(h, sdsMakeRoomFor(h, addlen))
         /\ addlen <= sdsavail(sdsMakeRoomFor(h, addlen))
<1> DEFINE n == Greedy(h.len + addlen)
           type == NotFive(sdsReqType(n))
           moved == IF type = h.type
                      THEN realloc(h, n)
                      ELSE sdssetlen(ChangeType(malloc(h, h.len + 1, n), type), h.len)
           r == sdssetalloc(moved, n)
<1>1. CASE sdsavail(h) >= addlen
  BY <1>1 DEF sdsMakeRoomFor, SameBytes, Sound, Consistent, String, sdsavail
<1>2. CASE ~(sdsavail(h) >= addlen)
  <2>1. h \in String /\ h.ok /\ h.len \in Nat /\ h.type \in Type
        /\ h.len < Len(h.cells) /\ Len(h.cells) \in Nat
    BY DEF Sound, Consistent, String
  <2>2. n \in Nat /\ h.len + addlen <= n /\ n < Limit[4]
    <3> DEFINE k == h.len + addlen
    <3>1. k \in Nat /\ Prealloc \in Nat /\ Limit[4] \in Nat /\ 2 * k + Prealloc < Limit[4]
      BY <2>1, LimitsOK, LimitFacts, Z3T(20) DEF Type
    <3> HIDE DEF k
    <3>2. Greedy(k) \in Nat /\ k <= Greedy(k) /\ Greedy(k) < Limit[4]
      BY <3>1 DEF Greedy
    <3> QED BY <3>2 DEF k
  <2>3. type \in 1 .. 4 /\ n < Limit[type]
    BY <2>2, ReqTypeIsWide, NotFiveIsWide
  <2>4. sdsMakeRoomFor(h, addlen) = r
    BY <1>2 DEF sdsMakeRoomFor, Grown
  <2> HIDE DEF n, type
  <2>5. PICK keep \in Nat :
          /\ moved \in String /\ moved.type = type /\ moved.len = h.len
          /\ moved.ok = TRUE /\ keep > h.len
          /\ moved.cells = Allocated(h.cells, keep, n)
    <3>1. CASE type = h.type
      BY <2>1, <2>2, <3>1, ReallocFields
    <3>2. CASE type # h.type
      <4> DEFINE m == malloc(h, h.len + 1, n)
                 c == ChangeType(m, type)
      <4>1. /\ m \in String /\ m.cells = Allocated(h.cells, h.len + 1, n)
            /\ m.len = h.len /\ m.ok = TRUE
        <5>1. h.len + 1 \in Nat /\ h.len + 1 <= n + 1 /\ h.len + 1 <= Len(h.cells)
          BY <2>1, <2>2, Z3T(20)
        <5>2. /\ m \in String /\ m.cells = Allocated(h.cells, h.len + 1, n)
              /\ m.len = h.len
              /\ m.ok = (h.ok /\ h.len + 1 <= n + 1 /\ h.len + 1 <= Len(h.cells))
          BY <2>1, <2>2, <5>1, MallocFields
        <5> QED BY <2>1, <5>1, <5>2
      <4> HIDE DEF m
      <4>2. /\ c \in String /\ c.cells = m.cells /\ c.len = m.len /\ c.ok = m.ok
            /\ c.type = type
        BY <2>3, <4>1 DEF ChangeType, String, Type
      <4> HIDE DEF c
      <4>3. h.len < Limit[c.type]
        <5>1. Limit[type] \in Nat BY <2>3, LimitFacts DEF Type
        <5> QED BY <2>1, <2>2, <2>3, <4>2, <5>1
      <4>4. sdssetlen(c, h.len) \in String
            /\ sdssetlen(c, h.len) = [c EXCEPT !.len = h.len]
        BY <2>1, <4>2, <4>3, SetLenFields
      <4>5. moved = sdssetlen(c, h.len)
        BY <3>2 DEF c, m
      <4> HIDE DEF moved
      <4>6. /\ moved \in String /\ moved.type = type /\ moved.len = h.len
            /\ moved.ok = TRUE
            /\ moved.cells = Allocated(h.cells, h.len + 1, n)
        BY <2>1, <4>1, <4>2, <4>4, <4>5 DEF String
      <4>7. h.len + 1 \in Nat /\ h.len + 1 > h.len
        BY <2>1
      <4> QED BY <4>6, <4>7
    <3> QED BY <3>1, <3>2
  <2> HIDE DEF moved
  <2>6. r \in String /\ r = [moved EXCEPT !.alloc = n]
    BY <2>2, <2>3, <2>5, SetAllocFields
  <2>7. /\ r.type = type /\ r.len = h.len /\ r.ok = TRUE /\ r.alloc = n
        /\ r.cells = Allocated(h.cells, keep, n)
    BY <2>5, <2>6 DEF String
  <2> HIDE DEF r
  <2>8. Sound(r) /\ SameBytes(h, r)
    <3>1. type \in Type /\ h.len <= n /\ keep \in Nat /\ keep > h.len
          /\ r.alloc = IF type = 0 THEN 0 ELSE n
      BY <2>1, <2>2, <2>3, <2>5, <2>7 DEF Type
    <3> QED BY <2>2, <2>3, <2>6, <2>7, <3>1, MovedIsSound
  <2>9. addlen <= sdsavail(r)
    BY <2>1, <2>2, <2>3, <2>7 DEF sdsavail
  <2> QED BY <2>4, <2>8, <2>9
<1> QED BY <1>1, <1>2

-----------------------------------------------------------------------------
(* Ending a string at n: the length field and the zero byte, in either order. *)

LEMMA PutIsConsistent ==
  ASSUME NEW h, Consistent(h), NEW i \in Nat, NEW t \in Seq(Byte),
         i + Len(t) <= Len(h.cells)
  PROVE  /\ Consistent(Put(h, i, t))
         /\ Put(h, i, t).type = h.type /\ Put(h, i, t).len = h.len
         /\ Len(Put(h, i, t).cells) = Len(h.cells)
         /\ \A k \in 1 .. Len(h.cells) :
              Put(h, i, t).cells[k] =
                IF i < k /\ k <= i + Len(t) THEN t[k - i] ELSE h.cells[k]
BY PutCells DEF Consistent

LEMMA PutNulIsConsistent ==
  ASSUME NEW h, Consistent(h), NEW n \in Nat, n < Len(h.cells)
  PROVE  /\ Consistent(PutNul(h, n))
         /\ PutNul(h, n).type = h.type /\ PutNul(h, n).len = h.len
         /\ Len(PutNul(h, n).cells) = Len(h.cells)
         /\ PutNul(h, n).cells[n + 1] = NUL
         /\ \A k \in 1 .. n : PutNul(h, n).cells[k] = h.cells[k]
<1> DEFINE q == Put(h, n, <<NUL>>)
<1>1. <<NUL>> \in Seq(Byte) /\ Len(<<NUL>>) = 1 /\ <<NUL>>[1] = NUL
  BY BytesOK
<1>2. h \in String /\ Len(h.cells) \in Nat
  BY DEF Consistent, String
<1>3. n + Len(<<NUL>>) <= Len(h.cells)
  BY <1>1, <1>2
<1>4. /\ Consistent(q)
      /\ q.type = h.type /\ q.len = h.len
      /\ Len(q.cells) = Len(h.cells)
      /\ \A k \in 1 .. Len(h.cells) :
           q.cells[k] = IF n < k /\ k <= n + Len(<<NUL>>) THEN <<NUL>>[k - n]
                                                         ELSE h.cells[k]
  BY <1>1, <1>3, PutIsConsistent
<1>5. PutNul(h, n) = q
  BY DEF PutNul
<1> HIDE DEF q
<1>6. q.cells[n + 1] = <<NUL>>[(n + 1) - n]
  BY <1>1, <1>2, <1>4
<1>7. \A k \in 1 .. n : q.cells[k] = h.cells[k]
  BY <1>2, <1>4
<1> QED BY <1>1, <1>4, <1>5, <1>6, <1>7

LEMMA SetLenIsConsistent ==
  ASSUME NEW h, Consistent(h), NEW n \in Nat, n < Limit[h.type]
  PROVE  /\ Consistent(sdssetlen(h, n))
         /\ sdssetlen(h, n).type = h.type /\ sdssetlen(h, n).len = n
         /\ sdssetlen(h, n).cells = h.cells
<1>1. h \in String BY DEF Consistent
<1>2. sdssetlen(h, n) = [h EXCEPT !.len = n] /\ sdssetlen(h, n) \in String
  BY <1>1, SetLenFields
<1> QED BY <1>1, <1>2 DEF Consistent, String

EndsAt(r, g, n) ==
  /\ Sound(r) /\ Ended(r)
  /\ r.len = n
  /\ \A k \in 1 .. n : r.cells[k] = g.cells[k]

LEMMA EndIsSound ==
  ASSUME NEW g, Consistent(g), NEW n \in Nat,
         n < Limit[g.type], n < Len(g.cells),
         \A k \in 1 .. n : g.cells[k] \in Byte
  PROVE  /\ EndsAt(sdssetlen(PutNul(g, n), n), g, n)
         /\ EndsAt(PutNul(sdssetlen(g, n), n), g, n)
         /\ Sound(sdssetlen(g, n)) /\ sdssetlen(g, n).len = n
         /\ sdssetlen(g, n).cells = g.cells
<1> DEFINE p == PutNul(g, n)
           q == sdssetlen(g, n)
<1>1. /\ Consistent(p) /\ p.type = g.type /\ Len(p.cells) = Len(g.cells)
      /\ p.cells[n + 1] = NUL /\ \A k \in 1 .. n : p.cells[k] = g.cells[k]
  BY PutNulIsConsistent
<1>2. Consistent(q) /\ q.type = g.type /\ q.len = n /\ q.cells = g.cells
  BY SetLenIsConsistent
<1> HIDE DEF p, q
<1>3. EndsAt(sdssetlen(p, n), g, n)
  <2>1. /\ Consistent(sdssetlen(p, n)) /\ sdssetlen(p, n).type = p.type
        /\ sdssetlen(p, n).len = n /\ sdssetlen(p, n).cells = p.cells
    BY <1>1, SetLenIsConsistent
  <2> QED BY <1>1, <2>1 DEF EndsAt, Sound, Ended
<1>4. EndsAt(PutNul(q, n), g, n)
  <2>1. /\ Consistent(PutNul(q, n)) /\ PutNul(q, n).type = q.type
        /\ PutNul(q, n).len = q.len /\ Len(PutNul(q, n).cells) = Len(q.cells)
        /\ PutNul(q, n).cells[n + 1] = NUL
        /\ \A k \in 1 .. n : PutNul(q, n).cells[k] = q.cells[k]
    BY <1>2, PutNulIsConsistent
  <2> QED BY <1>2, <2>1 DEF EndsAt, Sound, Ended
<1>5. Sound(q)
  BY <1>2 DEF Sound
<1> QED BY <1>2, <1>3, <1>4, <1>5 DEF p, q

-----------------------------------------------------------------------------
(* What each function makes of the bytes.                                    *)

Bytes(h) == [i \in 1 .. h.len |-> h.cells[i]]
Holds(h, text) == Sound(h) /\ Ended(h) /\ Bytes(h) = text

LEMMA SoundFacts ==
  ASSUME NEW h, Sound(h)
  PROVE  /\ Consistent(h) /\ h \in String /\ h.type \in Type
         /\ h.len \in Nat /\ h.alloc \in Nat /\ Len(h.cells) \in Nat
         /\ h.len < Len(h.cells) /\ h.len < Limit[h.type]
         /\ Limit[h.type] \in Nat
         /\ Bytes(h) \in Seq(Byte) /\ Len(Bytes(h)) = h.len
         /\ \A k \in 1 .. h.len : h.cells[k] \in Byte /\ Bytes(h)[k] = h.cells[k]
<1>1. /\ h \in String /\ h.type \in Type /\ h.len \in Nat /\ h.alloc \in Nat
      /\ Len(h.cells) \in Nat /\ h.len < Len(h.cells) /\ h.len < Limit[h.type]
  BY DEF Sound, Consistent, String
<1>2. Bytes(h) \in [1 .. h.len -> Byte]
  BY DEF Sound, Bytes
<1>3. Bytes(h) \in Seq(Byte) /\ Len(Bytes(h)) = h.len
  BY <1>1, <1>2, FunctionIsSequence
<1> QED BY <1>1, <1>3, LimitFacts DEF Sound, Bytes

(* Two ways to see the same bytes.                                           *)
LEMMA BytesAre ==
  ASSUME NEW r, Sound(r), NEW text \in Seq(Byte), Len(text) = r.len,
         \A k \in 1 .. r.len : r.cells[k] = text[k]
  PROVE  Bytes(r) = text
<1>1. r.len \in Nat BY SoundFacts
<1>2. text = [k \in 1 .. r.len |-> text[k]]
  BY <1>1
<1> QED BY <1>1, <1>2 DEF Bytes

(* Writing t at i and ending the string after it.                            *)
LEMMA WriteAndEnd ==
  ASSUME NEW h, Consistent(h), NEW i \in Nat, NEW t \in Seq(Byte), NEW n \in Nat,
         n = i + Len(t), n < Limit[h.type], n < Len(h.cells),
         \A k \in 1 .. i : h.cells[k] \in Byte
  PROVE  /\ EndsAt(sdssetlen(PutNul(Put(h, i, t), n), n), Put(h, i, t), n)
         /\ EndsAt(PutNul(sdssetlen(Put(h, i, t), n), n), Put(h, i, t), n)
         /\ Sound(sdssetlen(Put(h, i, t), n)) /\ sdssetlen(Put(h, i, t), n).len = n
         /\ sdssetlen(Put(h, i, t), n).cells = Put(h, i, t).cells
         /\ \A k \in 1 .. n :
              Put(h, i, t).cells[k] = IF k <= i THEN h.cells[k] ELSE t[k - i]
<1> DEFINE g == Put(h, i, t)
<1>1. h \in String /\ Len(h.cells) \in Nat
  BY DEF Consistent, String
<1>2. /\ Consistent(g) /\ g.type = h.type /\ Len(g.cells) = Len(h.cells)
      /\ \A k \in 1 .. Len(h.cells) :
           g.cells[k] = IF i < k /\ k <= i + Len(t) THEN t[k - i] ELSE h.cells[k]
  <2>1. i + Len(t) <= Len(h.cells)
    BY <1>1
  <2> QED BY <2>1, PutIsConsistent
<1> HIDE DEF g
<1>3. \A k \in 1 .. n : g.cells[k] = IF k <= i THEN h.cells[k] ELSE t[k - i]
  BY <1>1, <1>2, Z3T(20)
<1>4. \A k \in 1 .. n : g.cells[k] \in Byte
  BY <1>1, <1>3
<1>5. /\ EndsAt(sdssetlen(PutNul(g, n), n), g, n)
      /\ EndsAt(PutNul(sdssetlen(g, n), n), g, n)
      /\ Sound(sdssetlen(g, n)) /\ sdssetlen(g, n).len = n
      /\ sdssetlen(g, n).cells = g.cells
  BY <1>2, <1>4, EndIsSound
<1> QED BY <1>3, <1>5 DEF g

LEMMA NewHolds ==
  ASSUME NEW t \in Seq(Byte), Len(t) < Limit[4]
  PROVE  Holds(sdsnewlen(t), t) /\ sdsnewlen(t).len = Len(t)
<1> DEFINE n == Len(t)
           type == IF n = 0 THEN NotFive(sdsReqType(0)) ELSE sdsReqType(n)
           h == [type |-> type, len |-> 0, alloc |-> 0, ok |-> TRUE,
                 cells |-> Allocated(<<>>, 0, n)]
           g == sdssetalloc(sdssetlen(h, n), n)
<1>1. n \in Nat /\ type \in Type /\ n < Limit[type]
  BY ReqTypeIsWide, NotFiveIsWide DEF Type
<1> HIDE DEF type
<1>2. h \in String /\ h.type = type /\ Len(h.cells) = n + 1 /\ h.ok = TRUE
  <2>1. <<>> \in Seq(Cell) /\ 0 \in Nat
    OBVIOUS
  <2>2. Allocated(<<>>, 0, n) \in Seq(Cell) /\ Len(Allocated(<<>>, 0, n)) = n + 1
    BY <1>1, <2>1, AllocatedCells
  <2> QED BY <1>1, <2>2 DEF String
<1> HIDE DEF h
<1>3. sdssetlen(h, n) = [h EXCEPT !.len = n] /\ sdssetlen(h, n) \in String
  BY <1>1, <1>2, SetLenFields
<1>4. /\ g \in String /\ g.type = type /\ g.cells = h.cells /\ g.ok = TRUE
      /\ g.alloc = IF type = 0 THEN 0 ELSE n
  <2> DEFINE m == sdssetlen(h, n)
  <2>1. m \in String /\ m.type = type /\ m.cells = h.cells /\ m.ok = TRUE
    BY <1>1, <1>2, <1>3 DEF String
  <2> HIDE DEF m
  <2>2. sdssetalloc(m, n) \in String
        /\ sdssetalloc(m, n) = [m EXCEPT !.alloc = IF m.type = 0 THEN 0 ELSE n]
    BY <1>1, <2>1, SetAllocFields
  <2> QED BY <2>1, <2>2 DEF m, String
<1> HIDE DEF g
<1>5. Consistent(g)
  BY <1>1, <1>2, <1>4 DEF Consistent, Type
<1> DEFINE r == PutNul(Put(g, 0, t), n)
<1>6. sdsnewlen(t) = r
  BY DEF sdsnewlen, g, h, type
<1>7. g.len = n
  BY <1>1, <1>2, <1>3 DEF g, sdssetalloc, String
<1>8. /\ Consistent(Put(g, 0, t)) /\ Put(g, 0, t).type = g.type
      /\ Put(g, 0, t).len = g.len /\ Len(Put(g, 0, t).cells) = Len(g.cells)
      /\ \A k \in 1 .. Len(g.cells) :
           Put(g, 0, t).cells[k] =
             IF 0 < k /\ k <= 0 + Len(t) THEN t[k - 0] ELSE g.cells[k]
  BY <1>1, <1>2, <1>4, <1>5, PutIsConsistent
<1>9. /\ Consistent(r) /\ r.type = type /\ r.len = n /\ Len(r.cells) = n + 1
      /\ r.cells[n + 1] = NUL
      /\ \A k \in 1 .. n : r.cells[k] = Put(g, 0, t).cells[k]
  BY <1>1, <1>2, <1>4, <1>7, <1>8, PutNulIsConsistent
<1> HIDE DEF r
<1>10. \A k \in 1 .. n : r.cells[k] = t[k] /\ t[k] \in Byte
  BY <1>1, <1>2, <1>4, <1>8, <1>9
<1>11. Sound(r) /\ Ended(r)
  BY <1>1, <1>9, <1>10 DEF Sound, Ended
<1>12. Bytes(r) = t
  BY <1>9, <1>10, <1>11, BytesAre
<1> QED BY <1>6, <1>9, <1>11, <1>12 DEF Holds

(* Bytes written after those of a string that has the room for them.         *)
LEMMA AppendHolds ==
  ASSUME NEW h, Sound(h), NEW room, Sound(room), SameBytes(h, room),
         NEW t \in Seq(Byte), Len(t) <= sdsavail(room)
  PROVE  LET n == h.len + Len(t)
             text == Bytes(h) \o t
         IN  /\ Holds(PutNul(sdssetlen(Put(room, h.len, t), n), n), text)
             /\ Holds(sdssetlen(PutNul(Put(room, h.len, t), n), n), text)
             /\ PutNul(sdssetlen(Put(room, h.len, t), n), n).len = n
             /\ Sound(sdssetlen(Put(room, h.len, t), n))
             /\ sdssetlen(Put(room, h.len, t), n).len = n
             /\ Bytes(sdssetlen(Put(room, h.len, t), n)) = text
<1> DEFINE n == h.len + Len(t)
           text == Bytes(h) \o t
           g == Put(room, h.len, t)
<1>0. n = h.len + Len(t)
  OBVIOUS
<1> HIDE DEF n, text, g
<1>1. n \in Nat /\ h.len \in Nat /\ Len(t) \in Nat /\ room.len = h.len
  BY <1>0, SoundFacts DEF SameBytes
<1>2. n < Limit[room.type] /\ n < Len(room.cells)
  <2>1. /\ room.type \in Type /\ room.len < Limit[room.type] /\ room.len < Len(room.cells)
        /\ Limit[room.type] \in Nat /\ Len(room.cells) \in Nat
    BY SoundFacts, LimitFacts
  <2>2. CASE room.type = 0
    <3>1. Len(t) = 0
      BY <1>1, <2>2 DEF sdsavail
    <3> QED BY <1>0, <1>1, <2>1, <3>1
  <2>3. CASE room.type # 0
    <3>1. Len(room.cells) = room.alloc + 1 /\ room.alloc < Limit[room.type] /\ room.alloc \in Nat
      BY <2>1, <2>3 DEF Sound, Consistent, Type, String
    <3>2. Len(t) <= room.alloc - room.len
      BY <2>3 DEF sdsavail
    <3>3. n <= room.alloc
      BY <1>0, <1>1, <3>1, <3>2
    <3> QED BY <1>1, <2>1, <3>1, <3>3
  <2> QED BY <2>2, <2>3
<1>3. \A k \in 1 .. h.len : room.cells[k] = h.cells[k] /\ room.cells[k] \in Byte
  BY <1>1, SoundFacts DEF SameBytes
<1>4. /\ EndsAt(sdssetlen(PutNul(g, n), n), g, n)
      /\ EndsAt(PutNul(sdssetlen(g, n), n), g, n)
      /\ Sound(sdssetlen(g, n)) /\ sdssetlen(g, n).len = n
      /\ sdssetlen(g, n).cells = g.cells
      /\ \A k \in 1 .. n :
           g.cells[k] = IF k <= h.len THEN room.cells[k] ELSE t[k - h.len]
  <2>1. Consistent(room)
    BY SoundFacts
  <2>2. \A k \in 1 .. h.len : room.cells[k] \in Byte
    BY <1>3
  <2> QED BY <1>0, <1>1, <1>2, <2>1, <2>2, WriteAndEnd, Z3T(30) DEF g
<1>5. /\ text \in Seq(Byte) /\ Len(text) = n
      /\ \A k \in 1 .. n : text[k] = IF k <= h.len THEN h.cells[k] ELSE t[k - h.len]
  <2>1. Bytes(h) \in Seq(Byte) /\ Len(Bytes(h)) = h.len
        /\ \A k \in 1 .. h.len : Bytes(h)[k] = h.cells[k]
    BY SoundFacts
  <2>2. /\ Bytes(h) \o t \in Seq(Byte) /\ Len(Bytes(h) \o t) = h.len + Len(t)
        /\ \A k \in 1 .. h.len + Len(t) :
             (Bytes(h) \o t)[k] = IF k <= h.len THEN Bytes(h)[k] ELSE t[k - h.len]
    <3> DEFINE u == Bytes(h)
    <3> HIDE DEF u
    <3>1. u \in Seq(Byte) /\ Len(u) = h.len
      BY <2>1 DEF u
    <3>2. /\ u \o t \in Seq(Byte) /\ Len(u \o t) = h.len + Len(t)
          /\ \A k \in 1 .. h.len + Len(t) :
               (u \o t)[k] = IF k <= h.len THEN u[k] ELSE t[k - h.len]
      BY <3>1
    <3> QED BY <3>2 DEF u
  <2> QED BY <1>0, <1>1, <2>1, <2>2 DEF text
<1>6. \A r : EndsAt(r, g, n) => Holds(r, text) /\ r.len = n
  <2> SUFFICES ASSUME NEW r, EndsAt(r, g, n)
               PROVE  Holds(r, text) /\ r.len = n
    OBVIOUS
  <2>1. Sound(r) /\ Ended(r) /\ r.len = n /\ \A k \in 1 .. n : r.cells[k] = g.cells[k]
    BY DEF EndsAt
  <2>2. \A k \in 1 .. r.len : r.cells[k] = text[k]
    BY <1>1, <1>3, <1>4, <1>5, <2>1
  <2>3. Bytes(r) = text
    BY <1>5, <2>1, <2>2, BytesAre
  <2> QED BY <2>1, <2>3 DEF Holds
<1>7. Bytes(sdssetlen(g, n)) = text
  <2> DEFINE r == sdssetlen(g, n)
  <2>1. Sound(r) /\ r.len = n /\ r.cells = g.cells
    BY <1>4
  <2> HIDE DEF r
  <2>2. \A k \in 1 .. r.len : r.cells[k] = text[k]
    BY <1>1, <1>3, <1>4, <1>5, <2>1, Z3T(20)
  <2>3. Bytes(r) = text
    BY <1>5, <2>1, <2>2, BytesAre
  <2> QED BY <2>3 DEF r
<1> QED BY <1>4, <1>6, <1>7 DEF g, n, text

LEMMA SameBytesHolds ==
  ASSUME NEW h, Sound(h), Ended(h), NEW r, Sound(r), SameBytes(h, r)
  PROVE  Holds(r, Bytes(h))
<1>1. r.len = h.len /\ h.len \in Nat /\ Bytes(h) \in Seq(Byte) /\ Len(Bytes(h)) = h.len
      /\ \A k \in 1 .. h.len + 1 : r.cells[k] = h.cells[k]
  BY SoundFacts DEF SameBytes
<1>2. \A k \in 1 .. r.len : r.cells[k] = Bytes(h)[k]
  BY <1>1, SoundFacts
<1>3. Bytes(r) = Bytes(h)
  BY <1>1, <1>2, BytesAre
<1>4. Ended(r)
  BY <1>1 DEF Ended
<1> QED BY <1>3, <1>4 DEF Holds

LEMMA MakeRoomHolds ==
  ASSUME NEW h, Sound(h), Ended(h), NEW addlen \in Nat,
         2 * (h.len + addlen) + Prealloc < Limit[4]
  PROVE  Holds(sdsMakeRoomFor(h, addlen), Bytes(h))
BY MakeRoomIsSound, SameBytesHolds

LEMMA CatHolds ==
  ASSUME NEW h, Sound(h), NEW t \in Seq(Byte),
         2 * (h.len + Len(t)) + Prealloc < Limit[4]
  PROVE  Holds(sdscatlen(h, t), Bytes(h) \o t) /\ sdscatlen(h, t).len = h.len + Len(t)
<1> DEFINE room == sdsMakeRoomFor(h, Len(t))
<1>1. Sound(room) /\ SameBytes(h, room) /\ Len(t) <= sdsavail(room)
  BY MakeRoomIsSound
<1>2. sdscatlen(h, t)
        = PutNul(sdssetlen(Put(room, h.len, t), h.len + Len(t)), h.len + Len(t))
  BY DEF sdscatlen
<1> HIDE DEF room
<1> QED BY <1>1, <1>2, AppendHolds

(* sdsIncrLen() after bytes were written into the room made for them.        *)
LEMMA ReadIntoHolds ==
  ASSUME NEW h, Sound(h), NEW n \in Nat, n > 0, NEW t \in Seq(Byte), Len(t) <= n,
         2 * (h.len + n) + Prealloc < Limit[4]
  PROVE  LET r == sdsIncrLen(Put(sdsMakeRoomFor(h, n), h.len, t), Len(t))
         IN  Holds(r, Bytes(h) \o t) /\ r.len = h.len + Len(t)
<1> DEFINE room == sdsMakeRoomFor(h, n)
           g == Put(room, h.len, t)
           l == Len(t)
<1>1. Sound(room) /\ SameBytes(h, room) /\ n <= sdsavail(room)
  BY MakeRoomIsSound
<1> HIDE DEF room
<1>2. l \in Nat /\ l <= sdsavail(room) /\ room.len = h.len /\ h.len \in Nat
      /\ room.type > 0 /\ room.alloc \in Nat /\ h.len + l <= Len(room.cells)
      /\ room.alloc - room.len >= l
  <2>1. /\ room.len \in Nat /\ room.alloc \in Nat /\ room.type \in Type
        /\ Len(room.cells) \in Nat /\ l \in Nat /\ l <= n
    BY <1>1, SoundFacts
  <2>2. room.len = h.len
    BY <1>1 DEF SameBytes
  <2>3. room.type > 0
    BY <1>1, <2>1 DEF sdsavail, Type
  <2>4. Len(room.cells) = room.alloc + 1
    BY <1>1, <2>3 DEF Sound, Consistent
  <2>5. sdsavail(room) = room.alloc - room.len
    BY <2>3 DEF sdsavail
  <2> QED BY <1>1, <2>1, <2>2, <2>3, <2>4, <2>5
<1>3. g.type = room.type /\ g.len = h.len /\ g.alloc = room.alloc /\ g \in String
      /\ g.ok
  <2>1. room \in String /\ room.ok
    BY <1>1 DEF Sound, Consistent
  <2> QED BY <1>2, <2>1, PutCells
<1> HIDE DEF g
<1>4. sdsIncrLen(g, l) = PutNul(sdssetlen(g, h.len + l), h.len + l)
  <2> DEFINE legal == IF g.type = 0
                        THEN \/ l > 0 /\ g.len + l < Limit[0]
                             \/ l < 0 /\ g.len >= -l
                        ELSE \/ l >= 0 /\ g.alloc - g.len >= l
                             \/ l < 0 /\ g.len >= -l
  <2>1. legal
    BY <1>2, <1>3
  <2>2. Assert_(g, legal) = g
    <3> HIDE DEF legal
    <3> QED BY <1>3, <2>1 DEF Assert_, String
  <2> QED BY <1>3, <2>2 DEF sdsIncrLen
<1>5. Holds(PutNul(sdssetlen(g, h.len + l), h.len + l), Bytes(h) \o t)
      /\ PutNul(sdssetlen(g, h.len + l), h.len + l).len = h.len + l
  BY <1>1, <1>2, AppendHolds DEF g
<1> QED BY <1>4, <1>5 DEF g, room

LEMMA CpyHolds ==
  ASSUME NEW h, Sound(h), NEW t \in Seq(Byte),
         2 * Len(t) + Prealloc < Limit[4]
  PROVE  Holds(sdscpylen(h, t), t) /\ sdscpylen(h, t).len = Len(t)
<1> DEFINE room == IF sdsalloc(h) < Len(t) THEN sdsMakeRoomFor(h, Len(t) - h.len) ELSE h
           n == Len(t)
           g == Put(room, 0, t)
<1>1. /\ h.len \in Nat /\ h.alloc \in Nat /\ h.type \in Type /\ n \in Nat
      /\ Len(h.cells) \in Nat /\ h.len < Len(h.cells)
  BY SoundFacts
<1>2. h.type > 0 => Len(h.cells) = h.alloc + 1 /\ h.alloc < Limit[h.type]
  BY DEF Sound, Consistent
<1>3. Sound(room) /\ n < Limit[room.type] /\ n < Len(room.cells)
  <2>1. CASE sdsalloc(h) < n
    <3>1. h.len < n
      BY <1>1, <1>2, <2>1 DEF sdsalloc, Type
    <3> DEFINE r == sdsMakeRoomFor(h, n - h.len)
    <3>2. Sound(r) /\ SameBytes(h, r) /\ n - h.len <= sdsavail(r)
      <4>1. n - h.len \in Nat /\ h.len + (n - h.len) = n
        BY <1>1, <3>1
      <4> QED BY <4>1, MakeRoomIsSound
    <3>3. room = r
      BY <2>1
    <3> HIDE DEF r
    <3>4. /\ r.len = h.len /\ r.len \in Nat /\ r.alloc \in Nat /\ r.type \in Type
          /\ Limit[r.type] \in Nat
      BY <3>2, SoundFacts DEF SameBytes
    <3>5. r.type > 0
      BY <1>1, <3>1, <3>2, <3>4 DEF sdsavail, Type
    <3>6. Len(r.cells) = r.alloc + 1 /\ r.alloc < Limit[r.type]
      BY <3>2, <3>5 DEF Sound, Consistent
    <3> HIDE DEF room
    <3> QED BY <1>1, <3>2, <3>3, <3>4, <3>5, <3>6 DEF sdsavail
  <2>2. CASE ~(sdsalloc(h) < n)
    <3>1. room = h /\ n <= sdsalloc(h)
      BY <1>1, <2>2 DEF sdsalloc
    <3>2. h.len < Limit[h.type] /\ Limit[h.type] \in Nat
      BY SoundFacts
    <3> HIDE DEF room
    <3> QED BY <1>1, <1>2, <3>1, <3>2, Z3T(20) DEF sdsalloc, Type
  <2> QED BY <2>1, <2>2
<1>4. sdscpylen(h, t) = sdssetlen(PutNul(g, n), n)
  BY DEF sdscpylen
<1> HIDE DEF room
<1>5. /\ EndsAt(sdssetlen(PutNul(g, n), n), g, n)
      /\ \A k \in 1 .. n : g.cells[k] = IF k <= 0 THEN room.cells[k] ELSE t[k - 0]
  <2>1. Consistent(room) /\ 0 \in Nat /\ n = 0 + Len(t)
        /\ \A k \in 1 .. 0 : room.cells[k] \in Byte
    BY <1>1, <1>3 DEF Sound
  <2> HIDE DEF n, g
  <2>2. /\ EndsAt(sdssetlen(PutNul(Put(room, 0, t), n), n), Put(room, 0, t), n)
        /\ \A k \in 1 .. n :
             Put(room, 0, t).cells[k] = IF k <= 0 THEN room.cells[k] ELSE t[k - 0]
    BY <1>1, <1>3, <2>1, WriteAndEnd
  <2> QED BY <2>2 DEF g
<1> DEFINE r == sdscpylen(h, t)
<1>6. Sound(r) /\ Ended(r) /\ r.len = n /\ \A k \in 1 .. n : r.cells[k] = t[k]
  BY <1>1, <1>4, <1>5 DEF EndsAt
<1> HIDE DEF r
<1>7. Bytes(r) = t
  BY <1>6, BytesAre
<1> QED BY <1>6, <1>7 DEF r, Holds

(* The zero byte is the last of those written, not one after them.           *)
LEMMA GrowZeroHolds ==
  ASSUME NEW h, Sound(h), Ended(h), NEW n \in Nat,
         2 * n + Prealloc < Limit[4]
  PROVE  LET r == sdsgrowzero(h, n)
         IN  /\ n <= h.len => Holds(r, Bytes(h)) /\ r.len = h.len
             /\ n > h.len => Holds(r, Bytes(h) \o Zeros(n - h.len)) /\ r.len = n
<1>1. h.len \in Nat /\ Bytes(h) \in Seq(Byte) /\ Len(Bytes(h)) = h.len
      /\ \A k \in 1 .. h.len : Bytes(h)[k] = h.cells[k]
  BY SoundFacts
<1>2. CASE n <= h.len
  BY <1>1, <1>2 DEF sdsgrowzero, Holds
<1>3. CASE n > h.len
  <2> DEFINE add == n - h.len
             room == sdsMakeRoomFor(h, add)
             z == Zeros(add + 1)
             g == Put(room, h.len, z)
             r == sdssetlen(g, n)
             text == Bytes(h) \o Zeros(add)
  <2>1. add \in Nat /\ h.len + add = n /\ add > 0
    BY <1>1, <1>3
  <2>2. Sound(room) /\ SameBytes(h, room) /\ add <= sdsavail(room)
    <3> HIDE DEF add
    <3> QED BY <2>1, MakeRoomIsSound
  <2>3. sdsgrowzero(h, n) = r
    BY <1>1, <1>3 DEF sdsgrowzero
  <2> HIDE DEF room
  <2>4. /\ room.len = h.len /\ room.len \in Nat /\ room.alloc \in Nat
        /\ room.type \in Type /\ Limit[room.type] \in Nat /\ Len(room.cells) \in Nat
    BY <2>2, SoundFacts DEF SameBytes
  <2>5. Consistent(room) /\ n < Limit[room.type] /\ n < Len(room.cells)
    <3>1. room.type > 0
      BY <2>1, <2>2, <2>4, Z3T(20) DEF sdsavail, Type
    <3>2. Consistent(room) /\ Len(room.cells) = room.alloc + 1 /\ room.alloc < Limit[room.type]
      BY <2>2, <3>1 DEF Sound, Consistent
    <3> QED BY <2>1, <2>2, <2>4, <3>1, <3>2, Z3T(20) DEF sdsavail
  <2>6. /\ z \in Seq(Byte) /\ Len(z) = add + 1 /\ \A k \in 1 .. add + 1 : z[k] = NUL
        /\ Zeros(add) \in Seq(Byte) /\ Len(Zeros(add)) = add
        /\ \A k \in 1 .. add : Zeros(add)[k] = NUL
    <3> HIDE DEF add
    <3>1. z \in [1 .. add + 1 -> Byte] /\ Zeros(add) \in [1 .. add -> Byte]
          /\ add + 1 \in Nat
      BY <2>1, BytesOK DEF Zeros
    <3>2. z \in Seq(Byte) /\ Len(z) = add + 1
      BY <3>1, FunctionIsSequence
    <3>3. Zeros(add) \in Seq(Byte) /\ Len(Zeros(add)) = add
      BY <2>1, <3>1, FunctionIsSequence
    <3> QED BY <3>2, <3>3 DEF Zeros
  <2> HIDE DEF z, add
  <2>7. /\ Consistent(g) /\ g.type = room.type /\ g.len = room.len
        /\ Len(g.cells) = Len(room.cells)
        /\ \A k \in 1 .. Len(room.cells) :
             g.cells[k] = IF h.len < k /\ k <= h.len + Len(z) THEN z[k - h.len]
                                                              ELSE room.cells[k]
    <3>1. h.len + Len(z) <= Len(room.cells)
      BY <1>1, <2>1, <2>4, <2>5, <2>6
    <3> QED BY <1>1, <2>5, <2>6, <3>1, PutIsConsistent
  <2> HIDE DEF g
  <2>8. /\ Consistent(r) /\ r.type = g.type /\ r.len = n /\ r.cells = g.cells
    BY <2>5, <2>7, SetLenIsConsistent
  <2> HIDE DEF r
  <2>9. \A k \in 1 .. n + 1 :
          r.cells[k] = IF k <= h.len THEN h.cells[k] ELSE NUL
    <3>1. \A k \in 1 .. h.len : room.cells[k] = h.cells[k]
      BY <1>1, <2>2 DEF SameBytes
    <3> SUFFICES ASSUME NEW k \in 1 .. n + 1
                 PROVE  r.cells[k] = IF k <= h.len THEN h.cells[k] ELSE NUL
      OBVIOUS
    <3>2. k \in 1 .. Len(room.cells) /\ h.len + Len(z) = n + 1
      <4>1. Len(z) = add + 1 /\ h.len \in Nat
        BY <1>1, <2>6
      <4>2. h.len + Len(z) = n + 1
        BY <2>1, <4>1
      <4>3. n < Len(room.cells) /\ Len(room.cells) \in Nat
        BY <2>4, <2>5
      <4> QED BY <4>2, <4>3
    <3>3. r.cells[k] = IF h.len < k /\ k <= n + 1 THEN z[k - h.len] ELSE room.cells[k]
      BY <2>7, <2>8, <3>2
    <3>4. CASE k <= h.len
      BY <1>1, <3>1, <3>3, <3>4
    <3>5. CASE h.len < k
      <4>1. k - h.len \in 1 .. add + 1
        BY <1>1, <2>1, <3>5
      <4> QED BY <1>1, <2>1, <2>6, <3>3, <3>5, <4>1, Z3T(20)
    <3> QED BY <1>1, <3>4, <3>5
  <2>10. Sound(r) /\ Ended(r)
    <3>1. \A k \in 1 .. h.len : h.cells[k] \in Byte
      BY SoundFacts
    <3>2. \A k \in 1 .. n : r.cells[k] \in Byte
      BY <1>1, <2>9, <3>1, BytesOK
    <3>3. r.cells[n + 1] = NUL
      BY <1>1, <1>3, <2>9
    <3> QED BY <2>4, <2>5, <2>7, <2>8, <3>2, <3>3 DEF Sound, Ended
  <2>11. /\ text \in Seq(Byte) /\ Len(text) = n
         /\ \A k \in 1 .. n : text[k] = IF k <= h.len THEN h.cells[k] ELSE NUL
    <3> DEFINE zeros == Zeros(add)
    <3>1. zeros \in Seq(Byte) /\ Len(zeros) = add
          /\ \A k \in 1 .. add : zeros[k] = NUL
      BY <2>6
    <3>2. text = Bytes(h) \o zeros
      OBVIOUS
    <3> HIDE DEF zeros, text
    <3>3. \A k \in 1 .. n :
            text[k] = IF k <= h.len THEN Bytes(h)[k] ELSE zeros[k - h.len]
      <4> DEFINE bytes == Bytes(h)
      <4>1. bytes \in Seq(Byte) /\ Len(bytes) = h.len /\ text = bytes \o zeros
        BY <1>1, <3>2
      <4> HIDE DEF bytes
      <4>2. \A k \in 1 .. Len(bytes) + Len(zeros) :
              text[k] = IF k <= Len(bytes) THEN bytes[k] ELSE zeros[k - Len(bytes)]
        BY <3>1, <4>1, ConcatElements
      <4>3. Len(bytes) + Len(zeros) = n
        BY <2>1, <3>1, <4>1
      <4> QED BY <4>1, <4>2, <4>3 DEF bytes
    <3>4. text \in Seq(Byte) /\ Len(text) = n
      BY <1>1, <2>1, <3>1, <3>2
    <3>5. ASSUME NEW k \in 1 .. n
          PROVE  text[k] = IF k <= h.len THEN h.cells[k] ELSE NUL
      <4>1. CASE k <= h.len
        BY <1>1, <3>3, <4>1
      <4>2. CASE h.len < k
        <5>1. k - h.len \in 1 .. add
          BY <1>1, <2>1, <4>2
        <5> QED BY <1>1, <3>1, <3>3, <4>2, <5>1
      <4> QED BY <1>1, <4>1, <4>2
    <3> QED BY <3>4, <3>5
  <2> HIDE DEF text
  <2>12. Bytes(r) = text
    BY <2>8, <2>9, <2>10, <2>11, BytesAre
  <2> QED BY <1>1, <1>3, <2>3, <2>8, <2>10, <2>12 DEF Holds, text, add
<1> QED BY <1>1, <1>2, <1>3

(* The bytes brought to the front, for sdstrim() and sdsrange().             *)
LEMMA KeepOnlyHolds ==
  ASSUME NEW h, Sound(h), NEW start \in Nat, NEW n \in Nat, start + n <= h.len
  PROVE  /\ Holds(KeepOnly(h, start, n), SubSeq(Bytes(h), start + 1, start + n))
         /\ KeepOnly(h, start, n).len = n
<1> DEFINE t == SubSeq(h.cells, start + 1, start + n)
           text == SubSeq(Bytes(h), start + 1, start + n)
           g == Put(h, 0, t)
           r == KeepOnly(h, start, n)
<1>1. /\ h.len \in Nat /\ Len(h.cells) \in Nat /\ h.len < Len(h.cells)
      /\ h.len < Limit[h.type] /\ Limit[h.type] \in Nat /\ Consistent(h)
      /\ h.cells \in Seq(Cell) /\ Bytes(h) \in Seq(Byte) /\ Len(Bytes(h)) = h.len
      /\ \A k \in 1 .. h.len : h.cells[k] \in Byte /\ Bytes(h)[k] = h.cells[k]
  BY SoundFacts DEF String
<1>2. /\ Len(t) = n /\ \A k \in 1 .. n : t[k] = h.cells[k + start]
  BY <1>1
<1>3. /\ text \in Seq(Byte) /\ Len(text) = n
      /\ \A k \in 1 .. n : text[k] = h.cells[k + start]
  <2> DEFINE b == Bytes(h)
  <2>1. text = SubSeq(b, start + 1, start + n)
    OBVIOUS
  <2>2. b \in Seq(Byte) /\ Len(b) = h.len /\ \A k \in 1 .. h.len : b[k] = h.cells[k]
    BY <1>1
  <2> HIDE DEF b, text
  <2>3. text \in Seq(Byte) /\ Len(text) = n /\ \A k \in 1 .. n : text[k] = b[k + start]
    BY <1>1, <2>1, <2>2
  <2>4. ASSUME NEW k \in 1 .. n PROVE text[k] = h.cells[k + start]
    <3>1. k + start \in 1 .. h.len
      BY <1>1
    <3> QED BY <2>2, <2>3, <3>1
  <2> QED BY <2>3, <2>4
<1>4. t \in Seq(Byte)
  <2>1. t \in Seq(Cell)
    BY <1>1
  <2>2. \A k \in 1 .. n : t[k] \in Byte
    BY <1>1, <1>2
  <2> HIDE DEF t
  <2>3. t \in [1 .. n -> Byte]
    BY <1>2, <2>1, <2>2
  <2> QED BY <2>3, FunctionIsSequence
<1> HIDE DEF t, text
<1>5. /\ EndsAt(sdssetlen(PutNul(g, n), n), g, n)
      /\ \A k \in 1 .. n : g.cells[k] = IF k <= 0 THEN h.cells[k] ELSE t[k - 0]
  BY <1>1, <1>2, <1>4, WriteAndEnd, SMTT(30)
<1>6. r = sdssetlen(PutNul(g, n), n)
  BY DEF KeepOnly, t
<1> HIDE DEF g, r
<1>7. Sound(r) /\ Ended(r) /\ r.len = n /\ \A k \in 1 .. n : r.cells[k] = text[k]
  BY <1>2, <1>3, <1>5, <1>6 DEF EndsAt
<1>8. Bytes(r) = text
  BY <1>3, <1>7, BytesAre
<1> QED BY <1>7, <1>8 DEF Holds, r, text

(* The length cut to n, with a zero byte there, for sdsclear(), sdsIncrLen() *)
(* and sdsupdatelen().                                                       *)
LEMMA CutHolds ==
  ASSUME NEW h, Sound(h), NEW n \in Nat, n <= h.len
  PROVE  /\ Holds(PutNul(sdssetlen(h, n), n), SubSeq(Bytes(h), 1, n))
         /\ PutNul(sdssetlen(h, n), n).len = n
         /\ h.cells[n + 1] = NUL
              => /\ Holds(sdssetlen(h, n), SubSeq(Bytes(h), 1, n))
                 /\ sdssetlen(h, n).len = n
<1> DEFINE text == SubSeq(Bytes(h), 1, n)
           q == sdssetlen(h, n)
           r == PutNul(q, n)
<1>1. /\ h.len \in Nat /\ Len(h.cells) \in Nat /\ h.len < Len(h.cells)
      /\ h.len < Limit[h.type] /\ Limit[h.type] \in Nat /\ Consistent(h)
      /\ Bytes(h) \in Seq(Byte) /\ Len(Bytes(h)) = h.len
      /\ \A k \in 1 .. h.len : h.cells[k] \in Byte /\ Bytes(h)[k] = h.cells[k]
  BY SoundFacts
<1>2. /\ text \in Seq(Byte) /\ Len(text) = n
      /\ \A k \in 1 .. n : text[k] = h.cells[k]
  <2> DEFINE b == Bytes(h)
  <2>1. text = SubSeq(b, 1, n)
    OBVIOUS
  <2>2. b \in Seq(Byte) /\ Len(b) = h.len /\ \A k \in 1 .. h.len : b[k] = h.cells[k]
    BY <1>1
  <2> HIDE DEF b, text
  <2>3. text \in Seq(Byte) /\ Len(text) = n /\ \A k \in 1 .. n : text[k] = b[k]
    BY <1>1, <2>1, <2>2
  <2> QED BY <1>1, <2>2, <2>3
<1> HIDE DEF text
<1>3. EndsAt(r, h, n)
  BY <1>1, EndIsSound
<1>4. Consistent(q) /\ q.type = h.type /\ q.len = n /\ q.cells = h.cells
  BY <1>1, SetLenIsConsistent
<1> HIDE DEF r, q
<1>5. Holds(r, text) /\ r.len = n
  <2>1. Sound(r) /\ Ended(r) /\ r.len = n /\ \A k \in 1 .. n : r.cells[k] = text[k]
    BY <1>2, <1>3 DEF EndsAt
  <2> QED BY <1>2, <2>1, BytesAre DEF Holds
<1>6. ASSUME h.cells[n + 1] = NUL
      PROVE  Holds(q, text)
  <2>1. Sound(q) /\ Ended(q)
    BY <1>1, <1>4, <1>6 DEF Sound, Ended
  <2> QED BY <1>2, <1>4, <2>1, BytesAre DEF Holds
<1> QED BY <1>4, <1>5, <1>6 DEF q, r, text

LEMMA MapHolds ==
  ASSUME NEW h, Sound(h), Ended(h), NEW f \in [Byte -> Byte]
  PROVE  /\ Holds(sdsmapchars(h, f), [i \in 1 .. Len(Bytes(h)) |-> f[Bytes(h)[i]]])
         /\ sdsmapchars(h, f).len = h.len
<1> DEFINE r == sdsmapchars(h, f)
           new == [k \in 1 .. Len(h.cells) |->
                     IF k <= h.len THEN f[h.cells[k]] ELSE h.cells[k]]
           text == [i \in 1 .. h.len |-> f[Bytes(h)[i]]]
<1>1. /\ h.len \in Nat /\ Len(h.cells) \in Nat /\ h.len < Len(h.cells)
      /\ h.len < Limit[h.type] /\ Consistent(h) /\ h \in String
      /\ h.cells \in Seq(Cell) /\ Len(Bytes(h)) = h.len
      /\ \A k \in 1 .. h.len : h.cells[k] \in Byte /\ Bytes(h)[k] = h.cells[k]
  BY SoundFacts DEF String
<1>2. new \in Seq(Cell) /\ Len(new) = Len(h.cells)
  <2>1. new \in [1 .. Len(h.cells) -> Cell]
    BY <1>1 DEF Cell
  <2> HIDE DEF new
  <2> QED BY <1>1, <2>1, FunctionIsSequence
<1>3. r = [h EXCEPT !.cells = new]
  BY DEF sdsmapchars
<1>4. /\ \A k \in 1 .. h.len : new[k] = f[h.cells[k]] /\ new[k] \in Byte
      /\ new[h.len + 1] = h.cells[h.len + 1]
  <2>1. \A k \in 1 .. Len(h.cells) :
          new[k] = IF k <= h.len THEN f[h.cells[k]] ELSE h.cells[k]
    OBVIOUS
  <2> HIDE DEF new
  <2>2. ASSUME NEW k \in 1 .. h.len
        PROVE  new[k] = f[h.cells[k]] /\ new[k] \in Byte
    <3>1. k \in 1 .. Len(h.cells) /\ k <= h.len
      BY <1>1
    <3> QED BY <1>1, <2>1, <3>1
  <2>3. h.len + 1 \in 1 .. Len(h.cells) /\ ~(h.len + 1 <= h.len)
    BY <1>1
  <2> QED BY <2>1, <2>2, <2>3
<1> HIDE DEF r, new
<1>5. /\ r \in String /\ r.type = h.type /\ r.len = h.len /\ r.alloc = h.alloc
      /\ r.ok = h.ok /\ r.cells = new
  BY <1>1, <1>2, <1>3 DEF String
<1>6. Sound(r) /\ Ended(r)
  BY <1>1, <1>2, <1>4, <1>5 DEF Sound, Consistent, Ended
<1>7. text \in Seq(Byte) /\ Len(text) = h.len /\ \A k \in 1 .. h.len : text[k] = f[h.cells[k]]
  <2>1. text \in [1 .. h.len -> Byte] /\ \A k \in 1 .. h.len : text[k] = f[h.cells[k]]
    BY <1>1
  <2> HIDE DEF text
  <2> QED BY <1>1, <2>1, FunctionIsSequence
<1> HIDE DEF text
<1>8. Bytes(r) = text
  BY <1>4, <1>5, <1>6, <1>7, BytesAre
<1> QED BY <1>1, <1>5, <1>6, <1>8 DEF Holds, r, text

LEMMA RemoveFreeSpaceHolds ==
  ASSUME NEW h, Sound(h), Ended(h), h.len < Limit[4]
  PROVE  /\ Holds(sdsRemoveFreeSpace(h), Bytes(h))
         /\ sdsRemoveFreeSpace(h).len = h.len
<1> DEFINE type == sdsReqType(h.len)
           wide == h.type = type \/ type > 1
           moved == Shrunk(h)
           r == sdssetalloc(moved, h.len)
<1>1. /\ h \in String /\ h.ok /\ h.len \in Nat /\ h.type \in Type
      /\ h.len < Len(h.cells) /\ Len(h.cells) \in Nat /\ h.len < Limit[h.type]
  BY SoundFacts DEF Sound, Consistent
<1>2. CASE sdsavail(h) = 0
  BY <1>2 DEF sdsRemoveFreeSpace, Holds
<1>3. CASE sdsavail(h) # 0
  <2>1. h.type > 0
    BY <1>1, <1>3 DEF sdsavail, Type
  <2>2. type \in Type /\ h.len < Limit[type]
    BY <1>1, ReqTypeIsWide
  <2>3. sdsRemoveFreeSpace(h) = r
    BY <1>3 DEF sdsRemoveFreeSpace
  <2> HIDE DEF type
  <2>4. PICK to \in Type, keep \in Nat :
          /\ h.len < Limit[to]
          /\ moved \in String /\ moved.type = to /\ moved.len = h.len
          /\ moved.ok = TRUE /\ keep > h.len
          /\ moved.cells = Allocated(h.cells, keep, h.len)
    <3>1. CASE wide
      <4>1. moved = realloc(h, h.len)
        BY <3>1 DEF Shrunk, type
      <4> HIDE DEF moved
      <4>2. /\ moved \in String /\ moved.type = h.type /\ moved.len = h.len
            /\ moved.ok = TRUE
            /\ moved.cells = Allocated(h.cells, Len(h.cells), h.len)
        BY <1>1, <4>1, ReallocFields
      <4> QED BY <1>1, <4>2
    <3>2. CASE ~wide
      <4> DEFINE m == malloc(h, h.len + 1, h.len)
                 c == ChangeType(m, type)
      <4>1. moved = sdssetlen(c, h.len)
        BY <3>2 DEF Shrunk, type
      <4> HIDE DEF moved
      <4>2. /\ m \in String /\ m.cells = Allocated(h.cells, h.len + 1, h.len)
            /\ m.len = h.len /\ m.ok = TRUE
        <5>1. h.len + 1 \in Nat /\ h.len + 1 <= h.len + 1 /\ h.len + 1 <= Len(h.cells)
          BY <1>1
        <5>2. /\ m \in String /\ m.cells = Allocated(h.cells, h.len + 1, h.len)
              /\ m.len = h.len
              /\ m.ok = (h.ok /\ h.len + 1 <= h.len + 1 /\ h.len + 1 <= Len(h.cells))
          BY <1>1, <5>1, MallocFields
        <5> QED BY <1>1, <5>1, <5>2
      <4> HIDE DEF m
      <4>3. /\ c \in String /\ c.cells = m.cells /\ c.len = m.len /\ c.ok = m.ok
            /\ c.type = type
        BY <2>2, <4>2 DEF ChangeType, String
      <4> HIDE DEF c
      <4>4. sdssetlen(c, h.len) \in String
            /\ sdssetlen(c, h.len) = [c EXCEPT !.len = h.len]
        BY <1>1, <2>2, <4>3, SetLenFields
      <4>5. /\ moved \in String /\ moved.type = type /\ moved.len = h.len
            /\ moved.ok = TRUE
            /\ moved.cells = Allocated(h.cells, h.len + 1, h.len)
        BY <1>1, <4>1, <4>2, <4>3, <4>4 DEF String
      <4>6. h.len + 1 \in Nat /\ h.len + 1 > h.len
        BY <1>1
      <4> QED BY <2>2, <4>5, <4>6
    <3> QED BY <3>1, <3>2
  <2> HIDE DEF moved
  <2>5. r \in String /\ r = [moved EXCEPT !.alloc = IF to = 0 THEN 0 ELSE h.len]
    BY <1>1, <2>4, SetAllocFields
  <2>6. /\ r.type = to /\ r.len = h.len /\ r.ok = TRUE
        /\ r.alloc = IF to = 0 THEN 0 ELSE h.len
        /\ r.cells = Allocated(h.cells, keep, h.len)
    BY <2>4, <2>5 DEF String
  <2> HIDE DEF r
  <2>7. Sound(r) /\ SameBytes(h, r)
    <3>1. h.len <= h.len BY <1>1
    <3> QED BY <1>1, <2>4, <2>5, <2>6, <3>1, MovedIsSound, ZenonT(60)
  <2> QED BY <2>3, <2>6, <2>7, SameBytesHolds
<1> QED BY <1>2, <1>3

(* The room sdscatfmt() makes for what it is about to copy.                  *)
LEMMA FmtRoom ==
  ASSUME NEW h, Sound(h), NEW n \in Nat, h.len + n <= MaxLen, h.len + 1 <= MaxLen
  PROVE  /\ Sound(AtLeastOne(h)) /\ SameBytes(h, AtLeastOne(h))
         /\ 1 <= sdsavail(AtLeastOne(h))
         /\ Sound(RoomFor(AtLeastOne(h), n)) /\ SameBytes(h, RoomFor(AtLeastOne(h), n))
         /\ n <= sdsavail(RoomFor(AtLeastOne(h), n))
<1> DEFINE one == AtLeastOne(h)
           all == RoomFor(one, n)
<1>1. h.len \in Nat /\ sdsavail(h) \in Nat
  <2>1. h.len \in Nat /\ h.alloc \in Nat /\ h.type \in Type /\ Len(h.cells) \in Nat
        /\ h.len < Len(h.cells) /\ (h.type > 0 => Len(h.cells) = h.alloc + 1)
    BY SoundFacts DEF Sound, Consistent
  <2> QED BY <2>1 DEF sdsavail, Type
<1>2. Sound(one) /\ SameBytes(h, one) /\ 1 <= sdsavail(one)
  <2>1. CASE sdsavail(h) = 0
    <3>1. one = sdsMakeRoomFor(h, 1)
      BY <2>1 DEF AtLeastOne
    <3>2. 2 * (h.len + 1) + Prealloc < Limit[4]
      BY <1>1, LimitFacts
    <3> HIDE DEF one
    <3> QED BY <3>1, <3>2, MakeRoomIsSound
  <2>2. CASE sdsavail(h) # 0
    BY <1>1, <2>2 DEF AtLeastOne, SameBytes
  <2> QED BY <2>1, <2>2
<1> HIDE DEF one
<1>3. one.len = h.len /\ sdsavail(one) \in Nat
  <2>1. one.len \in Nat /\ one.alloc \in Nat /\ one.type \in Type /\ Len(one.cells) \in Nat
        /\ one.len < Len(one.cells) /\ (one.type > 0 => Len(one.cells) = one.alloc + 1)
    BY <1>2, SoundFacts DEF Sound, Consistent
  <2> QED BY <1>2, <2>1 DEF SameBytes, sdsavail, Type
<1>4. Sound(all) /\ SameBytes(one, all) /\ n <= sdsavail(all)
  <2>1. CASE sdsavail(one) < n
    <3>1. all = sdsMakeRoomFor(one, n)
      BY <2>1 DEF RoomFor
    <3>2. 2 * (one.len + n) + Prealloc < Limit[4]
      BY <1>1, <1>3, LimitFacts
    <3> HIDE DEF all
    <3> QED BY <1>2, <3>1, <3>2, MakeRoomIsSound
  <2>2. CASE ~(sdsavail(one) < n)
    BY <1>2, <1>3, <2>2 DEF RoomFor, SameBytes
  <2> QED BY <2>1, <2>2
<1>5. SameBytes(h, all)
  BY <1>2, <1>4 DEF SameBytes
<1> QED BY <1>2, <1>4, <1>5 DEF one

-----------------------------------------------------------------------------
(* The steps.                                                                *)

LEMMA TextFacts ==
  ASSUME NEW t \in Text
  PROVE  t \in Seq(Byte) /\ Len(t) \in Nat /\ Len(t) <= MaxArg /\ Len(t) <= MaxLen
<1>1. PICK n \in 0 .. MaxArg : t \in [1 .. n -> Byte]
  BY DEF Text
<1>2. n \in Nat /\ MaxArg \in Nat /\ MaxLen \in Nat /\ MaxArg <= MaxLen
  BY BytesOK
<1> QED BY <1>1, <1>2, FunctionIsSequence

(* Outside sdscatfmt(): a function that leaves such a string keeps IInv.     *)
LEMMA IdleStep ==
  ASSUME IInv, Ready, NEW text, Holds(s', text), s'.len <= MaxLen
  PROVE  IInv' /\ Content' = text /\ Content = Bytes(s)
BY DEF IInv, Ready, Holds, Content, Bytes

LEMMA InitIInv ==
  ASSUME Init
  PROVE  IInv /\ Content \in Text
<1>1. PICK t \in Text : s = sdsnewlen(t)
  BY DEF Init
<1>2. t \in Seq(Byte) /\ Len(t) < Limit[4] /\ Len(t) <= MaxLen
  BY TextFacts, LimitFacts
<1>3. Holds(s, t) /\ s.len = Len(t)
  BY <1>1, <1>2, NewHolds
<1>4. Content = t
  BY <1>3 DEF Content, Holds, Bytes
<1>5. IInv
  BY <1>2, <1>3 DEF IInv, Holds, Init, Idle
<1> QED BY <1>4, <1>5

(* A call and what it did to the bytes make a step of SdsSpec.               *)
LEMMA TextCallMaps ==
  ASSUME NEW t \in Text,
         \/ /\ Does("sdsnewlen", t) \/ Does("sdscpylen", t)
            /\ Content' = t
         \/ /\ Does("sdscatlen", t) \/ Does("read", t) \/ Does("sdscatfmt", t)
            /\ Content' = Content \o t
  PROVE  Abstract!SdsNext
<1>1. t \in Abstract!Text
  BY DEF Abstract!Text, Text
<1>2. Abstract!TextCall(t)
  BY DEF Abstract!TextCall, Abstract!Become, Abstract!Append_, Abstract!Does, Does
<1> QED BY <1>1, <1>2 DEF Abstract!SdsNext

LEMMA LengthCallMaps ==
  ASSUME NEW n \in 0 .. MaxLen,
         \/ Does("sdsgrowzero", n) /\ Abstract!GrowZero(n)
         \/ /\ Does("sdsIncrLen", -n) /\ n <= Len(Content)
            /\ Abstract!Truncate(Len(Content) - n)
         \/ Does("sdsMakeRoomFor", n) /\ Content' = Content
  PROVE  Abstract!SdsNext
<1>1. Abstract!LengthCall(n)
  BY DEF Abstract!LengthCall, Abstract!Does, Does
<1> QED BY <1>1 DEF Abstract!SdsNext

LEMMA OtherCallMaps ==
  ASSUME \/ Does("sdsRemoveFreeSpace", "none") /\ Content' = Content
         \/ Does("sdsclear", "none") /\ Abstract!Truncate(0)
         \/ Does("sdsupdatelen", "none") /\ Abstract!UpToNul
         \/ \E cset \in CharSet : Does("sdstrim", cset) /\ Abstract!Trim(cset)
         \/ \E start, end \in Index :
              Does("sdsrange", <<start, end>>) /\ Abstract!Range_(start, end)
         \/ \E f \in ByteMap : Does("sdsmapchars", f) /\ Abstract!MapBytes(f)
  PROVE  Abstract!SdsNext
<1>1. Abstract!OtherCall
  BY DEF Abstract!OtherCall, Abstract!Does, Does
<1> QED BY <1>1 DEF Abstract!SdsNext

LEMMA EmptyText == <<>> \in Text
<1>1. <<>> \in [1 .. 0 -> Byte] /\ 0 \in 0 .. MaxArg
  BY BytesOK
<1> QED BY <1>1 DEF Text

LEMMA NothingAppended ==
  ASSUME Content \in Seq(Byte), Content' = Content
  PROVE  Content' = Content \o <<>>
<1> HIDE DEF Content
<1> QED OBVIOUS

(* Every function returns what SdsSpec says of the bytes.                    *)
LEMMA FunctionSteps ==
  ASSUME IInv,
         \/ \E t \in Text : New_(t) \/ Cat(t) \/ Cpy(t)
         \/ \E n \in 0 .. MaxLen : GrowTo(n) \/ MakeRoom(n) \/ CutEnd(n)
         \/ RemoveFreeSpace \/ Clear \/ UpdateLen
         \/ \E cset \in CharSet : TrimSet(cset)
         \/ \E start, end \in Index : RangeOf(start, end)
         \/ \E f \in ByteMap : MapChars(f)
         \/ \E n \in 0 .. MaxLen, t \in Text : ReadInto(n, t)
  PROVE  IInv' /\ Abstract!SdsNext
<1>0. /\ Ready /\ Sound(s) /\ Ended(s) /\ s.len \in Nat /\ s.len <= MaxLen /\ MaxLen \in Nat
      /\ Prealloc \in Nat /\ 8 * MaxLen + Prealloc < Limit[4] /\ Limit[4] \in Nat
      /\ Content = Bytes(s) /\ Content \in Seq(Byte) /\ Len(Content) = s.len
      /\ \A k \in 1 .. s.len : Content[k] = s.cells[k]
  <2>1. Ready BY DEF New_, Cat, Cpy, GrowTo, MakeRoom, CutEnd, RemoveFreeSpace,
                     Clear, UpdateLen, TrimSet, RangeOf, MapChars, ReadInto
  <2>2. Sound(s) /\ Ended(s) /\ s.len <= MaxLen
    BY <2>1 DEF IInv, Ready
  <2>3. Content = Bytes(s)
    BY DEF Content, Bytes
  <2> QED BY <2>1, <2>2, <2>3, SoundFacts, LimitFacts DEF Type
<1>1. ASSUME NEW t \in Text, New_(t) PROVE IInv' /\ Abstract!SdsNext
  <2>1. t \in Seq(Byte) /\ Len(t) < Limit[4] /\ Len(t) <= MaxLen
    BY <1>0, TextFacts
  <2>2. Holds(s', t) /\ s'.len = Len(t)
    BY <1>1, <2>1, NewHolds DEF New_
  <2>3. IInv' /\ Content' = t
    BY <1>1, <2>1, <2>2, IdleStep DEF New_
  <2>4. Does("sdsnewlen", t)
    BY <1>1 DEF New_
  <2> QED BY <2>3, <2>4, TextCallMaps
<1>2. ASSUME NEW t \in Text, Cat(t) PROVE IInv' /\ Abstract!SdsNext
  <2>1. t \in Seq(Byte) /\ Len(t) \in Nat /\ s.len + Len(t) <= MaxLen
    BY <1>2, TextFacts DEF Cat, Fits
  <2>2. 2 * (s.len + Len(t)) + Prealloc < Limit[4]
    BY <1>0, <2>1, SMTT(30)
  <2>3. Holds(s', Bytes(s) \o t) /\ s'.len = s.len + Len(t)
    BY <1>0, <1>2, <2>1, <2>2, CatHolds DEF Cat
  <2>4. IInv' /\ Content' = Content \o t
    BY <1>0, <1>2, <2>1, <2>3, IdleStep DEF Cat
  <2>5. Does("sdscatlen", t)
    BY <1>2 DEF Cat
  <2> QED BY <2>4, <2>5, TextCallMaps
<1>3. ASSUME NEW t \in Text, Cpy(t) PROVE IInv' /\ Abstract!SdsNext
  <2>1. t \in Seq(Byte) /\ Len(t) \in Nat /\ Len(t) <= MaxLen
    BY TextFacts
  <2>2. 2 * Len(t) + Prealloc < Limit[4]
    BY <1>0, <2>1
  <2>3. Holds(s', t) /\ s'.len = Len(t)
    BY <1>0, <1>3, <2>1, <2>2, CpyHolds DEF Cpy
  <2>4. IInv' /\ Content' = t
    BY <1>3, <2>1, <2>3, IdleStep DEF Cpy
  <2>5. Does("sdscpylen", t)
    BY <1>3 DEF Cpy
  <2> QED BY <2>4, <2>5, TextCallMaps
<1>4. ASSUME NEW n \in 0 .. MaxLen, GrowTo(n) PROVE IInv' /\ Abstract!SdsNext
  <2>1. n \in Nat /\ 2 * n + Prealloc < Limit[4]
    BY <1>0
  <2>2. /\ n <= s.len => Holds(s', Bytes(s)) /\ s'.len = s.len
        /\ n > s.len => Holds(s', Bytes(s) \o Zeros(n - s.len)) /\ s'.len = n
    BY <1>0, <1>4, <2>1, GrowZeroHolds DEF GrowTo
  <2>0. Does("sdsgrowzero", n)
    BY <1>4 DEF GrowTo
  <2>3. CASE n <= s.len
    <3>1. IInv' /\ Content' = Content
      BY <1>0, <1>4, <2>2, <2>3, IdleStep DEF GrowTo
    <3>2. Abstract!GrowZero(n)
      BY <1>0, <2>1, <2>3, <3>1 DEF Abstract!GrowZero
    <3> QED BY <2>0, <3>1, <3>2, LengthCallMaps
  <2>4. CASE n > s.len
    <3>0. Holds(s', Bytes(s) \o Zeros(n - s.len)) /\ s'.len <= MaxLen
      BY <2>1, <2>2, <2>4
    <3>1. IInv' /\ Content' = Content \o Zeros(n - s.len)
      BY <1>0, <3>0, IdleStep
    <3>2. Abstract!GrowZero(n)
      BY <1>0, <2>4, <3>1 DEF Abstract!GrowZero, Abstract!Zeros, Zeros
    <3> QED BY <2>0, <3>1, <3>2, LengthCallMaps
  <2> QED BY <1>0, <2>1, <2>3, <2>4
<1>5. ASSUME NEW n \in 0 .. MaxLen, MakeRoom(n) PROVE IInv' /\ Abstract!SdsNext
  <2>1. n \in Nat /\ 2 * (s.len + n) + Prealloc < Limit[4]
    BY <1>0, <1>5 DEF MakeRoom, Fits
  <2>2. Holds(s', Bytes(s)) /\ s'.len = s.len
    BY <1>0, <1>5, <2>1, MakeRoomIsSound, MakeRoomHolds DEF MakeRoom, SameBytes
  <2>3. IInv' /\ Content' = Content
    BY <1>0, <1>5, <2>2, IdleStep DEF MakeRoom
  <2>4. Does("sdsMakeRoomFor", n)
    BY <1>5 DEF MakeRoom
  <2> QED BY <2>3, <2>4, LengthCallMaps
<1>6. ASSUME NEW n \in 0 .. MaxLen, CutEnd(n) PROVE IInv' /\ Abstract!SdsNext
  <2> DEFINE m == s.len - n
  <2>1. m \in 0 .. MaxLen /\ m <= s.len /\ n > 0
    BY <1>0, <1>6, SMTT(30) DEF CutEnd
  <2>2. s' = PutNul(sdssetlen(s, m), m)
    <3> DEFINE legal == IF s.type = 0
                          THEN \/ -n > 0 /\ s.len + -n < Limit[0]
                               \/ -n < 0 /\ s.len >= -(-n)
                          ELSE \/ -n >= 0 /\ s.alloc - s.len >= -n
                               \/ -n < 0 /\ s.len >= -(-n)
    <3>1. legal
      BY <1>0, <2>1, Z3T(20)
    <3>2. Assert_(s, legal) = s
      <4>1. s \in String /\ s.ok BY <1>0 DEF Sound, Consistent
      <4> HIDE DEF legal
      <4> QED BY <3>1, <4>1 DEF Assert_, String
    <3>3. s.len + -n = m BY <1>0
    <3> QED BY <1>6, <3>2, <3>3 DEF CutEnd, sdsIncrLen
  <2> HIDE DEF m
  <2>3. Holds(s', SubSeq(Bytes(s), 1, m)) /\ s'.len <= MaxLen
    BY <1>0, <2>1, <2>2, CutHolds
  <2>4. IInv' /\ Content' = SubSeq(Content, 1, m)
    BY <1>0, <2>3, IdleStep
  <2>5. Does("sdsIncrLen", -n)
    BY <1>6 DEF CutEnd
  <2>6. n <= Len(Content) /\ Abstract!Truncate(Len(Content) - n)
    <3>1. Len(Content) - n = m /\ m <= Len(Content) /\ n <= Len(Content)
      BY <1>0, <1>6, <2>1 DEF CutEnd, m
    <3> QED BY <2>4, <3>1 DEF Abstract!Truncate
  <2> QED BY <2>4, <2>5, <2>6, LengthCallMaps
<1>7. ASSUME RemoveFreeSpace PROVE IInv' /\ Abstract!SdsNext
  <2>1. Holds(s', Bytes(s)) /\ s'.len = s.len
    BY <1>0, <1>7, RemoveFreeSpaceHolds DEF RemoveFreeSpace
  <2>2. IInv' /\ Content' = Content
    BY <1>0, <1>7, <2>1, IdleStep DEF RemoveFreeSpace
  <2>3. Does("sdsRemoveFreeSpace", "none")
    BY <1>7 DEF RemoveFreeSpace
  <2> QED BY <2>2, <2>3, OtherCallMaps
<1>8. ASSUME Clear PROVE IInv' /\ Abstract!SdsNext
  <2>1. Holds(s', SubSeq(Bytes(s), 1, 0)) /\ s'.len <= MaxLen
    BY <1>0, <1>8, CutHolds DEF Clear, sdsclear
  <2>2. IInv' /\ Content' = SubSeq(Content, 1, 0)
    BY <1>0, <2>1, IdleStep
  <2>3. Does("sdsclear", "none") /\ Abstract!Truncate(0)
    BY <1>0, <1>8, <2>2 DEF Clear, Abstract!Truncate
  <2> QED BY <2>2, <2>3, OtherCallMaps
<1>9. ASSUME UpdateLen PROVE IInv' /\ Abstract!SdsNext
  <2>1. PICK n \in 0 .. Len(s.cells) - 1 : StrlenIs(s, n) /\ s' = sdsupdatelen(s, n)
    BY <1>9 DEF UpdateLen
  <2>2. n \in Nat /\ n <= s.len /\ s.cells[n + 1] = NUL /\ \A i \in 1 .. n : s.cells[i] # NUL
    BY <1>0, <2>1 DEF StrlenIs, Ended
  <2>3. Holds(s', SubSeq(Bytes(s), 1, n)) /\ s'.len <= MaxLen
    BY <1>0, <2>1, <2>2, CutHolds DEF sdsupdatelen
  <2>4. IInv' /\ Content' = SubSeq(Content, 1, n)
    BY <1>0, <2>3, IdleStep
  <2>5. /\ n \in 0 .. Len(Content) /\ \A i \in 1 .. n : Content[i] # NUL
        /\ n < Len(Content) => Content[n + 1] = NUL
    <3> HIDE DEF Content
    <3>1. n \in 0 .. Len(Content)
      BY <1>0, <2>2
    <3>2. ASSUME NEW i \in 1 .. n PROVE Content[i] # NUL
      <4>1. i \in 1 .. s.len
        BY <1>0, <2>2
      <4>2. Content[i] = s.cells[i]
        BY <1>0, <4>1
      <4> QED BY <2>2, <4>2
    <3>3. ASSUME n < Len(Content) PROVE Content[n + 1] = NUL
      BY <1>0, <2>2, <3>3
    <3> QED BY <3>1, <3>2, <3>3
  <2>6. Abstract!UpToNul
    BY <2>4, <2>5 DEF Abstract!UpToNul, Abstract!Truncate
  <2>7. Does("sdsupdatelen", "none")
    BY <1>9 DEF UpdateLen
  <2> QED BY <2>4, <2>6, <2>7, OtherCallMaps
<1>10. ASSUME NEW cset \in CharSet, TrimSet(cset) PROVE IInv' /\ Abstract!SdsNext
  <2>0. PICK sp \in 0 .. s.len :
          \E ep \in sp - 1 .. s.len - 1 :
            TrimStops(s, cset, sp, ep) /\ s' = sdstrim(s, sp, ep)
    BY <1>10 DEF TrimSet
  <2>1. PICK ep \in sp - 1 .. s.len - 1 :
          TrimStops(s, cset, sp, ep) /\ s' = sdstrim(s, sp, ep)
    BY <2>0
  <2> DEFINE n == (ep - sp) + 1
  <2>2. sp \in Nat /\ n \in Nat /\ sp + n <= s.len /\ sp + n = ep + 1 /\ n <= s.len
    BY <1>0, <2>1
  <2>3. Holds(s', SubSeq(Bytes(s), sp + 1, sp + n)) /\ s'.len <= MaxLen
    <3>1. s' = KeepOnly(s, sp, n)
      BY <2>1 DEF sdstrim
    <3> HIDE DEF n
    <3> QED BY <1>0, <2>2, <3>1, KeepOnlyHolds, SMTT(30)
  <2>4. IInv' /\ Content' = SubSeq(Content, sp + 1, ep + 1)
    <3> HIDE DEF n
    <3>1. IInv' /\ Content' = SubSeq(Content, sp + 1, sp + n)
      BY <1>0, <2>3, IdleStep
    <3> QED BY <2>2, <3>1
  <2>5. /\ sp + 1 \in 1 .. Len(Content) + 1 /\ ep + 1 \in 0 .. Len(Content)
    BY <1>0, <2>1
  <2>6. Abstract!TrimmedFrom(Content, cset, sp + 1, ep + 1)
    <3>1. ASSUME NEW i \in 1 .. s.len, i \notin sp + 1 .. ep + 1
          PROVE  s.cells[i] \in cset \cup {NUL}
      <4>1. CASE i <= sp
        <5>1. i - 1 \in 0 .. sp - 1 /\ (i - 1) + 1 = i
          BY <2>1, <4>1
        <5> QED BY <2>1, <5>1 DEF TrimStops, Trimmed
      <4>2. CASE i > ep + 1
        <5>1. i - 1 \in ep + 1 .. s.len - 1 /\ (i - 1) + 1 = i
          BY <1>0, <2>1, <4>2
        <5> QED BY <2>1, <5>1 DEF TrimStops, Trimmed
      <4> QED BY <1>0, <2>1, <3>1, <4>1, <4>2
    <3>2. ASSUME sp <= ep
          PROVE  s.cells[sp + 1] \notin cset \cup {NUL} /\ s.cells[ep + 1] \notin cset \cup {NUL}
      BY <1>0, <2>1, <3>2 DEF TrimStops, Trimmed
    <3>3. \A i \in 1 .. Len(Content) :
            i \notin sp + 1 .. ep + 1 => Content[i] \in cset \cup {NUL}
      BY <1>0, <3>1
    <3>4. ASSUME sp + 1 <= ep + 1
          PROVE  /\ Content[sp + 1] \notin cset \cup {NUL}
                 /\ Content[ep + 1] \notin cset \cup {NUL}
      <4>1. sp <= ep /\ sp + 1 \in 1 .. s.len /\ ep + 1 \in 1 .. s.len
        BY <1>0, <2>1, <3>4
      <4> QED BY <1>0, <3>2, <4>1
    <3> QED BY <3>3, <3>4 DEF Abstract!TrimmedFrom, Abstract!Blank
  <2>7. Abstract!Trim(cset)
    BY <2>4, <2>5, <2>6 DEF Abstract!Trim
  <2>8. Does("sdstrim", cset)
    BY <1>10 DEF TrimSet
  <2> QED BY <2>4, <2>7, <2>8, OtherCallMaps
<1>11. ASSUME NEW start \in Index, NEW end \in Index, RangeOf(start, end)
       PROVE  IInv' /\ Abstract!SdsNext
  <2> DEFINE from == Absolute(start, s.len)
             to == Absolute(end, s.len)
             n == NewLen(from, to, s.len)
             first == IF n = 0 THEN 0 ELSE from
  <2>1. start \in Int /\ end \in Int
    BY BytesOK
  <2>2. from \in Nat /\ to \in Nat
    BY <1>0, <2>1, Z3T(20) DEF Absolute
  <2>3. /\ from = Abstract!FromStart(start, Len(Content))
        /\ to = Abstract!FromStart(end, Len(Content))
    BY <1>0 DEF Absolute, Abstract!FromStart
  <2> DEFINE last == Abstract!AtMost(to + 1, Len(Content))
  <2>4. Abstract!Range_(start, end) <=> Content' = SubSeq(Content, from + 1, last)
    BY <2>3 DEF Abstract!Range_
  <2>7. Does("sdsrange", <<start, end>>)
    BY <1>11 DEF RangeOf
  <2>5. CASE s.len = 0
    <3>1. s' = s
      BY <1>11, <2>5 DEF RangeOf, sdsrange
    <3>2. Holds(s', Bytes(s)) /\ s'.len = s.len
      BY <1>0, <3>1 DEF Holds
    <3>3. IInv' /\ Content' = Content
      BY <1>0, <1>11, <3>2, IdleStep DEF RangeOf
    <3>4. SubSeq(Content, from + 1, last) = Content
      BY <1>0, <2>2, <2>5 DEF Abstract!AtMost
    <3> QED BY <2>4, <2>7, <3>3, <3>4, OtherCallMaps
  <2>6. CASE s.len # 0
    <3>1. n \in Nat /\ first \in Nat /\ first + n <= s.len /\ n <= s.len
      BY <1>0, <2>2, Z3T(20) DEF NewLen
    <3>2. s' = KeepOnly(s, first, n)
      BY <1>11, <2>6 DEF RangeOf, sdsrange
    <3>3. SubSeq(Content, first + 1, first + n) = SubSeq(Content, from + 1, last)
      <4>0. last = IF to + 1 < s.len THEN to + 1 ELSE s.len
        BY <1>0 DEF Abstract!AtMost
      <4>1. CASE n = 0
        <5>1. from \in Int /\ last \in Int /\ last < from + 1
          <6> HIDE DEF from, to, last
          <6> QED BY <1>0, <2>2, <4>0, <4>1 DEF NewLen
        <5>2. first = 0
          BY <4>1
        <5> HIDE DEF from, to, last, n, first
        <5>3. SubSeq(Content, from + 1, last) = <<>>
          BY <1>0, <5>1, EmptySubSeq
        <5>4. SubSeq(Content, first + 1, first + n) = <<>>
          <6>1. first + 1 = 1 /\ first + n = 0
            BY <4>1, <5>2
          <6>2. SubSeq(Content, 1, 0) = <<>>
            BY <1>0, EmptySubSeq
          <6> QED BY <6>1, <6>2
        <5> QED BY <5>3, <5>4
      <4>2. CASE n # 0
        <5>1. first = from
          BY <4>2
        <5>2. from + n = last
          <6>1. n = IF from > to \/ from >= s.len THEN 0
                      ELSE IF to >= s.len THEN s.len - from ELSE (to - from) + 1
            BY DEF NewLen
          <6> HIDE DEF from, to, last, n
          <6>2. from <= to /\ from < s.len
            BY <1>0, <2>2, <4>2, <6>1
          <6>3. CASE to >= s.len
            BY <1>0, <2>2, <4>0, <6>1, <6>2, <6>3
          <6>4. CASE to < s.len
            BY <1>0, <2>2, <4>0, <6>1, <6>2, <6>4
          <6> QED BY <1>0, <2>2, <6>3, <6>4
        <5> HIDE DEF from, to, last, n, first
        <5> QED BY <5>1, <5>2
      <4> QED BY <4>1, <4>2
    <3> HIDE DEF n, first, last, from
    <3>4. Holds(s', SubSeq(Bytes(s), first + 1, first + n)) /\ s'.len <= MaxLen
      BY <1>0, <3>1, <3>2, KeepOnlyHolds, Z3T(20)
    <3>5. IInv' /\ Content' = SubSeq(Content, first + 1, first + n)
      BY <1>0, <3>4, IdleStep
    <3> QED BY <2>4, <2>7, <3>3, <3>5, OtherCallMaps
  <2> QED BY <2>5, <2>6
<1>12. ASSUME NEW f \in ByteMap, MapChars(f) PROVE IInv' /\ Abstract!SdsNext
  <2>1. f \in [Byte -> Byte]
    BY BytesOK
  <2>2. /\ Holds(s', [i \in 1 .. Len(Bytes(s)) |-> f[Bytes(s)[i]]])
        /\ s'.len = s.len
    BY <1>0, <1>12, <2>1, MapHolds DEF MapChars
  <2>3. IInv' /\ Content' = [i \in 1 .. Len(Content) |-> f[Content[i]]]
    BY <1>0, <1>12, <2>2, IdleStep DEF MapChars
  <2>4. Does("sdsmapchars", f) /\ Abstract!MapBytes(f)
    BY <1>12, <2>3 DEF MapChars, Abstract!MapBytes
  <2> QED BY <2>3, <2>4, OtherCallMaps
<1>13. ASSUME NEW n \in 0 .. MaxLen, NEW t \in Text, ReadInto(n, t)
       PROVE  IInv' /\ Abstract!SdsNext
  <2>1. /\ n \in Nat /\ n > 0 /\ t \in Seq(Byte) /\ Len(t) \in Nat /\ Len(t) <= n
        /\ s.len + n <= MaxLen
    BY <1>0, <1>13, TextFacts DEF ReadInto, Fits
  <2>2. 2 * (s.len + n) + Prealloc < Limit[4]
    BY <1>0, <2>1, Z3T(20)
  <2>3. Holds(s', Bytes(s) \o t) /\ s'.len <= MaxLen
    BY <1>0, <1>13, <2>1, <2>2, ReadIntoHolds, Z3T(20) DEF ReadInto
  <2>4. IInv' /\ Content' = Content \o t
    BY <1>0, <2>3, IdleStep
  <2>5. Does("read", t)
    BY <1>13 DEF ReadInto
  <2> QED BY <2>4, <2>5, TextCallMaps
<1> QED BY <1>1, <1>2, <1>3, <1>4, <1>5, <1>6, <1>7, <1>8, <1>9, <1>10, <1>11,
           <1>12, <1>13

(* sdscatfmt() appends, a piece at a time.                                   *)
LEMMA FormatSteps ==
  ASSUME IInv,
         \/ \E n \in 0 .. MaxArg : BeginFmt(n)
         \/ \E b \in Byte, used \in 1 .. 2 : FmtCopies(b, used)
         \/ \E t \in Text : FmtInserts(t)
         \/ EndFmt
  PROVE  IInv' /\ Abstract!SdsNext
<1>0. /\ Sound(s) /\ s.len \in Nat /\ s.len <= MaxLen /\ MaxLen \in Nat /\ at \in Nat
      /\ left \in {-1} \cup 0 .. MaxArg /\ MaxArg \in Nat
      /\ Prealloc \in Nat /\ 8 * MaxLen + Prealloc < Limit[4] /\ Limit[4] \in Nat
      /\ Content = Bytes(s) /\ Content \in Seq(Byte) /\ Len(Content) = s.len
  <2>1. Content = Bytes(s)
    BY DEF Content, Bytes
  <2> QED BY <2>1, SoundFacts, LimitFacts, BytesOK DEF IInv, Idle
<1>1. ASSUME NEW n \in 0 .. MaxArg, BeginFmt(n) PROVE IInv' /\ Abstract!SdsNext
  <2>1. left = Idle /\ Ended(s) /\ s.len + n <= MaxLen /\ left' = n /\ at' = s.len
    BY <1>1 DEF BeginFmt, IInv, Fits
  <2>2. s.len + 2 * n \in Nat /\ 2 * (s.len + (s.len + 2 * n)) + Prealloc < Limit[4]
    <3>1. n \in Nat /\ s.len \in Nat
      BY <1>0
    <3>2. \A len \in Nat, k \in Nat :
            len + k <= MaxLen
              => 2 * (len + (len + 2 * k)) + Prealloc < Limit[4] /\ len + 2 * k \in Nat
      BY <1>0
    <3> QED BY <2>1, <3>1, <3>2
  <2>3. s' = sdsMakeRoomFor(s, s.len + 2 * n)
    BY <1>1 DEF BeginFmt
  <2>4. Holds(s', Bytes(s)) /\ SameBytes(s, s')
    BY <1>0, <2>1, <2>2, <2>3, MakeRoomIsSound, MakeRoomHolds
  <2>5. Content' = Content
    BY <1>0, <2>4 DEF Content, Bytes, Holds
  <2>6. Sound(s') /\ s'.len = s.len
    BY <2>4 DEF Holds, SameBytes
  <2>7. IInv'
    BY <1>0, <2>1, <2>6 DEF IInv, Idle
  <2>8. Does("sdscatfmt", <<>>)
    BY <1>1 DEF BeginFmt
  <2> QED BY <1>0, <2>5, <2>7, <2>8, EmptyText, NothingAppended, TextCallMaps
<1>2. ASSUME NEW t \in Seq(Byte), NEW room, Sound(room), SameBytes(s, room),
             Len(t) <= sdsavail(room), s' = sdssetlen(Put(room, at, t), room.len + Len(t)),
             at' = at + Len(t), left' \in 0 .. MaxArg, left # Idle,
             s.len + Len(t) + left' <= MaxLen
      PROVE  IInv' /\ Content' = Content \o t
  <2>1. at = s.len /\ room.len = s.len
    BY <1>2 DEF IInv, SameBytes
  <2>2. Len(t) \in Nat /\ s.len + Len(t) <= MaxLen
    <3>1. Len(t) \in Nat /\ left' \in Nat
      BY <1>2
    <3> QED BY <1>0, <1>2, <3>1
  <2>3. /\ Sound(s') /\ s'.len = s.len + Len(t) /\ Bytes(s') = Bytes(s) \o t
    <3> DEFINE r == sdssetlen(Put(room, s.len, t), s.len + Len(t))
    <3>1. s' = r
      BY <1>2, <2>1
    <3>2. Sound(r) /\ r.len = s.len + Len(t) /\ Bytes(r) = Bytes(s) \o t
      BY <1>0, <1>2, AppendHolds
    <3> HIDE DEF r
    <3> QED BY <3>1, <3>2
  <2>4. Content' = Bytes(s')
    BY DEF Content, Bytes
  <2>5. IInv'
    <3>1. left' \in {-1} \cup 0 .. MaxArg /\ left' # -1
      BY <1>0, <1>2
    <3>2. at' = s'.len /\ at' \in Nat
      <4>1. at' = at + Len(t) /\ at \in Nat
        BY <1>0, <1>2
      <4>2. s'.len = s.len + Len(t) /\ at = s.len /\ Len(t) \in Nat
        BY <2>1, <2>2, <2>3
      <4> QED BY <4>1, <4>2
    <3>3. s'.len <= MaxLen /\ s'.len + left' <= MaxLen
      BY <1>2, <2>2, <2>3
    <3> QED BY <2>3, <3>1, <3>2, <3>3 DEF IInv, Idle
  <2> QED BY <1>0, <2>3, <2>4, <2>5
<1>3. ASSUME NEW b \in Byte, NEW used \in 1 .. 2, FmtCopies(b, used)
      PROVE  IInv' /\ Abstract!SdsNext
  <2>1. /\ used <= left /\ left' = left - used /\ left # Idle
        /\ s.len + left <= MaxLen /\ at' = at + Len(<<b>>)
        /\ s' = sdssetlen(Put(AtLeastOne(s), at, <<b>>), AtLeastOne(s).len + Len(<<b>>))
    BY <1>0, <1>3 DEF FmtCopies, PutNext, IInv, Idle
  <2>2. <<b>> \in Seq(Byte) /\ Len(<<b>>) = 1
    OBVIOUS
  <2>3. Sound(AtLeastOne(s)) /\ SameBytes(s, AtLeastOne(s)) /\ 1 <= sdsavail(AtLeastOne(s))
    <3>1. s.len + 1 <= MaxLen /\ 1 \in Nat
      BY <1>0, <2>1
    <3> QED BY <1>0, <3>1, FmtRoom
  <2>4. left' \in 0 .. MaxArg /\ s.len + Len(<<b>>) + left' <= MaxLen /\ MaxArg > 0
    BY <1>0, <2>1, <2>2
  <2>5. Len(<<b>>) <= sdsavail(AtLeastOne(s))
    BY <2>2, <2>3
  <2>6. IInv' /\ Content' = Content \o <<b>>
    BY <1>2, <2>1, <2>2, <2>3, <2>4, <2>5
  <2>7. <<b>> \in Text
    <3>1. <<b>> \in [1 .. 1 -> Byte] /\ 1 \in 0 .. MaxArg
      BY <1>0, <2>4
    <3> QED BY <3>1 DEF Text
  <2>8. Does("sdscatfmt", <<b>>)
    BY <1>3 DEF FmtCopies, PutNext
  <2> QED BY <2>6, <2>7, <2>8, TextCallMaps
<1>4. ASSUME NEW t \in Text, FmtInserts(t) PROVE IInv' /\ Abstract!SdsNext
  <2> DEFINE room == RoomFor(AtLeastOne(s), Len(t))
  <2>1. /\ 2 <= left /\ left' = left - 2 /\ left # Idle
        /\ s.len + left <= MaxLen /\ at' = at + Len(t)
        /\ s.len + (Len(t) + left') <= MaxLen
        /\ s' = sdssetlen(Put(room, at, t), room.len + Len(t))
    BY <1>0, <1>4, Z3T(20) DEF FmtInserts, PutNext, IInv, Idle, Fits
  <2>2. t \in Seq(Byte) /\ Len(t) \in Nat
    BY TextFacts
  <2>3. Sound(room) /\ SameBytes(s, room) /\ Len(t) <= sdsavail(room)
    <3>1. s.len + Len(t) <= MaxLen /\ s.len + 1 <= MaxLen
      BY <1>0, <2>1, <2>2, Z3T(20)
    <3> QED BY <1>0, <2>2, <3>1, FmtRoom
  <2>4. left' \in 0 .. MaxArg /\ s.len + Len(t) + left' <= MaxLen
    BY <1>0, <2>1, <2>2
  <2>5. Does("sdscatfmt", t)
    BY <1>4 DEF FmtInserts, PutNext
  <2> HIDE DEF room
  <2>6. IInv' /\ Content' = Content \o t
    BY <1>2, <2>1, <2>2, <2>3, <2>4
  <2> QED BY <2>5, <2>6, TextCallMaps
<1>5. ASSUME EndFmt PROVE IInv' /\ Abstract!SdsNext
  <2>1. at = s.len /\ left' = Idle /\ at' = 0 /\ s' = PutNul(s, s.len)
    BY <1>5 DEF EndFmt, IInv, Idle
  <2>2. s.len < Len(s.cells) /\ s.len < Limit[s.type] /\ Consistent(s)
        /\ \A k \in 1 .. s.len : s.cells[k] \in Byte
    BY <1>0 DEF Sound
  <2>3. /\ Consistent(s') /\ s'.type = s.type /\ s'.len = s.len
        /\ Len(s'.cells) = Len(s.cells) /\ s'.cells[s.len + 1] = NUL
        /\ \A k \in 1 .. s.len : s'.cells[k] = s.cells[k]
    BY <1>0, <2>1, <2>2, PutNulIsConsistent
  <2>4. Sound(s') /\ Ended(s')
    BY <2>2, <2>3 DEF Sound, Ended
  <2>5. Content' = Content
    BY <2>3 DEF Content
  <2>6. IInv'
    BY <1>0, <2>1, <2>3, <2>4 DEF IInv, Idle
  <2>7. Does("sdscatfmt", <<>>)
    BY <1>5 DEF EndFmt
  <2> QED BY <1>0, <2>5, <2>6, <2>7, EmptyText, NothingAppended, TextCallMaps
<1> QED BY <1>1, <1>3, <1>4, <1>5

LEMMA NextIInv ==
  ASSUME IInv, [Next]_vars
  PROVE  IInv' /\ [Abstract!SdsNext]_<<Content, call>>
<1>1. CASE Next
  BY <1>1, FunctionSteps, FormatSteps DEF Next
<1>2. CASE UNCHANGED vars
  BY <1>2 DEF vars, IInv, Content, Sound, Consistent, Ended
<1> QED BY <1>1, <1>2

-----------------------------------------------------------------------------
(* The invariant holds of every behaviour.                                   *)
THEOREM SpecIInv == Spec => []IInv
<1>1. Init => IInv
  BY InitIInv
<1>2. IInv /\ [Next]_vars => IInv'
  BY NextIInv
<1> QED BY <1>1, <1>2, PTL DEF Spec

(* Nothing a string shows was left there by the allocator.                   *)
THEOREM SpecTypeOK == Spec => []TypeOK
<1>1. IInv => TypeOK
  <2> SUFFICES ASSUME IInv PROVE TypeOK
    OBVIOUS
  <2>1. Sound(s)
    BY DEF IInv
  <2>2. Content = Bytes(s)
    BY DEF Content, Bytes
  <2>3. s \in String /\ s.len <= Len(s.cells) /\ Content \in Seq(Byte)
    BY <2>1, <2>2, SoundFacts
  <2> QED BY <2>3 DEF IInv, TypeOK
<1> QED BY <1>1, SpecIInv, PTL

(* No call writes outside the allocation or fails an assertion, and the zero *)
(* byte is in its place after each: sds.c:81-88, 198-203, 310-332.             *)
THEOREM SpecMemorySafe == Spec => []MemorySafe
<1>1. IInv => MemorySafe
  BY DEF IInv, MemorySafe, Sound, Consistent, Ended
<1> QED BY <1>1, SpecIInv, PTL

(* The capacity in the header is the one that was allocated.                 *)
THEOREM SpecKnowsCapacity == Spec => []KnowsCapacity
<1>1. IInv => KnowsCapacity
  BY DEF IInv, KnowsCapacity, Sound, Consistent
<1> QED BY <1>1, SpecIInv, PTL

(* A string in memory behaves as the sequence of its bytes: each call of     *)
(* sds.c does to them what SdsSpec says of it.                               *)
THEOREM SpecImplements == Spec => Implements
<1>1. Init => Abstract!SdsInit
  BY InitIInv DEF Init, Abstract!SdsInit, Abstract!Text, Text, Abstract!NoCallYet,
                  NoCallYet
<1>2. IInv /\ [Next]_vars => [Abstract!SdsNext]_<<Content, call>>
  BY NextIInv
<1> QED BY <1>1, <1>2, SpecIInv, PTL DEF Spec, Implements, Abstract!SdsSpec
=============================================================================
