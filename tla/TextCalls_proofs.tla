--------------------------- MODULE TextCalls_proofs ---------------------------

(***************************************************************************)
(* Proofs about TextCalls for any strings, numbers, patterns and buffers.   *)
(***************************************************************************)
EXTENDS TextCalls, FiniteSetTheorems, SequenceTheorems, TLAPS

(* Induction over a set of numbers, from the least one that is not in it.    *)
LEMMA SetInduction ==
  ASSUME NEW T, 0 \in T, \A n \in Nat : n \in T => n + 1 \in T
  PROVE  Nat \subseteq T
<1> SUFFICES ASSUME Nat \ T # {} PROVE FALSE
  OBVIOUS
<1> DEFINE R == OpToRel(<, Nat)
<1>1. IsWellFoundedOn(R, Nat)
  BY NatLessThanWellFounded
<1> HIDE DEF R
<1>2. PICK n \in Nat \ T : \A k \in Nat \ T : ~(<<k, n>> \in R)
  BY <1>1, WFMin, Nat \ T \subseteq Nat, Zenon
<1>3. n \in Nat /\ n \notin T
  OBVIOUS
<1>4. n # 0
  BY <1>3
<1>5. n - 1 \in Nat /\ n - 1 < n /\ (n - 1) + 1 = n
  BY <1>3, <1>4
<1>6. <<n - 1, n>> \in R
  BY <1>3, <1>5 DEF R, OpToRel
<1>7. n - 1 \in T
  BY <1>2, <1>5, <1>6
<1> QED BY <1>3, <1>5, <1>7

(* A set of numbers that is not empty has a least one.                       *)
LEMMA LeastNumber ==
  ASSUME NEW T, T \subseteq Nat, T # {}
  PROVE  \E m \in T : \A k \in T : m <= k
<1> DEFINE B == {n \in Nat : \A k \in T : n <= k}
<1>1. 0 \in B
  OBVIOUS
<1>2. PICK n \in Nat : n \in B /\ n + 1 \notin B
  <2> SUFFICES ASSUME \A n \in Nat : n \in B => n + 1 \in B PROVE FALSE
    OBVIOUS
  <2> HIDE DEF B
  <2>1. Nat \subseteq B
    BY <1>1, SetInduction
  <2>2. PICK k \in T : k \in Nat
    OBVIOUS
  <2>3. k + 1 \in B
    BY <2>1, <2>2
  <2> QED BY <2>2, <2>3 DEF B
<1>3. PICK k \in T : ~(n + 1 <= k)
  BY <1>2
<1>4. n <= k /\ k \in Nat
  BY <1>2
<1>5. k = n
  BY <1>3, <1>4
<1> QED BY <1>2, <1>5

(* A function that is given by its first value and a step from each value to *)
(* the next one.                                                             *)
Steps(S) == [Nat -> [S -> S]]
Follows(f, S, x, d) == f \in [Nat -> S] /\ f[0] = x /\ \A n \in Nat : f[n + 1] = d[n][f[n]]

(* A first value and a step for each number give such a function.            *)
LEMMA RecursionExists ==
  ASSUME NEW S, NEW x \in S, NEW d \in Steps(S)
  PROVE  \E f : Follows(f, S, x, d)
<1> USE DEF Steps
<1> DEFINE Upto(n) == {g \in [0 .. n -> S] : g[0] = x /\ \A k \in 0 .. n - 1 : g[k + 1] = d[k][g[k]]}
           T == {n \in Nat : Upto(n) # {}}
<1>1. 0 \in T
  <2>1. [k \in 0 .. 0 |-> x] \in Upto(0)
    OBVIOUS
  <2> QED BY <2>1
<1>2. ASSUME NEW n \in Nat, n \in T PROVE n + 1 \in T
  <2>1. PICK g \in Upto(n) : TRUE
    BY <1>2
  <2> DEFINE e == [k \in 0 .. n + 1 |-> IF k <= n THEN g[k] ELSE d[n][g[n]]]
  <2>2. g[n] \in S /\ d[n][g[n]] \in S /\ \A k \in 0 .. n : g[k] \in S
    BY <2>1
  <2>3. e \in [0 .. n + 1 -> S]
    BY <2>2
  <2>4. e[0] = x
    BY <2>1
  <2>5. \A k \in 0 .. n : e[k + 1] = d[k][e[k]]
    BY <2>1
  <2>6. (n + 1) - 1 = n /\ n + 1 \in Nat
    OBVIOUS
  <2>7. e \in Upto(n + 1)
    <3> HIDE DEF e
    <3> QED BY <2>3, <2>4, <2>5, <2>6
  <2> HIDE DEF Upto
  <2> QED BY <2>6, <2>7
<1>3. \A n \in Nat : Upto(n) # {}
  <2> HIDE DEF Upto
  <2> QED BY <1>1, <1>2, SetInduction
<1> DEFINE G == [n \in Nat |-> CHOOSE g : g \in Upto(n)]
           f == [n \in Nat |-> G[n][n]]
<1>4. \A n \in Nat : G[n] \in Upto(n)
  BY <1>3
<1> HIDE DEF G
<1>5. \A n \in Nat : /\ G[n] \in [0 .. n -> S] /\ G[n][0] = x
                    /\ \A k \in 0 .. n - 1 : G[n][k + 1] = d[k][G[n][k]]
  BY <1>4
<1> HIDE DEF Upto
<1>6. ASSUME NEW n \in Nat
      PROVE  G[n][n] = G[n + 1][n]
  <2> DEFINE V == {k \in Nat : k <= n => G[n][k] = G[n + 1][k]}
  <2>1. 0 \in V
    BY <1>5
  <2>2. ASSUME NEW k \in Nat, k \in V PROVE k + 1 \in V
    <3> SUFFICES ASSUME k + 1 <= n PROVE G[n][k + 1] = G[n + 1][k + 1]
      OBVIOUS
    <3>1. k \in 0 .. n - 1 /\ k \in 0 .. (n + 1) - 1 /\ n + 1 \in Nat
      OBVIOUS
    <3>2. G[n][k] = G[n + 1][k]
      BY <2>2
    <3> QED BY <1>5, <3>1, <3>2
  <2>3. n \in V
    <3> HIDE DEF V
    <3> QED BY <2>1, <2>2, SetInduction
  <2> QED BY <2>3
<1>7. f \in [Nat -> S]
  BY <1>5
<1>8. f[0] = x
  BY <1>5
<1>9. ASSUME NEW n \in Nat PROVE f[n + 1] = d[n][f[n]]
  <2>1. n + 1 \in Nat /\ n \in 0 .. (n + 1) - 1
    OBVIOUS
  <2>2. G[n + 1][n + 1] = d[n][G[n + 1][n]]
    BY <1>5, <2>1
  <2> QED BY <1>6, <2>1, <2>2
<1> QED BY <1>7, <1>8, <1>9 DEF Follows

(* The same up to a number.                                                  *)
StepsTo(S, n) == [1 .. n -> [S -> S]]
FollowsTo(f, S, x, d, n) ==
  f \in [0 .. n -> S] /\ f[0] = x /\ \A k \in 1 .. n : f[k] = d[k][f[k - 1]]

(* The same for a function of 0 .. n.                                        *)
LEMMA BoundedRecursion ==
  ASSUME NEW n \in Nat, NEW S, NEW x \in S, NEW d \in StepsTo(S, n)
  PROVE  \E f : FollowsTo(f, S, x, d, n)
<1> USE DEF StepsTo
<1> DEFINE e == [k \in Nat |-> IF k + 1 \in 1 .. n THEN d[k + 1] ELSE [y \in S |-> y]]
<1>1. e \in Steps(S)
  BY DEF Steps
<1>2. \A k \in 1 .. n : e[k - 1] = d[k]
  OBVIOUS
<1> HIDE DEF e
<1>3. PICK f : Follows(f, S, x, e)
  BY <1>1, RecursionExists
<1> DEFINE g == [k \in 0 .. n |-> f[k]]
<1>4. g \in [0 .. n -> S]
  BY <1>3 DEF Follows
<1>5. ASSUME NEW k \in 1 .. n PROVE f[k] = d[k][f[k - 1]]
  <2>1. k - 1 \in Nat /\ (k - 1) + 1 = k
    OBVIOUS
  <2> QED BY <1>2, <1>3, <2>1 DEF Follows
<1>6. g[0] = x /\ \A k \in 1 .. n : g[k] = d[k][g[k - 1]]
  BY <1>3, <1>5 DEF Follows
<1>7. FollowsTo(g, S, x, d, n)
  BY <1>4, <1>6 DEF FollowsTo
<1> QED BY <1>7

(* The same with one step for every number.                                  *)
Maps(S) == [S -> S]
Repeats(f, S, x, d) == f \in [Nat -> S] /\ f[0] = x /\ \A k \in Nat : f[k + 1] = d[f[k]]

(* The same where every value takes the same step.                           *)
LEMMA NatRecursion ==
  ASSUME NEW S, NEW x \in S, NEW d \in Maps(S)
  PROVE  \E f : Repeats(f, S, x, d)
<1> USE DEF Maps
<1> DEFINE e == [k \in Nat |-> d]
<1>1. e \in Steps(S) /\ \A k \in Nat : e[k] = d
  BY DEF Steps
<1> HIDE DEF e
<1>2. PICK f : Follows(f, S, x, e)
  BY <1>1, RecursionExists
<1>3. Repeats(f, S, x, d)
  BY <1>1, <1>2 DEF Follows, Repeats
<1> QED BY <1>3

-----------------------------------------------------------------------------
(* Comparing.  One string is before another at the first place where they    *)
(* differ, the end of the first one counting as a difference.                *)
BeforeAt(a, b, k) ==
  /\ k \in 1 .. Len(b) /\ k <= Len(a) + 1
  /\ \A i \in 1 .. k - 1 : a[i] = b[i]
  /\ k <= Len(a) => a[k] < b[k]

Before(a, b) == \E k \in Nat : BeforeAt(a, b, k)

(* The characters of a string.                                               *)
LEMMA ByteOf ==
  ASSUME NEW s \in Seq(Bytes)
  PROVE  Len(s) \in Nat /\ \A i \in 1 .. Len(s) : s[i] \in Bytes /\ s[i] \in Int
<1>1. Len(s) \in Nat /\ \A i \in 1 .. Len(s) : s[i] \in Bytes
  OBVIOUS
<1>2. Bytes \subseteq Int
  BY DEF Bytes
<1> QED BY <1>1, <1>2

(* What sdscmp() returns says which string is before the other.              *)
LEMMA CompareMeaning ==
  ASSUME NEW a \in Seq(Bytes), NEW b \in Seq(Bytes)
  PROVE  \/ sdscmp(a, b) = 0 /\ a = b
         \/ sdscmp(a, b) = -1 /\ Before(a, b)
         \/ sdscmp(a, b) = 1 /\ Before(b, a)
<1> DEFINE n == IF Len(a) < Len(b) THEN Len(a) ELSE Len(b)
           differ == {i \in 1 .. n : a[i] # b[i]}
           first == CHOOSE i \in differ : \A j \in differ : i <= j
<1>1. n \in Nat /\ n <= Len(a) /\ n <= Len(b) /\ (n = Len(a) \/ n = Len(b))
  OBVIOUS
<1>2. sdscmp(a, b) = Sign(IF memcmp(a, b, n) = 0 THEN Len(a) - Len(b) ELSE memcmp(a, b, n))
  BY DEF sdscmp
<1>3. memcmp(a, b, n) = IF differ = {} THEN 0 ELSE a[first] - b[first]
  BY DEF memcmp
<1> HIDE DEF n
<1>4. CASE differ = {}
  <2>1. \A i \in 1 .. n : a[i] = b[i]
    BY <1>4
  <2>2. CASE Len(a) = Len(b)
    <3>1. a = b
      BY <1>1, <2>1, <2>2
    <3> QED BY <1>2, <1>3, <1>4, <2>2, <3>1 DEF Sign
  <2>3. CASE Len(a) < Len(b)
    <3>1. BeforeAt(a, b, Len(a) + 1) /\ Len(a) + 1 \in Nat
      BY <1>1, <2>1, <2>3 DEF BeforeAt
    <3> QED BY <1>2, <1>3, <1>4, <2>3, <3>1 DEF Sign, Before
  <2>4. CASE Len(b) < Len(a)
    <3>1. BeforeAt(b, a, Len(b) + 1) /\ Len(b) + 1 \in Nat
      BY <1>1, <2>1, <2>4 DEF BeforeAt
    <3> QED BY <1>2, <1>3, <1>4, <2>4, <3>1 DEF Sign, Before
  <2> QED BY <2>2, <2>3, <2>4
<1>5. CASE differ # {}
  <2>1. \E i \in differ : \A j \in differ : i <= j
    <3>1. differ \subseteq Nat
      BY <1>1
    <3> HIDE DEF differ
    <3> QED BY <1>5, <3>1, LeastNumber
  <2>2. first \in differ /\ \A j \in differ : first <= j
    BY <2>1
  <2> HIDE DEF first
  <2>3. first \in 1 .. n /\ a[first] # b[first]
    BY <2>2
  <2>4. \A i \in 1 .. first - 1 : a[i] = b[i]
    BY <1>1, <2>2, <2>3
  <2>5. a[first] \in Int /\ b[first] \in Int
    BY <1>1, <2>3, ByteOf
  <2> HIDE DEF differ
  <2>6. CASE a[first] < b[first]
    <3>1. BeforeAt(a, b, first)
      BY <1>1, <2>3, <2>4, <2>6 DEF BeforeAt
    <3>2. Before(a, b)
      BY <2>3, <3>1 DEF Before
    <3>3. memcmp(a, b, n) \in Int /\ memcmp(a, b, n) < 0 /\ memcmp(a, b, n) # 0
      BY <1>3, <1>5, <2>5, <2>6
    <3>4. sdscmp(a, b) = -1
      BY <1>2, <3>3 DEF Sign
    <3> QED BY <3>2, <3>4
  <2>7. CASE b[first] < a[first]
    <3>1. BeforeAt(b, a, first)
      BY <1>1, <2>3, <2>4, <2>7 DEF BeforeAt
    <3>2. Before(b, a)
      BY <2>3, <3>1 DEF Before
    <3>3. memcmp(a, b, n) \in Int /\ memcmp(a, b, n) > 0 /\ memcmp(a, b, n) # 0
      BY <1>3, <1>5, <2>5, <2>7
    <3>4. sdscmp(a, b) = 1
      BY <1>2, <3>3 DEF Sign
    <3> QED BY <3>2, <3>4
  <2> QED BY <2>3, <2>5, <2>6, <2>7
<1> QED BY <1>4, <1>5

(* Before is a strict order.                                                 *)
LEMMA BeforeOrders ==
  ASSUME NEW a \in Seq(Bytes), NEW b \in Seq(Bytes), NEW c \in Seq(Bytes)
  PROVE  /\ ~Before(a, a)
         /\ ~(Before(a, b) /\ Before(b, a))
         /\ Before(a, b) /\ Before(b, c) => Before(a, c)
<1>1. \A x \in {a, b, c} : Len(x) \in Nat /\ \A i \in 1 .. Len(x) : x[i] \in Int
  BY ByteOf
<1>2. ~Before(a, a)
  BY <1>1 DEF Before, BeforeAt
<1>3. ASSUME Before(a, b), Before(b, a) PROVE FALSE
  <2>1. PICK k \in Nat : BeforeAt(a, b, k)
    BY <1>3 DEF Before
  <2>2. PICK l \in Nat : BeforeAt(b, a, l)
    BY <1>3 DEF Before
  <2> QED BY <1>1, <2>1, <2>2 DEF BeforeAt
<1>4. ASSUME Before(a, b), Before(b, c) PROVE Before(a, c)
  <2>1. PICK k \in Nat : BeforeAt(a, b, k)
    BY <1>4 DEF Before
  <2>2. PICK l \in Nat : BeforeAt(b, c, l)
    BY <1>4 DEF Before
  <2>3. CASE k <= l
    <3>1. BeforeAt(a, c, k)
      BY <1>1, <2>1, <2>2, <2>3 DEF BeforeAt
    <3> QED BY <3>1 DEF Before
  <2>4. CASE l < k
    <3>1. BeforeAt(a, c, l)
      BY <1>1, <2>1, <2>2, <2>4 DEF BeforeAt
    <3> QED BY <3>1 DEF Before
  <2> QED BY <2>3, <2>4
<1> QED BY <1>2, <1>3, <1>4

(* The two facts together, of any three strings.                             *)
LEMMA CompareIsOrder ==
  ASSUME NEW a \in Seq(Bytes), NEW b \in Seq(Bytes), NEW c \in Seq(Bytes)
  PROVE  /\ sdscmp(a, b) = -sdscmp(b, a)
         /\ (sdscmp(a, b) = 0) = (a = b)
         /\ sdscmp(a, b) <= 0 /\ sdscmp(b, c) <= 0 => sdscmp(a, c) <= 0
<1>1. \A x, y \in {a, b, c} : \/ sdscmp(x, y) = 0 /\ x = y
                              \/ sdscmp(x, y) = -1 /\ Before(x, y)
                              \/ sdscmp(x, y) = 1 /\ Before(y, x)
  <2> TAKE x, y \in {a, b, c}
  <2>1. x \in Seq(Bytes) /\ y \in Seq(Bytes)
    OBVIOUS
  <2> QED BY <2>1, CompareMeaning
<1>2. \A x, y \in {a, b, c} : ~Before(x, x) /\ ~(Before(x, y) /\ Before(y, x))
  BY BeforeOrders
<1>3. Before(a, b) /\ Before(b, c) => Before(a, c)
  BY BeforeOrders
<1>4. sdscmp(a, b) = -sdscmp(b, a) /\ (sdscmp(a, b) = 0) = (a = b)
  BY <1>1, <1>2
<1>5. ASSUME sdscmp(a, b) <= 0, sdscmp(b, c) <= 0 PROVE sdscmp(a, c) <= 0
  <2>1. a = b \/ Before(a, b)
    BY <1>1, <1>5
  <2>2. b = c \/ Before(b, c)
    BY <1>1, <1>5
  <2>3. a = c \/ Before(a, c)
    BY <1>3, <2>1, <2>2
  <2> QED BY <1>1, <1>2, <2>3
<1> QED BY <1>4, <1>5

-----------------------------------------------------------------------------
(* Numbers.  Dividing by ten again and again.                                *)
LEMMA DividedSteps ==
  ASSUME NEW v \in Nat
  PROVE  /\ Divided(v) \in [Nat -> Nat]
         /\ Divided(v)[0] = v
         /\ \A k \in Nat : Divided(v)[k + 1] = Divided(v)[k] \div 10
<1> DEFINE Def(f, k) == IF k = 0 THEN v ELSE f[k - 1] \div 10
           left == CHOOSE f : f = [k \in Nat |-> Def(f, k)]
           d == [x \in Nat |-> x \div 10]
<1>1. Divided(v) = left
  BY DEF Divided
<1>2. d \in Maps(Nat) /\ \A x \in Nat : d[x] = x \div 10
  BY DEF Maps
<1> HIDE DEF d
<1>a. PICK g : Repeats(g, Nat, v, d)
  BY <1>2, NatRecursion
<1>3. g \in [Nat -> Nat] /\ g[0] = v /\ \A k \in Nat : g[k + 1] = d[g[k]]
  BY <1>a DEF Repeats
<1>4. \A k \in Nat : g[k] = Def(g, k)
  <2> TAKE k \in Nat
  <2>1. CASE k = 0
    BY <1>3, <2>1
  <2>2. CASE k # 0
    <3>1. k - 1 \in Nat /\ (k - 1) + 1 = k
      BY <2>2
    <3> QED BY <1>2, <1>3, <2>2, <3>1
  <2> QED BY <2>1, <2>2
<1>5. g = [k \in Nat |-> Def(g, k)]
  BY <1>3, <1>4
<1> HIDE DEF Def
<1>6. left = [k \in Nat |-> Def(left, k)]
  BY <1>5
<1> HIDE DEF left
<1>7. \A k \in Nat : left[k] = Def(left, k)
  BY <1>6
<1> USE DEF Def
<1>8. left[0] = v
  BY <1>7
<1>9. \A k \in Nat : left[k + 1] = left[k] \div 10
  <2> TAKE k \in Nat
  <2>1. k + 1 \in Nat /\ k + 1 # 0 /\ (k + 1) - 1 = k
    OBVIOUS
  <2> QED BY <1>7, <2>1
<1> DEFINE T == {k \in Nat : left[k] \in Nat}
<1>10. 0 \in T
  BY <1>8
<1>11. \A k \in Nat : k \in T => k + 1 \in T
  BY <1>9
<1>12. Nat \subseteq T
  <2> HIDE DEF T
  <2> QED BY <1>10, <1>11, SetInduction
<1>13. left \in [Nat -> Nat]
  <2>1. \A k \in Nat : left[k] \in Nat
    BY <1>12
  <2> HIDE DEF Def
  <2> QED BY <1>6, <2>1
<1> QED BY <1>1, <1>8, <1>9, <1>13

(* The powers of ten.                                                        *)
LEMMA TenSteps == Ten \in [Nat -> Nat] /\ Ten[0] = 1 /\ \A k \in Nat : Ten[k + 1] = 10 * Ten[k]
<1> DEFINE Def(f, k) == IF k = 0 THEN 1 ELSE 10 * f[k - 1]
           ten == CHOOSE f : f = [k \in Nat |-> Def(f, k)]
           d == [x \in Nat |-> 10 * x]
<1>1. Ten = ten
  BY DEF Ten
<1>2. d \in Maps(Nat) /\ \A x \in Nat : d[x] = 10 * x
  BY DEF Maps
<1> HIDE DEF d
<1>3. PICK g : Repeats(g, Nat, 1, d)
  BY <1>2, NatRecursion
<1>4. g \in [Nat -> Nat] /\ g[0] = 1 /\ \A k \in Nat : g[k + 1] = d[g[k]]
  BY <1>3 DEF Repeats
<1>5. \A k \in Nat : g[k] = Def(g, k)
  <2> TAKE k \in Nat
  <2>1. CASE k = 0
    BY <1>4, <2>1
  <2>2. CASE k # 0
    <3>1. k - 1 \in Nat /\ (k - 1) + 1 = k
      BY <2>2
    <3> QED BY <1>2, <1>4, <2>2, <3>1
  <2> QED BY <2>1, <2>2
<1>6. g = [k \in Nat |-> Def(g, k)]
  BY <1>4, <1>5
<1> HIDE DEF Def
<1>7. ten = [k \in Nat |-> Def(ten, k)]
  BY <1>6
<1> HIDE DEF ten
<1>8. \A k \in Nat : ten[k] = Def(ten, k)
  BY <1>7
<1> USE DEF Def
<1>9. ten[0] = 1
  BY <1>8
<1>10. \A k \in Nat : ten[k + 1] = 10 * ten[k]
  <2> TAKE k \in Nat
  <2>1. k + 1 \in Nat /\ k + 1 # 0 /\ (k + 1) - 1 = k
    OBVIOUS
  <2> QED BY <1>8, <2>1
<1> DEFINE T == {k \in Nat : ten[k] \in Nat}
<1>11. 0 \in T
  BY <1>9
<1>12. \A k \in Nat : k \in T => k + 1 \in T
  BY <1>10
<1>13. Nat \subseteq T
  <2> HIDE DEF T
  <2> QED BY <1>11, <1>12, SetInduction
<1>14. ten \in [Nat -> Nat]
  <2>1. \A k \in Nat : ten[k] \in Nat
    BY <1>13
  <2> HIDE DEF Def
  <2> QED BY <1>7, <2>1
<1> QED BY <1>1, <1>9, <1>10, <1>14

(* The loop of sdsll2str() ends after the least number of divisions that     *)
(* leaves nothing, and that is at most m for a number below Ten[m].          *)
Turns(v) == CHOOSE k \in 1 .. v + 1 :
              Divided(v)[k] = 0 /\ \A j \in 1 .. k - 1 : Divided(v)[j] # 0

(* Dividing by ten comes to zero after Turns(v) divisions and no sooner.     *)
LEMMA DivisionsEnd ==
  ASSUME NEW v \in Nat
  PROVE  /\ Turns(v) \in 1 .. v + 1
         /\ Divided(v)[Turns(v)] = 0
         /\ \A j \in 1 .. Turns(v) - 1 : Divided(v)[j] # 0
<1> DEFINE left == Divided(v)
           T == {k \in Nat : left[k] = 0 \/ left[k] + k <= v}
           Z == {k \in 1 .. v + 1 : left[k] = 0}
<1>1. left \in [Nat -> Nat] /\ left[0] = v /\ \A k \in Nat : left[k + 1] = left[k] \div 10
  BY DividedSteps
<1> HIDE DEF left
<1>2. 0 \in T
  BY <1>1
<1>3. ASSUME NEW k \in Nat, k \in T PROVE k + 1 \in T
  <2>1. left[k] \in Nat /\ left[k + 1] = left[k] \div 10
    BY <1>1
  <2>2. left[k + 1] = 0 \/ left[k + 1] + 1 <= left[k]
    BY <2>1
  <2>3. left[k + 1] \in Nat
    BY <1>1
  <2> QED BY <1>3, <2>1, <2>2, <2>3
<1>4. v + 1 \in T
  <2> HIDE DEF T
  <2> QED BY <1>2, <1>3, SetInduction
<1>5. v + 1 \in Z
  BY <1>1, <1>4
<1>6. PICK m \in Z : \A k \in Z : m <= k
  <2>1. Z \subseteq Nat
    OBVIOUS
  <2> HIDE DEF Z
  <2> QED BY <1>5, <2>1, LeastNumber
<1>7. m \in 1 .. v + 1 /\ left[m] = 0 /\ \A j \in 1 .. m - 1 : left[j] # 0
  BY <1>6
<1>8. Turns(v) = CHOOSE k \in 1 .. v + 1 : left[k] = 0 /\ \A j \in 1 .. k - 1 : left[j] # 0
  BY DEF Turns, left
<1> HIDE DEF Z, T
<1>9. /\ Turns(v) \in 1 .. v + 1
      /\ left[Turns(v)] = 0
      /\ \A j \in 1 .. Turns(v) - 1 : left[j] # 0
  BY <1>7, <1>8
<1> QED BY <1>9 DEF left

(* A number below ten to the m-th has at most m digits.                      *)
LEMMA DivisionsBound ==
  ASSUME NEW v \in Nat, NEW m \in Nat \ {0}, v < Ten[m]
  PROVE  Turns(v) <= m
<1> DEFINE left == Divided(v)
           T == {k \in Nat : k <= m => left[k] < Ten[m - k]}
<1>1. left \in [Nat -> Nat] /\ left[0] = v /\ \A k \in Nat : left[k + 1] = left[k] \div 10
  BY DividedSteps
<1>2. /\ Turns(v) \in 1 .. v + 1
      /\ \A j \in 1 .. Turns(v) - 1 : left[j] # 0
  BY DivisionsEnd
<1> HIDE DEF left
<1>3. 0 \in T
  BY <1>1
<1>4. ASSUME NEW k \in Nat, k \in T PROVE k + 1 \in T
  <2> SUFFICES ASSUME k + 1 <= m PROVE left[k + 1] < Ten[m - (k + 1)]
    OBVIOUS
  <2> DEFINE r == m - (k + 1)
  <2>1. r \in Nat /\ r + 1 = m - k
    OBVIOUS
  <2>2. Ten[r] \in Nat /\ Ten[m - k] = 10 * Ten[r]
    BY <2>1, TenSteps
  <2>3. left[k] < Ten[m - k]
    BY <1>4
  <2>4. left[k] \in Nat /\ left[k + 1] = left[k] \div 10
    BY <1>1
  <2> HIDE DEF r
  <2>5. left[k + 1] < Ten[r]
    BY <2>2, <2>3, <2>4
  <2> QED BY <2>5 DEF r
<1>5. m \in T
  <2> HIDE DEF T
  <2> QED BY <1>3, <1>4, SetInduction
<1>6. left[m] = 0
  <2>1. m - m = 0 /\ Ten[0] = 1
    BY TenSteps
  <2>2. left[m] < 1 /\ left[m] \in Nat
    BY <1>1, <1>5, <2>1
  <2> QED BY <2>2
<1> QED BY <1>2, <1>6

(* The digits, first one first, and the number they are read back as.        *)
Digits(v) == [i \in 1 .. Turns(v) |-> 48 + (Divided(v)[Turns(v) - i] % 10)]

(* The digits are collected last one first.                                  *)
LEMMA DigitsReversed ==
  ASSUME NEW v \in Nat
  PROVE  /\ DigitsBackwards(v) \in Seq(Int)
         /\ Len(DigitsBackwards(v)) = Turns(v)
         /\ \A k \in 1 .. Turns(v) : DigitsBackwards(v)[k] = Digits(v)[Turns(v) + 1 - k]
<1> DEFINE D == [k \in 1 .. Turns(v) |-> 48 + (Divided(v)[k - 1] % 10)]
<1>1. DigitsBackwards(v) = D
  BY DEF DigitsBackwards, Turns
<1>2. Turns(v) \in Nat \ {0}
  BY DivisionsEnd
<1>3. \A k \in 1 .. Turns(v) : Divided(v)[k - 1] \in Nat
  BY <1>2, DividedSteps
<1>4. D \in Seq(Int) /\ Len(D) = Turns(v)
  BY <1>2, <1>3
<1>5. ASSUME NEW k \in 1 .. Turns(v) PROVE D[k] = Digits(v)[Turns(v) + 1 - k]
  <2>1. Turns(v) + 1 - k \in 1 .. Turns(v) /\ Turns(v) - (Turns(v) + 1 - k) = k - 1
    BY <1>2
  <2> QED BY <2>1 DEF Digits
<1> QED BY <1>1, <1>4, <1>5

(* Each of them is a digit, and the first one is not 0 in a longer number.   *)
LEMMA DigitsMean ==
  ASSUME NEW v \in Nat
  PROVE  /\ Digits(v) \in Seq(Int) /\ Len(Digits(v)) = Turns(v) /\ Turns(v) \in Nat \ {0}
         /\ \A i \in 1 .. Turns(v) : Digits(v)[i] \in 48 .. 57
         /\ Digits(v)[1] # 48 \/ Digits(v) = << 48 >>
<1> DEFINE left == Divided(v)
           T == Turns(v)
<1>1. left \in [Nat -> Nat] /\ left[0] = v /\ \A k \in Nat : left[k + 1] = left[k] \div 10
  BY DividedSteps
<1>2. T \in 1 .. v + 1 /\ left[T] = 0 /\ \A j \in 1 .. T - 1 : left[j] # 0
  BY DivisionsEnd
<1>3. Digits(v) = [i \in 1 .. T |-> 48 + (left[T - i] % 10)]
  BY DEF Digits
<1> HIDE DEF left, T
<1>4. \A i \in 1 .. T : T - i \in Nat /\ left[T - i] \in Nat
  BY <1>1, <1>2
<1>5. \A i \in 1 .. T : 48 + (left[T - i] % 10) \in 48 .. 57
  BY <1>4
<1>6. Digits(v) \in Seq(Int) /\ Len(Digits(v)) = T /\ \A i \in 1 .. T : Digits(v)[i] \in 48 .. 57
  <2> DEFINE d == [i \in 1 .. T |-> 48 + (left[T - i] % 10)]
  <2>1. T \in Nat
    BY <1>2
  <2>2. d \in [1 .. T -> 48 .. 57]
    BY <1>5
  <2> HIDE DEF d
  <2>3. d \in [1 .. T -> Int] /\ \A i \in 1 .. T : d[i] \in 48 .. 57
    BY <2>2
  <2>4. d \in Seq(Int) /\ Len(d) = T
    BY <2>1, <2>3
  <2> QED BY <1>3, <2>3, <2>4 DEF d
<1>7. Digits(v)[1] = 48 + (left[T - 1] % 10)
  BY <1>2, <1>3
<1>8. left[T - 1] \in Nat /\ left[T - 1] \div 10 = 0
  BY <1>1, <1>2
<1>9. left[T - 1] % 10 = left[T - 1]
  BY <1>8
<1>10. CASE T = 1
  <2>1. \A i \in 1 .. 1 : i = 1
    OBVIOUS
  <2>2. Digits(v)[1] = 48 => Digits(v) = << 48 >>
    BY <1>6, <1>10, <2>1
  <2> QED BY <1>2, <1>6, <2>2 DEF T
<1>11. CASE T # 1
  <2>1. T - 1 \in 1 .. T - 1
    BY <1>2, <1>11
  <2>2. left[T - 1] # 0
    BY <1>2, <2>1
  <2>3. Digits(v)[1] # 48
    BY <1>7, <1>8, <1>9, <2>2
  <2> QED BY <1>2, <1>6, <2>3 DEF T
<1> QED BY <1>10, <1>11

(* Reading digits, as NumberReadsBack does.                                  *)
ReadBack(digits) ==
  LET value[n \in 0 .. Len(digits)] == IF n = 0 THEN 0 ELSE 10 * value[n - 1] + digits[n] - 48
  IN  value[Len(digits)]

(* Read back from the first one on, they are the number.                     *)
LEMMA DigitsReadBack ==
  ASSUME NEW v \in Nat
  PROVE  ReadBack(Digits(v)) = v
<1> DEFINE left == Divided(v)
           T == Turns(v)
           digits == Digits(v)
           Def(f, n) == IF n = 0 THEN 0 ELSE 10 * f[n - 1] + digits[n] - 48
           value == CHOOSE f : f = [n \in 0 .. Len(digits) |-> Def(f, n)]
           g == [n \in 0 .. T |-> left[T - n]]
<1>1. left \in [Nat -> Nat] /\ left[0] = v /\ \A k \in Nat : left[k + 1] = left[k] \div 10
  BY DividedSteps
<1>2. T \in Nat \ {0} /\ left[T] = 0
  BY DivisionsEnd
<1>3. Len(digits) = T
  BY DigitsMean
<1>4. ReadBack(digits) = value[Len(digits)]
  <2> HIDE DEF digits
  <2> QED BY DEF ReadBack
<1>5. \A n \in 1 .. T : digits[n] = 48 + (left[T - n] % 10)
  BY DEF Digits
<1> HIDE DEF left, T, digits
<1>6. ASSUME NEW n \in 1 .. T PROVE left[T - n] = 10 * left[T - (n - 1)] + digits[n] - 48
  <2> DEFINE k == T - n
  <2>1. k \in Nat /\ T - (n - 1) = k + 1
    BY <1>2
  <2>2. left[k] \in Nat /\ left[k + 1] = left[k] \div 10 /\ digits[n] = 48 + (left[k] % 10)
    BY <1>1, <1>5, <2>1
  <2> HIDE DEF k
  <2>3. left[k] = 10 * (left[k] \div 10) + (left[k] % 10)
    BY <2>2
  <2>4. left[k] = 10 * left[k + 1] + digits[n] - 48
    BY <2>2, <2>3
  <2> QED BY <2>1, <2>4 DEF k
<1>7. \A n \in 0 .. T : g[n] = Def(g, n)
  <2> TAKE n \in 0 .. T
  <2>1. CASE n = 0
    BY <1>2, <2>1
  <2>2. CASE n # 0
    <3>1. n \in 1 .. T /\ n - 1 \in 0 .. T
      BY <2>2, <1>2
    <3>2. g[n] = left[T - n] /\ g[n - 1] = left[T - (n - 1)]
      BY <3>1
    <3> HIDE DEF g
    <3> QED BY <1>6, <2>2, <3>1, <3>2
  <2> QED BY <2>1, <2>2
<1>8. g = [n \in 0 .. T |-> g[n]]
  OBVIOUS
<1>9. g = [n \in 0 .. T |-> Def(g, n)]
  <2> HIDE DEF g, Def
  <2> QED BY <1>7, <1>8
<1>10. \A n \in 0 .. T : g[n] \in Int /\ g[n] = left[T - n]
  BY <1>1, <1>2
<1> HIDE DEF Def
<1>11. value = [n \in 0 .. Len(digits) |-> Def(value, n)]
  <2>1. g = [n \in 0 .. Len(digits) |-> Def(g, n)]
    BY <1>3, <1>9
  <2> QED BY <2>1
<1> HIDE DEF value, g
<1> DEFINE W == {n \in Nat : n <= T => value[n] = g[n]}
<1>12. \A n \in 0 .. T : value[n] = Def(value, n)
  BY <1>3, <1>11
<1> USE DEF Def
<1>13. 0 \in W
  BY <1>2, <1>7, <1>12
<1>14. ASSUME NEW n \in Nat, n \in W PROVE n + 1 \in W
  <2> SUFFICES ASSUME n + 1 <= T PROVE value[n + 1] = g[n + 1]
    OBVIOUS
  <2>1. n + 1 \in 0 .. T /\ n + 1 # 0 /\ (n + 1) - 1 = n /\ value[n] = g[n]
    BY <1>2, <1>14
  <2> QED BY <1>7, <1>12, <2>1
<1>15. T \in W
  <2> HIDE DEF W
  <2> QED BY <1>2, <1>13, <1>14, SetInduction
<1>16. value[T] = left[T - T] /\ T - T = 0
  BY <1>2, <1>10, <1>15
<1> QED BY <1>1, <1>3, <1>4, <1>16 DEF digits

(* The unsigned copy of a number is its size.                                *)
LEMMA UnsignedIsSize ==
  ASSUME NEW n \in Nat, n <= LLONG_MAX + 1
  PROVE  Unsigned(n) = n
<1>1. LLONG_MAX \in Nat
  BY SdsTextAssumption
<1> DEFINE w == 2 * (LLONG_MAX + 1)
<1>2. w \in Nat \ {0} /\ n < w
  BY <1>1
<1> HIDE DEF w
<1>3. n % w = n
  BY <1>2
<1> QED BY <1>3 DEF Unsigned, w

(* What sdsll2str() writes: the sign, and the digits of the size.            *)
LEMMA NumberWritten ==
  ASSUME NEW n \in -(LLONG_MAX + 1) .. LLONG_MAX
  PROVE  /\ n >= 0 => sdsll2str(n) = Digits(n) /\ Turns(n) <= LLSTR_SIZE - 2
         /\ n < 0 => /\ sdsll2str(n) = << Minus >> \o Digits(-n)
                     /\ Turns(-n) <= LLSTR_SIZE - 2
<1> DEFINE v == IF n < 0 THEN -n ELSE n
<1>1. LLONG_MAX \in Nat /\ LLSTR_SIZE \in Nat /\ LLSTR_SIZE >= 3 /\ LLONG_MAX + 1 < Ten[LLSTR_SIZE - 2]
  BY SdsTextAssumption
<1>2. v \in Nat /\ v <= LLONG_MAX + 1
  BY <1>1
<1>3. Unsigned(v) = v
  <2> HIDE DEF v
  <2> QED BY <1>2, UnsignedIsSize
<1>4. Turns(v) <= LLSTR_SIZE - 2
  <2>1. LLSTR_SIZE - 2 \in Nat \ {0} /\ Ten[LLSTR_SIZE - 2] \in Nat
    BY <1>1, TenSteps
  <2> HIDE DEF v
  <2>2. v < Ten[LLSTR_SIZE - 2]
    BY <1>1, <1>2, <2>1
  <2> QED BY <1>2, <2>1, <2>2, DivisionsBound
<1> DEFINE B == DigitsBackwards(v)
           sign == IF n < 0 THEN << Minus >> ELSE << >>
<1>5. sdsll2str(n) = Reversed(B \o sign)
  <2>1. sdsll2str(n) = Reversed(DigitsBackwards(Unsigned(v)) \o sign)
    BY DEF sdsll2str
  <2> HIDE DEF v, sign
  <2> QED BY <1>3, <2>1
<1>6. /\ B \in Seq(Int) /\ Len(B) = Turns(v)
      /\ \A k \in 1 .. Turns(v) : B[k] = Digits(v)[Turns(v) + 1 - k]
  <2> HIDE DEF v
  <2> QED BY <1>2, DigitsReversed
<1>7. Digits(v) \in Seq(Int) /\ Len(Digits(v)) = Turns(v) /\ Turns(v) \in Nat
  <2> HIDE DEF v
  <2> QED BY <1>2, DigitsMean, DivisionsEnd
<1> DEFINE D == Digits(v)
           T == Turns(v)
<1> HIDE DEF B, D, T
<1>8. CASE n >= 0
  <2>1. B \o sign = B
    BY <1>6, <1>8
  <2>2. Reversed(B) = [i \in 1 .. T |-> B[T + 1 - i]]
    BY <1>6 DEF Reversed, T
  <2>3. \A i \in 1 .. T : T + 1 - i \in 1 .. T /\ T + 1 - (T + 1 - i) = i
    BY <1>7 DEF T
  <2>4. \A i \in 1 .. T : B[T + 1 - i] = D[i]
    BY <1>6, <2>3 DEF T, D
  <2>5. D = [i \in 1 .. T |-> D[i]]
    BY <1>7 DEF D, T
  <2>6. Reversed(B) = D
    BY <2>2, <2>4, <2>5
  <2>7. v = n
    BY <1>8
  <2>8. sdsll2str(n) = D
    <3> HIDE DEF sign
    <3> QED BY <1>5, <2>1, <2>6
  <2> QED BY <1>4, <1>8, <2>7, <2>8 DEF D
<1>9. CASE n < 0
  <2> DEFINE R == B \o << Minus >>
  <2>1. B \o sign = R
    BY <1>9
  <2>2. Len(R) = T + 1 /\ DOMAIN R = 1 .. T + 1 /\ R[T + 1] = Minus /\ \A k \in 1 .. T : R[k] = B[k]
    BY <1>6, <1>7 DEF T
  <2> HIDE DEF R
  <2>3. Reversed(R) = [i \in 1 .. T + 1 |-> R[T + 1 + 1 - i]]
    BY <2>2 DEF Reversed
  <2>4. \A i \in 2 .. T + 1 : T + 1 + 1 - i \in 1 .. T /\ T + 1 - (T + 1 + 1 - i) = i - 1
    <3>1. T \in Nat
      BY <1>7 DEF T
    <3> HIDE DEF v
    <3> QED BY <3>1
  <2>5. ASSUME NEW i \in 2 .. T + 1 PROVE R[T + 1 + 1 - i] = D[i - 1]
    <3> DEFINE k == T + 1 + 1 - i
    <3>1. k \in 1 .. T /\ T + 1 - k = i - 1
      BY <2>4
    <3> HIDE DEF k
    <3>2. B[k] = D[T + 1 - k]
      BY <1>6, <3>1 DEF T, D
    <3>3. R[k] = D[i - 1]
      BY <2>2, <3>1, <3>2
    <3> QED BY <3>3 DEF k
  <2> DEFINE W == << Minus >> \o D
  <2>6. Minus \in Int
    BY DEF Minus
  <2>7. Len(W) = T + 1 /\ W[1] = Minus /\ \A i \in 2 .. T + 1 : W[i] = D[i - 1]
    BY <1>7, <2>6 DEF D, T
  <2>8. W = [i \in 1 .. T + 1 |-> W[i]]
    BY <1>7, <2>6 DEF D, T
  <2> HIDE DEF W
  <2>9. \A i \in 1 .. T + 1 : W[i] = R[T + 1 + 1 - i]
    <3> TAKE i \in 1 .. T + 1
    <3>1. CASE i = 1
      <4>1. T + 1 + 1 - i = T + 1
        BY <1>7, <3>1 DEF T
      <4> QED BY <2>2, <2>7, <3>1, <4>1
    <3>2. CASE i # 1
      <4>1. i \in 2 .. T + 1
        BY <1>7, <3>2 DEF T
      <4> QED BY <2>5, <2>7, <4>1
    <3> QED BY <3>1, <3>2
  <2>10. Reversed(R) = W
    BY <2>3, <2>8, <2>9
  <2>11. v = -n
    BY <1>9
  <2>12. sdsll2str(n) = W
    <3> HIDE DEF sign
    <3> QED BY <1>5, <2>1, <2>10
  <2> QED BY <1>1, <1>4, <1>9, <2>11, <2>12 DEF D, W
<1> QED BY <1>1, <1>8, <1>9

(* What NumberReadsBack says of one number.                                  *)
LEMMA DigitsFacts ==
  ASSUME NEW v \in Nat
  PROVE  /\ DOMAIN Digits(v) = 1 .. Turns(v) /\ Turns(v) \in Nat \ {0}
         /\ \A i \in DOMAIN Digits(v) : isdigit(Digits(v)[i])
         /\ Digits(v)[1] # Minus
         /\ v # 0 => Digits(v)[1] # 48
<1>1. DOMAIN Digits(v) = 1 .. Turns(v) /\ Turns(v) \in Nat \ {0}
  BY DivisionsEnd DEF Digits
<1>2. \A i \in 1 .. Turns(v) : Digits(v)[i] \in 48 .. 57
  BY DigitsMean
<1>3. \A i \in DOMAIN Digits(v) : isdigit(Digits(v)[i])
  BY <1>1, <1>2 DEF isdigit
<1>4. 1 \in 1 .. Turns(v)
  BY <1>1
<1>5. Digits(v)[1] # Minus
  BY <1>2, <1>4 DEF Minus
<1>6. ASSUME v # 0, Digits(v)[1] = 48 PROVE FALSE
  <2>1. Digits(v) = << 48 >>
    BY <1>6, DigitsMean
  <2>2. Len(Digits(v)) = 1
    BY <2>1
  <2>3. Turns(v) = 1
    BY <2>2, DigitsMean
  <2>4. Divided(v)[0] = v
    BY DividedSteps
  <2>5. Divided(v)[1] = 0
    BY <2>3, DivisionsEnd
  <2>6. Divided(v)[1] = Divided(v)[0] \div 10
    <3>1. \A k \in Nat : Divided(v)[k + 1] = Divided(v)[k] \div 10
      BY DividedSteps
    <3>2. 0 \in Nat /\ 0 + 1 = 1
      OBVIOUS
    <3> QED BY <3>1, <3>2
  <2>7. Digits(v)[1] = 48 + (Divided(v)[0] % 10)
    BY <2>3 DEF Digits
  <2>8. v \div 10 = 0 /\ v % 10 = 0
    <3>1. v % 10 \in Int
      OBVIOUS
    <3> QED BY <1>6, <2>4, <2>5, <2>6, <2>7, <3>1
  <2> QED BY <1>6, <2>8
<1> QED BY <1>1, <1>3, <1>5, <1>6

Digital(n, text, digits) ==
  /\ \A i \in DOMAIN digits : isdigit(digits[i])
  /\ ReadBack(digits) = IF text = digits THEN n ELSE -n
  /\ digits[1] # 48 \/ text = << 48 >>
  /\ Len(text) + 1 <= LLSTR_SIZE

(* What NumberReadsBack says of one number.                                  *)
LEMMA NumberIsReadBack ==
  ASSUME NEW n \in -(LLONG_MAX + 1) .. LLONG_MAX, NEW text, text = sdsll2str(n),
         NEW digits, digits = IF text[1] = Minus THEN Tail(text) ELSE text
  PROVE  Digital(n, text, digits)
<1> USE DEF Digital
<1>1. LLONG_MAX \in Nat /\ LLSTR_SIZE \in Nat /\ n \in Int
  BY SdsTextAssumption
<1>2. CASE n >= 0
  <2>1. n \in Nat
    BY <1>1, <1>2
  <2>2. text = Digits(n) /\ Turns(n) <= LLSTR_SIZE - 2
    BY <1>2, NumberWritten
  <2>3. Len(text) = Turns(n) /\ Turns(n) \in Nat
    BY <2>1, <2>2, DigitsMean, DigitsFacts
  <2>4. digits = Digits(n)
    BY <2>1, <2>2, DigitsFacts
  <2>5. ReadBack(digits) = n
    BY <2>1, <2>4, DigitsReadBack
  <2>6. digits[1] # 48 \/ text = << 48 >>
    BY <2>1, <2>2, <2>4, DigitsMean
  <2>7. Len(text) + 1 <= LLSTR_SIZE
    BY <1>1, <2>2, <2>3
  <2> QED BY <2>1, <2>2, <2>4, <2>5, <2>6, <2>7, DigitsFacts
<1>3. CASE n < 0
  <2> DEFINE v == -n
  <2>1. v \in Nat /\ v # 0
    BY <1>1, <1>3
  <2>2. text = << Minus >> \o Digits(v) /\ Turns(v) <= LLSTR_SIZE - 2
    BY <1>3, NumberWritten
  <2> HIDE DEF v
  <2>3. Digits(v) \in Seq(Int) /\ Len(Digits(v)) = Turns(v) /\ Turns(v) \in Nat
    BY <2>1, DigitsMean, DigitsFacts
  <2>4. text[1] = Minus /\ Tail(text) = Digits(v) /\ Len(text) = Turns(v) + 1
    BY <2>2, <2>3 DEF Minus
  <2>5. digits = Digits(v)
    BY <2>4
  <2>6. text # digits /\ digits[1] # 48 /\ \A i \in DOMAIN digits : isdigit(digits[i])
    BY <2>1, <2>4, <2>5, DigitsFacts
  <2>7. ReadBack(digits) = -n
    BY <2>1, <2>5, DigitsReadBack DEF v
  <2>8. Turns(v) \in Nat /\ Len(text) = Turns(v) + 1
    BY <2>3, <2>4
  <2>9. Len(text) + 1 <= LLSTR_SIZE
    BY <1>1, <2>2, <2>8
  <2>10. ReadBack(digits) = IF text = digits THEN n ELSE -n
    BY <2>6, <2>7
  <2> QED BY <2>6, <2>9, <2>10, Zenon
<1>4. n >= 0 \/ n < 0
  BY <1>1
<1> QED BY <1>2, <1>3, <1>4, Zenon

-----------------------------------------------------------------------------
(* Printing into buffers.                                                    *)
LEMMA DoubledSteps ==
  ASSUME NEW first \in Nat
  PROVE  /\ Doubled(first) \in [Nat -> Nat]
         /\ Doubled(first)[0] = first
         /\ \A k \in Nat : Doubled(first)[k + 1] = 2 * Doubled(first)[k]
<1> DEFINE Def(f, k) == IF k = 0 THEN first ELSE 2 * f[k - 1]
           buflen == CHOOSE f : f = [k \in Nat |-> Def(f, k)]
           d == [x \in Nat |-> 2 * x]
<1>1. Doubled(first) = buflen
  BY DEF Doubled
<1>2. d \in Maps(Nat) /\ \A x \in Nat : d[x] = 2 * x
  BY DEF Maps
<1> HIDE DEF d
<1>3. PICK g : Repeats(g, Nat, first, d)
  BY <1>2, NatRecursion
<1>4. g \in [Nat -> Nat] /\ g[0] = first /\ \A k \in Nat : g[k + 1] = d[g[k]]
  BY <1>3 DEF Repeats
<1>5. \A k \in Nat : g[k] = Def(g, k)
  <2> TAKE k \in Nat
  <2>1. CASE k = 0
    BY <1>4, <2>1
  <2>2. CASE k # 0
    <3>1. k - 1 \in Nat /\ (k - 1) + 1 = k
      BY <2>2
    <3> QED BY <1>2, <1>4, <2>2, <3>1
  <2> QED BY <2>1, <2>2
<1>6. g = [k \in Nat |-> Def(g, k)]
  BY <1>4, <1>5
<1> HIDE DEF Def
<1>7. buflen = [k \in Nat |-> Def(buflen, k)]
  BY <1>6
<1> HIDE DEF buflen
<1>8. \A k \in Nat : buflen[k] = Def(buflen, k)
  BY <1>7
<1> USE DEF Def
<1>9. buflen[0] = first
  BY <1>8
<1>10. \A k \in Nat : buflen[k + 1] = 2 * buflen[k]
  <2> TAKE k \in Nat
  <2>1. k + 1 \in Nat /\ k + 1 # 0 /\ (k + 1) - 1 = k
    OBVIOUS
  <2> QED BY <1>8, <2>1
<1> DEFINE T == {k \in Nat : buflen[k] \in Nat}
<1>11. 0 \in T
  BY <1>9
<1>12. \A k \in Nat : k \in T => k + 1 \in T
  BY <1>10
<1>13. Nat \subseteq T
  <2> HIDE DEF T
  <2> QED BY <1>11, <1>12, SetInduction
<1>14. buflen \in [Nat -> Nat]
  <2>1. \A k \in Nat : buflen[k] \in Nat
    BY <1>13
  <2> HIDE DEF Def
  <2> QED BY <1>7, <2>1
<1> QED BY <1>1, <1>9, <1>10, <1>14

(* Strings as a set of its own: a fact about numbers is then found without   *)
(* those about sequences.                                                    *)
ByteStrings == Seq(Bytes)

(* The buffers grow until the text fits, and then all of it is printed.      *)
LEMMA PrintedIsText ==
  ASSUME NEW text \in ByteStrings, NEW first \in Nat, first >= 2
  PROVE  Printed(text, first) = text
<1> DEFINE buflen == Doubled(first)
           Fits(k) == Len(vsnprintf(text, buflen[k])) < buflen[k] - 1
           turn == CHOOSE k \in 0 .. Len(text) : Fits(k) /\ \A j \in 0 .. k - 1 : ~Fits(j)
           F == {k \in 0 .. Len(text) : Fits(k)}
           G == {k \in Nat : buflen[k] >= k + 2}
<1>1. buflen \in [Nat -> Nat] /\ buflen[0] = first /\ \A k \in Nat : buflen[k + 1] = 2 * buflen[k]
  BY DoubledSteps
<1>2. Printed(text, first) = vsnprintf(text, buflen[turn])
  BY DEF Printed
<1> HIDE DEF buflen
<1>3. Nat \subseteq G
  <2>1. 0 \in G
    BY <1>1
  <2>2. \A k \in Nat : k \in G => k + 1 \in G
    <3> SUFFICES ASSUME NEW k \in Nat, buflen[k] >= k + 2 PROVE buflen[k + 1] >= (k + 1) + 2
      OBVIOUS
    <3> QED BY <1>1
  <2> HIDE DEF G
  <2> QED BY <2>1, <2>2, SetInduction
<1>4. \A k \in Nat : buflen[k] \in Nat /\ buflen[k] >= k + 2
  BY <1>1, <1>3
<1>5. Len(text) \in Nat
  BY DEF ByteStrings
<1>6. ASSUME NEW k \in Nat
      PROVE  /\ Fits(k) => vsnprintf(text, buflen[k]) = text
             /\ Len(text) < buflen[k] - 1 => Fits(k)
  <2> DEFINE b == buflen[k]
             n == IF Len(text) < b THEN Len(text) ELSE b - 1
  <2>1. b \in Nat /\ b >= 2
    BY <1>4
  <2>2. vsnprintf(text, b) = SubSeq(text, 1, n)
    BY DEF vsnprintf
  <2> HIDE DEF b
  <2>3. n \in 0 .. Len(text) /\ Len(SubSeq(text, 1, n)) = n
    <3>1. n \in 0 .. Len(text)
      BY <1>5, <2>1
    <3> HIDE DEF n
    <3> QED BY <3>1 DEF ByteStrings
  <2>4. CASE Len(text) < b
    <3>1. SubSeq(text, 1, n) = text
      <4>1. n = Len(text)
        BY <2>4
      <4>2. SubSeq(text, 1, Len(text)) = text
        BY DEF ByteStrings
      <4> QED BY <4>1, <4>2
    <3>2. vsnprintf(text, b) = text
      <4> HIDE DEF n
      <4> QED BY <2>2, <3>1
    <3> DEFINE l == Len(text)
    <3>3. l < b - 1 => Fits(k)
      BY <3>2 DEF b
    <3> QED BY <3>2, <3>3 DEF b
  <2>5. CASE ~(Len(text) < b)
    <3>1. n = b - 1
      BY <2>5
    <3>2. Len(vsnprintf(text, b)) = b - 1
      BY <2>2, <2>3, <3>1
    <3>3. ~Fits(k)
      BY <2>1, <3>2 DEF b
    <3>4. ~(Len(text) < b - 1)
      BY <1>5, <2>1, <2>5
    <3> HIDE DEF Fits
    <3> QED BY <3>3, <3>4 DEF b
  <2> QED BY <2>4, <2>5
<1>7. Len(text) \in F
  <2> DEFINE l == Len(text)
  <2>1. l < buflen[l] - 1
    <3> HIDE DEF l
    <3>1. l \in Nat
      BY <1>5 DEF l
    <3> QED BY <1>4, <3>1
  <2> HIDE DEF Fits
  <2> QED BY <1>5, <1>6, <2>1
<1> HIDE DEF Fits
<1>8. PICK m \in F : \A k \in F : m <= k
  <2>1. F \subseteq Nat /\ F # {}
    BY <1>5, <1>7
  <2> HIDE DEF F
  <2> QED BY <2>1, LeastNumber
<1>9. m \in 0 .. Len(text) /\ Fits(m) /\ \A j \in 0 .. m - 1 : ~Fits(j)
  BY <1>5, <1>8
<1>10. turn \in 0 .. Len(text) /\ Fits(turn)
  BY <1>9
<1> HIDE DEF turn
<1>11. turn \in Nat
  BY <1>5, <1>10
<1> QED BY <1>2, <1>6, <1>10, <1>11

(* What PrintedWhole says of one text.                                       *)
LEMMA sdscatvprintfWhole ==
  ASSUME NEW s \in Seq(Bytes), NEW text \in Seq(Bytes), NEW fmtlen \in Nat
  PROVE  sdscatvprintf(s, fmtlen, text) = s \o text
<1> DEFINE first == IF 2 * fmtlen > StaticBuf THEN 2 * fmtlen ELSE StaticBuf
<1>1. first \in Nat /\ first >= 2
  BY SdsTextAssumption
<1>2. Printed(text, first) = text
  <2> HIDE DEF first
  <2> QED BY <1>1, PrintedIsText DEF ByteStrings
<1> QED BY <1>2 DEF sdscatvprintf

-----------------------------------------------------------------------------
(* Strings.                                                                  *)
LEMMA EmptyString == << >> \in ByteStrings /\ Len(<< >>) = 0
  BY EmptySeq DEF ByteStrings

(* A string has a length.                                                    *)
LEMMA StringLength ==
  ASSUME NEW s \in ByteStrings
  PROVE  Len(s) \in Nat /\ (Len(s) = 0 <=> s = << >>)
<1>1. Len(s) \in Nat
  BY LenProperties DEF ByteStrings
<1>2. s # << >> => Len(s) # 0
  BY EmptySeq DEF ByteStrings
<1> QED BY <1>1, <1>2, EmptySeq

(* A piece of a string, and two pieces that follow one another.              *)
LEMMA PieceOf ==
  ASSUME NEW s \in ByteStrings, NEW i \in Nat \ {0}, NEW j \in Nat, i <= j + 1, j <= Len(s)
  PROVE  /\ SubSeq(s, i, j) \in ByteStrings
         /\ Len(SubSeq(s, i, j)) = j + 1 - i
         /\ \A p \in 1 .. j + 1 - i : SubSeq(s, i, j)[p] = s[i + p - 1]
<1>1. Len(s) \in Nat
  BY StringLength
<1>2. \A p \in i .. j : p \in 1 .. Len(s)
  BY <1>1
<1>3. \A p \in i .. j : s[p] \in Bytes
  BY <1>2, ElementOfSeq DEF ByteStrings
<1>4. i \in Int /\ j \in Int
  OBVIOUS
<1>5. /\ SubSeq(s, i, j) \in Seq(Bytes)
      /\ Len(SubSeq(s, i, j)) = IF i <= j THEN j - i + 1 ELSE 0
      /\ \A p \in 1 .. j - i + 1 : SubSeq(s, i, j)[p] = s[i + p - 1]
  BY <1>3, <1>4, SubSeqProperties
<1>6. (IF i <= j THEN j - i + 1 ELSE 0) = j + 1 - i /\ j - i + 1 = j + 1 - i
  OBVIOUS
<1> QED BY <1>5, <1>6 DEF ByteStrings

(* Two pieces that meet are one piece.                                       *)
LEMMA PiecesJoined ==
  ASSUME NEW s \in ByteStrings, NEW i \in Nat \ {0}, NEW j \in Nat, NEW k \in Nat,
         i <= j + 1, j <= k, k <= Len(s)
  PROVE  SubSeq(s, i, j) \o SubSeq(s, j + 1, k) = SubSeq(s, i, k)
<1>1. Len(s) \in Nat
  BY StringLength
<1>2. i \in 1 .. Len(s) + 1 /\ j \in i - 1 .. Len(s) /\ k \in j .. Len(s)
  BY <1>1
<1> QED BY <1>2, ConcatAdjacentSubSeq DEF ByteStrings

(* The piece from end to end is the string.                                  *)
LEMMA WholePiece ==
  ASSUME NEW s \in ByteStrings
  PROVE  SubSeq(s, 1, Len(s)) = s
BY SubSeqFull DEF ByteStrings

(* What is known of two strings that are joined.                             *)
LEMMA StringsJoined ==
  ASSUME NEW s \in ByteStrings, NEW t \in ByteStrings
  PROVE  /\ s \o t \in ByteStrings /\ Len(s \o t) = Len(s) + Len(t)
         /\ s \o << >> = s
         /\ \A i \in 1 .. Len(s) : (s \o t)[i] = s[i]
         /\ \A i \in 1 .. Len(t) : (s \o t)[Len(s) + i] = t[i]
<1>1. Len(s) \in Nat /\ Len(t) \in Nat
  BY StringLength
<1>2. /\ s \o t \in Seq(Bytes) /\ Len(s \o t) = Len(s) + Len(t)
      /\ \A i \in 1 .. Len(s) + Len(t) : (s \o t)[i] = IF i <= Len(s) THEN s[i] ELSE t[i - Len(s)]
  BY ConcatProperties DEF ByteStrings
<1>3. s \o << >> = s
  BY ConcatEmptySeq DEF ByteStrings
<1> DEFINE m == Len(s)
           n == Len(t)
           u == s \o t
<1>4. m \in Nat /\ n \in Nat /\ \A i \in 1 .. m + n : u[i] = IF i <= m THEN s[i] ELSE t[i - m]
  BY <1>1, <1>2
<1> HIDE DEF m, n, u
<1>5. \A i \in 1 .. m : u[i] = s[i]
  <2> TAKE i \in 1 .. m
  <2>1. i \in 1 .. m + n /\ i <= m
    BY <1>4
  <2> QED BY <1>4, <2>1
<1>6. \A i \in 1 .. n : u[m + i] = t[i]
  <2> TAKE i \in 1 .. n
  <2>1. m + i \in 1 .. m + n /\ ~(m + i <= m) /\ m + i - m = i
    BY <1>4
  <2> QED BY <1>4, <2>1
<1> QED BY <1>2, <1>3, <1>5, <1>6 DEF m, n, u, ByteStrings

(* Appending to a list.                                                      *)
LEMMA Appended ==
  ASSUME NEW S, NEW q \in Seq(S), NEW x \in S
  PROVE  /\ Append(q, x) \in Seq(S) /\ Len(q) \in Nat /\ Len(Append(q, x)) = Len(q) + 1
         /\ \A i \in 1 .. Len(q) : Append(q, x)[i] = q[i]
         /\ Append(q, x)[Len(q) + 1] = x
BY AppendProperties, LenProperties

-----------------------------------------------------------------------------
(* Splitting.  The tokens so far are what lies between cuts of the string:   *)
(* token k ends where a separator that ends at cut[k] begins, and no         *)
(* separator begins within it.                                               *)
Occurs(s, sep, p) == SubSeq(s, p, p + Len(sep) - 1) = sep

TokenCut(s, sep, tokens, cut, k) ==
  /\ cut[k - 1] + Len(sep) <= cut[k] /\ cut[k] <= Len(s)
  /\ tokens[k] = SubSeq(s, cut[k - 1] + 1, cut[k] - Len(sep))
  /\ SubSeq(s, cut[k] - Len(sep) + 1, cut[k]) = sep
  /\ \A p \in cut[k - 1] + 1 .. cut[k] - Len(sep) : ~Occurs(s, sep, p)

CutAt(s, sep, a, cut) ==
  /\ cut \in [0 .. Len(a.tokens) -> Nat]
  /\ cut[0] = 0 /\ cut[Len(a.tokens)] = a.start - 1
  /\ \A k \in 1 .. Len(a.tokens) : TokenCut(s, sep, a.tokens, cut, k)

SplitInv(s, sep, a) ==
  /\ 1 <= a.start /\ a.start <= a.j /\ a.j <= Len(s) + 1
  /\ Len(a.tokens) + 1 <= a.slots
  /\ \A p \in a.start .. a.j - 1 : ~Occurs(s, sep, p)
  /\ \E cut : CutAt(s, sep, a, cut)

SplitState == [start : Nat, j : Nat, tokens : Seq(ByteStrings), slots : Nat]
SplitStates(s, sep) == {a \in SplitState : SplitInv(s, sep, a)}

Found(s, sep, a) ==
  [start |-> a.j + Len(sep), j |-> a.j + Len(sep),
   tokens |-> Append(a.tokens, SubSeq(s, a.start, a.j - 1)),
   slots |-> Room(a.slots, Len(a.tokens))]

(* A separator that is found makes one more cut.                             *)
LEMMA FoundKeeps ==
  ASSUME NEW s \in ByteStrings, NEW sep \in ByteStrings, Len(sep) # 0,
         NEW a \in SplitStates(s, sep), a.j + Len(sep) - 1 <= Len(s), Occurs(s, sep, a.j)
  PROVE  Found(s, sep, a) \in SplitStates(s, sep)
<1> DEFINE l == Len(sep)
           n == Len(a.tokens)
           j == a.j
           start == a.start
           piece == SubSeq(s, start, j - 1)
           tokens == Append(a.tokens, piece)
           b == Found(s, sep, a)
<1>1. l \in Nat \ {0} /\ Len(s) \in Nat
  BY StringLength
<1>2. a \in SplitState /\ SplitInv(s, sep, a)
  BY DEF SplitStates
<1>3. start \in Nat /\ j \in Nat /\ a.slots \in Nat /\ a.tokens \in Seq(ByteStrings)
  BY <1>2 DEF SplitState
<1>4. 1 <= start /\ start <= j /\ j <= Len(s) + 1 /\ n + 1 <= a.slots
  BY <1>2 DEF SplitInv
<1>5. \A p \in start .. j - 1 : ~Occurs(s, sep, p)
  BY <1>2 DEF SplitInv
<1>6. PICK cut : CutAt(s, sep, a, cut)
  BY <1>2 DEF SplitInv
<1>7. /\ b.start = j + l /\ b.j = j + l /\ b.tokens = tokens /\ b.slots = Room(a.slots, n)
  BY DEF Found
<1>8. piece \in ByteStrings
  <2> DEFINE m == j - 1
  <2>1. start \in Nat \ {0} /\ m \in Nat /\ start <= m + 1 /\ m <= Len(s)
    <3> HIDE DEF j, start
    <3> QED BY <1>1, <1>3, <1>4
  <2> HIDE DEF m, start
  <2>2. SubSeq(s, start, m) \in ByteStrings
    BY <2>1, PieceOf
  <2> QED BY <2>2 DEF m, start
<1>9. /\ tokens \in Seq(ByteStrings) /\ n \in Nat /\ Len(tokens) = n + 1
      /\ \A k \in 1 .. n : tokens[k] = a.tokens[k]
      /\ tokens[n + 1] = piece
  <2> DEFINE q == a.tokens
  <2>1. q \in Seq(ByteStrings) /\ piece \in ByteStrings
    BY <1>3, <1>8
  <2> HIDE DEF q, piece, l, j, start, b
  <2>2. /\ Append(q, piece) \in Seq(ByteStrings) /\ Len(q) \in Nat
        /\ Len(Append(q, piece)) = Len(q) + 1
        /\ \A k \in 1 .. Len(q) : Append(q, piece)[k] = q[k]
        /\ Append(q, piece)[Len(q) + 1] = piece
    BY <2>1, Appended
  <2> QED BY <2>2, Zenon DEF q
<1>10. Room(a.slots, n) \in Nat /\ n + 2 <= Room(a.slots, n)
  <2>1. n \in Nat /\ n + 1 <= a.slots /\ a.slots \in Nat
    BY <1>3, <1>4, <1>9
  <2> HIDE DEF n
  <2> QED BY <2>1 DEF Room
<1>11. j + l - 1 <= Len(s)
  OBVIOUS
<1>12. Occurs(s, sep, j)
  OBVIOUS
<1>13. /\ cut \in [0 .. n -> Nat] /\ cut[0] = 0 /\ cut[n] = start - 1
       /\ \A k \in 1 .. n : TokenCut(s, sep, a.tokens, cut, k)
  BY <1>6 DEF CutAt
<1>14. b \in SplitState
  <2>1. j + l \in Nat
    BY <1>1, <1>3
  <2> HIDE DEF tokens, n, l, j
  <2>2. [start |-> j + l, j |-> j + l, tokens |-> tokens, slots |-> Room(a.slots, n)] \in SplitState
    BY <1>9, <1>10, <2>1 DEF SplitState
  <2> QED BY <2>2 DEF Found, tokens, piece, n, l, j, start
<1> HIDE DEF l, n, j, start, piece, tokens, b
<1> DEFINE cut1 == [k \in 0 .. n + 1 |-> IF k <= n THEN cut[k] ELSE j + l - 1]
<1>15. \A k \in 0 .. n : cut1[k] = cut[k]
  BY <1>9
<1>16. cut1[n + 1] = j + l - 1
  BY <1>9
<1>17. cut1 \in [0 .. n + 1 -> Nat]
  BY <1>1, <1>3, <1>9, <1>13
<1> HIDE DEF cut1
<1>18. ASSUME NEW k \in 1 .. n PROVE TokenCut(s, sep, tokens, cut1, k)
  <2>1. k \in 0 .. n /\ k - 1 \in 0 .. n
    BY <1>9
  <2>2. cut1[k] = cut[k] /\ cut1[k - 1] = cut[k - 1] /\ tokens[k] = a.tokens[k]
    BY <1>9, <1>15, <2>1
  <2>3. TokenCut(s, sep, a.tokens, cut, k)
    BY <1>13
  <2> QED BY <2>2, <2>3 DEF TokenCut
<1>19. TokenCut(s, sep, tokens, cut1, n + 1)
  <2>1. (n + 1) - 1 = n /\ n \in 0 .. n
    BY <1>9
  <2>2. cut1[(n + 1) - 1] = start - 1
    BY <1>13, <1>15, <2>1
  <2>3. /\ start - 1 + 1 = start /\ j + l - 1 - l = j - 1 /\ j + l - 1 - l + 1 = j
        /\ start - 1 + l <= j + l - 1
    BY <1>1, <1>3, <1>4
  <2>4. SubSeq(s, j, j + l - 1) = sep
    BY <1>12 DEF Occurs, l
  <2>5. tokens[n + 1] = SubSeq(s, start, j - 1)
    BY <1>9 DEF piece
  <2>6. /\ cut1[(n + 1) - 1] + l <= cut1[n + 1] /\ cut1[n + 1] <= Len(s)
    BY <1>11, <1>16, <2>2, <2>3 DEF l, j
  <2>7. cut1[(n + 1) - 1] + 1 = start /\ cut1[n + 1] - l = j - 1 /\ cut1[n + 1] - l + 1 = j
    BY <1>1, <1>3, <1>16, <2>2, <2>3
  <2>8. SubSeq(s, cut1[n + 1] - l + 1, cut1[n + 1]) = sep
    BY <1>16, <2>4, <2>7
  <2> QED BY <1>5, <2>5, <2>6, <2>7, <2>8 DEF TokenCut, l
<1>20. CutAt(s, sep, b, cut1)
  <2>1. cut1[0] = 0
    BY <1>9, <1>13, <1>15
  <2>2. cut1[n + 1] = b.start - 1
    BY <1>1, <1>3, <1>7, <1>16
  <2>3. \A k \in 1 .. n + 1 : TokenCut(s, sep, tokens, cut1, k)
    <3> TAKE k \in 1 .. n + 1
    <3>1. k \in 1 .. n \/ k = n + 1
      BY <1>9
    <3> QED BY <1>18, <1>19, <3>1
  <2> QED BY <1>7, <1>9, <1>17, <2>1, <2>2, <2>3 DEF CutAt
<1>21. SplitInv(s, sep, b)
  <2>1. 1 <= j + l /\ j + l <= j + l /\ j + l <= Len(s) + 1
    BY <1>1, <1>3, <1>11
  <2>3. Len(b.tokens) + 1 <= b.slots
    <3>1. Len(b.tokens) = n + 1
      BY <1>7, <1>9
    <3> QED BY <1>7, <1>9, <1>10, <3>1
  <2>4. 1 <= b.start /\ b.start <= b.j /\ b.j <= Len(s) + 1
    BY <1>7, <2>1
  <2>5. b.start \in Nat /\ b.j = b.start
    BY <1>1, <1>3, <1>7
  <2>6. \A p \in b.start .. b.j - 1 : ~Occurs(s, sep, p)
    BY <2>5
  <2> QED BY <1>20, <2>3, <2>4, <2>6 DEF SplitInv
<1> QED BY <1>14, <1>21 DEF SplitStates, b

(* A place that holds none is passed.                                        *)
Passed(a) == [a EXCEPT !.j = @ + 1, !.slots = Room(a.slots, Len(a.tokens))]

(* A place where no separator begins is passed.                              *)
LEMMA PassedKeeps ==
  ASSUME NEW s \in ByteStrings, NEW sep \in ByteStrings, Len(sep) # 0,
         NEW a \in SplitStates(s, sep), a.j + Len(sep) - 1 <= Len(s), ~Occurs(s, sep, a.j)
  PROVE  Passed(a) \in SplitStates(s, sep)
<1> DEFINE l == Len(sep)
           n == Len(a.tokens)
           j == a.j
           start == a.start
           slots == Room(a.slots, n)
           b == Passed(a)
<1>1. l \in Nat \ {0} /\ Len(s) \in Nat
  BY StringLength
<1>2. a \in SplitState /\ SplitInv(s, sep, a)
  BY DEF SplitStates
<1>3. start \in Nat /\ j \in Nat /\ a.slots \in Nat /\ a.tokens \in Seq(ByteStrings)
  BY <1>2 DEF SplitState
<1>4. 1 <= start /\ start <= j /\ j <= Len(s) + 1 /\ n + 1 <= a.slots
  BY <1>2 DEF SplitInv
<1>5. \A p \in start .. j - 1 : ~Occurs(s, sep, p)
  BY <1>2 DEF SplitInv
<1>6. PICK cut : CutAt(s, sep, a, cut)
  BY <1>2 DEF SplitInv
<1>7. n \in Nat
  BY <1>3, LenProperties
<1>8. slots \in Nat /\ n + 2 <= slots
  <2>1. n \in Nat /\ n + 1 <= a.slots /\ a.slots \in Nat
    BY <1>3, <1>4, <1>7
  <2> HIDE DEF n
  <2> QED BY <2>1 DEF Room
<1>9. ~Occurs(s, sep, j)
  OBVIOUS
<1>10. j + l - 1 <= Len(s)
  OBVIOUS
<1> DEFINE tokens == a.tokens
<1>11. j + 1 \in Nat
  BY <1>3
<1> HIDE DEF l, slots
<1>12. b = [start |-> start, j |-> j + 1, tokens |-> tokens, slots |-> slots]
  <2> DEFINE a1 == [a EXCEPT !.j = @ + 1]
  <2>1. a1 = [start |-> start, j |-> j + 1, tokens |-> tokens, slots |-> a.slots]
    BY <1>2 DEF SplitState
  <2>2. b = [a1 EXCEPT !.slots = slots]
    BY Zenon DEF Passed, slots
  <2> HIDE DEF a1
  <2> QED BY <2>1, <2>2
<1>13. tokens \in Seq(ByteStrings)
  BY <1>3
<1> HIDE DEF n, j, start, tokens, b
<1>14. b \in SplitState
  BY <1>3, <1>8, <1>11, <1>12, <1>13 DEF SplitState
<1>15. b.start = start /\ b.j = j + 1 /\ b.tokens = tokens /\ b.slots = slots
  BY <1>12
<1>16. CutAt(s, sep, b, cut)
  BY <1>6, <1>15 DEF CutAt, tokens, start
<1>17. SplitInv(s, sep, b)
  <2>1. 1 <= start /\ start <= j + 1 /\ j + 1 <= Len(s) + 1
    BY <1>1, <1>3, <1>4, <1>10
  <2>2. 1 <= b.start /\ b.start <= b.j /\ b.j <= Len(s) + 1
    BY <1>15, <2>1
  <2>3. \A p \in start .. (j + 1) - 1 : ~Occurs(s, sep, p)
    <3> TAKE p \in start .. (j + 1) - 1
    <3>1. p \in start .. j - 1 \/ p = j
      BY <1>3
    <3> QED BY <1>5, <1>9, <3>1
  <2>4. \A p \in b.start .. b.j - 1 : ~Occurs(s, sep, p)
    BY <1>15, <2>3
  <2>5. Len(b.tokens) + 1 <= b.slots
    <3>1. n + 1 <= slots
      BY <1>7, <1>8
    <3> QED BY <1>15, <3>1 DEF tokens, n
  <2> QED BY <1>16, <2>2, <2>4, <2>5 DEF SplitInv
<1> QED BY <1>14, <1>17 DEF SplitStates, b

(* A turn of the loop keeps what is known, and moves unless it is the last.  *)
LEMMA SplitTurnKeeps ==
  ASSUME NEW s \in ByteStrings, NEW sep \in ByteStrings, Len(sep) # 0,
         NEW a \in SplitStates(s, sep)
  PROVE  /\ SplitTurn(s, sep, a) \in SplitStates(s, sep)
         /\ a.j + Len(sep) - 1 > Len(s) => SplitTurn(s, sep, a) = a
         /\ a.j + Len(sep) - 1 <= Len(s) => SplitTurn(s, sep, a).j >= a.j + 1
<1>1. a \in SplitState
  BY DEF SplitStates
<1>2. Len(sep) \in Nat \ {0} /\ Len(s) \in Nat /\ a.j \in Nat
  BY <1>1, StringLength DEF SplitState
<1>6. SplitTurn(s, sep, a) = IF a.j + Len(sep) - 1 > Len(s) THEN a
                             ELSE IF Occurs(s, sep, a.j) THEN Found(s, sep, a) ELSE Passed(a)
  <2>1. CASE a.j + Len(sep) - 1 > Len(s)
    BY <1>2, <2>1 DEF SplitTurn
  <2>2. CASE ~(a.j + Len(sep) - 1 > Len(s)) /\ Occurs(s, sep, a.j)
    BY <1>2, <2>2 DEF SplitTurn, Found, Occurs
  <2>3. CASE ~(a.j + Len(sep) - 1 > Len(s)) /\ ~Occurs(s, sep, a.j)
    BY <1>2, <2>3 DEF SplitTurn, Passed, Occurs
  <2> QED BY <2>1, <2>2, <2>3
<1>3. CASE a.j + Len(sep) - 1 > Len(s)
  BY <1>2, <1>3, <1>6
<1>4. CASE a.j + Len(sep) - 1 <= Len(s) /\ Occurs(s, sep, a.j)
  <2>1. SplitTurn(s, sep, a) = Found(s, sep, a)
    <3>1. ~(a.j + Len(sep) - 1 > Len(s))
      BY <1>2, <1>4
    <3> QED BY <1>4, <1>6, <3>1, Zenon
  <2>2. Found(s, sep, a).j >= a.j + 1
    BY <1>2 DEF Found
  <2> QED BY <1>2, <1>4, <2>1, <2>2, FoundKeeps
<1>5. CASE a.j + Len(sep) - 1 <= Len(s) /\ ~Occurs(s, sep, a.j)
  <2>1. SplitTurn(s, sep, a) = Passed(a)
    <3>1. ~(a.j + Len(sep) - 1 > Len(s))
      BY <1>2, <1>5
    <3> QED BY <1>5, <1>6, <3>1, Zenon
  <2>2. Passed(a).j >= a.j + 1
    BY <1>1, <1>2 DEF Passed, SplitState
  <2> QED BY <1>2, <1>5, <2>1, <2>2, PassedKeeps
<1> QED BY <1>2, <1>3, <1>4, <1>5

(* The loop starts where nothing is cut yet.                                 *)
SplitStart == [start |-> 1, j |-> 1, tokens |-> << >>, slots |-> FirstSlots]

(* What is known holds before the first turn.                                *)
LEMMA SplitStarts ==
  ASSUME NEW s \in ByteStrings, NEW sep \in ByteStrings
  PROVE  SplitStart \in SplitStates(s, sep)
<1> DEFINE a == SplitStart
           none == << >>
           cut == [k \in 0 .. 0 |-> 0]
<1>1. a.start = 1 /\ a.j = 1 /\ a.tokens = none /\ a.slots = FirstSlots
  BY DEF SplitStart
<1>2. none \in Seq(ByteStrings) /\ Len(none) = 0
  BY EmptySeq
<1>3. FirstSlots \in Nat /\ FirstSlots >= 1
  BY SdsTextAssumption
<1> HIDE DEF none
<1>4. SplitStart \in SplitState
  BY <1>2, <1>3 DEF SplitStart, SplitState, none
<1>5. Len(s) \in Nat
  BY StringLength
<1> HIDE DEF a
<1>6. cut \in [0 .. 0 -> Nat] /\ cut[0] = 0
  OBVIOUS
<1> HIDE DEF cut
<1>7. CutAt(s, sep, a, cut)
  <2>1. cut \in [0 .. Len(a.tokens) -> Nat] /\ cut[0] = 0 /\ cut[Len(a.tokens)] = a.start - 1
    BY <1>1, <1>2, <1>6
  <2>2. 1 .. Len(a.tokens) = {}
    BY <1>1, <1>2
  <2> QED BY <2>1, <2>2 DEF CutAt
<1>8. SplitInv(s, sep, a)
  <2>1. 1 <= a.start /\ a.start <= a.j /\ a.j <= Len(s) + 1
    BY <1>1, <1>5
  <2>2. Len(a.tokens) + 1 <= a.slots
    BY <1>1, <1>2, <1>3
  <2>3. \A p \in a.start .. a.j - 1 : ~Occurs(s, sep, p)
    BY <1>1
  <2> QED BY <1>7, <2>1, <2>2, <2>3 DEF SplitInv
<1> QED BY <1>4, <1>8 DEF SplitStates, a

(* So it holds after any number of turns.                                    *)
LEMMA SplitSteps ==
  ASSUME NEW s \in ByteStrings, NEW sep \in ByteStrings, Len(sep) # 0
  PROVE  /\ Split(s, sep)[0] = SplitStart
         /\ \A k \in Nat : /\ Split(s, sep)[k] \in SplitStates(s, sep)
                           /\ Split(s, sep)[k + 1] = SplitTurn(s, sep, Split(s, sep)[k])
<1> DEFINE Def(f, k) == IF k = 0 THEN SplitStart ELSE SplitTurn(s, sep, f[k - 1])
           after == CHOOSE f : f = [k \in Nat |-> Def(f, k)]
           S == SplitStates(s, sep)
           d == [a \in S |-> SplitTurn(s, sep, a)]
<1>1. Split(s, sep) = after
  BY DEF Split, SplitStart
<1>2. \A a \in S : SplitTurn(s, sep, a) \in S
  BY SplitTurnKeeps
<1>3. SplitStart \in S
  BY SplitStarts
<1> HIDE DEF S
<1>4. d \in Maps(S) /\ \A a \in S : d[a] = SplitTurn(s, sep, a)
  BY <1>2 DEF Maps
<1> HIDE DEF d
<1>5. PICK g : Repeats(g, S, SplitStart, d)
  BY <1>3, <1>4, NatRecursion
<1>6. g \in [Nat -> S] /\ g[0] = SplitStart /\ \A k \in Nat : g[k + 1] = d[g[k]]
  BY <1>5 DEF Repeats
<1>7. \A k \in Nat : g[k] = Def(g, k)
  <2> TAKE k \in Nat
  <2>1. CASE k = 0
    BY <1>6, <2>1
  <2>2. CASE k # 0
    <3>1. k - 1 \in Nat /\ (k - 1) + 1 = k
      BY <2>2
    <3> QED BY <1>4, <1>6, <2>2, <3>1
  <2> QED BY <2>1, <2>2
<1>8. g = [k \in Nat |-> Def(g, k)]
  BY <1>6, <1>7
<1> HIDE DEF Def
<1>9. after = [k \in Nat |-> Def(after, k)]
  BY <1>8
<1> HIDE DEF after
<1>10. \A k \in Nat : after[k] = Def(after, k)
  BY <1>9
<1> USE DEF Def
<1>11. after[0] = SplitStart
  BY <1>10
<1>12. \A k \in Nat : after[k + 1] = SplitTurn(s, sep, after[k])
  <2> TAKE k \in Nat
  <2> DEFINE m == k + 1
  <2>1. m \in Nat /\ m # 0 /\ m - 1 = k
    OBVIOUS
  <2> HIDE DEF m
  <2>2. after[m] = SplitTurn(s, sep, after[k])
    BY <1>10, <2>1
  <2> QED BY <2>2 DEF m
<1> DEFINE T == {k \in Nat : after[k] \in S}
<1>13. 0 \in T
  BY <1>3, <1>11
<1>14. ASSUME NEW k \in Nat, k \in T PROVE k + 1 \in T
  <2>1. after[k] \in S /\ after[k + 1] = SplitTurn(s, sep, after[k])
    BY <1>12, <1>14
  <2>2. after[k + 1] \in S
    BY <1>2, <2>1, Zenon
  <2>3. k + 1 \in Nat
    OBVIOUS
  <2> HIDE DEF after, S
  <2> QED BY <2>2, <2>3
<1>15. Nat \subseteq T
  <2> HIDE DEF T
  <2> QED BY <1>13, <1>14, SetInduction
<1> QED BY <1>1, <1>11, <1>12, <1>15 DEF S

(* After as many turns as the string is long nothing is left to look at.     *)
LEMMA SplitEnds ==
  ASSUME NEW s \in ByteStrings, NEW sep \in ByteStrings, Len(sep) # 0
  PROVE  /\ Split(s, sep)[Len(s)] \in SplitStates(s, sep)
         /\ Split(s, sep)[Len(s)].j + Len(sep) - 1 > Len(s)
<1> DEFINE n == Len(s)
           l == Len(sep)
           a == Split(s, sep)
           S == SplitStates(s, sep)
           T == {k \in Nat : a[k].j + l - 1 > n \/ a[k].j >= k + 1}
<1>1. n \in Nat /\ l \in Nat \ {0}
  BY StringLength
<1>2. a[0].j = 1
  BY SplitSteps DEF SplitStart
<1>3. \A k \in Nat : a[k] \in S /\ a[k + 1] = SplitTurn(s, sep, a[k])
  BY SplitSteps
<1>4. \A x \in S : /\ x.j \in Nat
                   /\ x.j + l - 1 > n => SplitTurn(s, sep, x) = x
                   /\ x.j + l - 1 <= n => SplitTurn(s, sep, x).j >= x.j + 1
  BY SplitTurnKeeps DEF SplitStates, SplitState
<1> HIDE DEF a, n, l, S
<1>5. 0 \in T
  BY <1>2
<1>6. ASSUME NEW k \in Nat, k \in T PROVE k + 1 \in T
  <2> DEFINE x == a[k]
             y == a[k + 1]
  <2>1. x \in S /\ y = SplitTurn(s, sep, x) /\ y \in S
    BY <1>3
  <2> HIDE DEF x, y
  <2>2. x.j \in Nat /\ y.j \in Nat
    BY <1>4, <2>1
  <2>3. x.j + l - 1 > n \/ x.j >= k + 1
    BY <1>6 DEF x
  <2>4. CASE x.j + l - 1 > n
    <3>1. y = x
      BY <1>4, <2>1, <2>4
    <3> QED BY <2>4, <3>1 DEF y
  <2>5. CASE ~(x.j + l - 1 > n)
    <3>1. x.j + l - 1 <= n
      BY <1>1, <2>2, <2>5
    <3>2. y.j >= x.j + 1
      BY <1>4, <2>1, <3>1
    <3>3. y.j >= (k + 1) + 1
      BY <2>2, <2>3, <2>5, <3>2
    <3> QED BY <3>3 DEF y
  <2> QED BY <2>4, <2>5
<1>7. n \in T
  <2> HIDE DEF T
  <2> QED BY <1>1, <1>5, <1>6, SetInduction
<1>8. a[n] \in S /\ a[n].j \in Nat
  BY <1>1, <1>3, <1>4
<1>9. a[n].j + l - 1 > n
  BY <1>1, <1>7, <1>8
<1> QED BY <1>8, <1>9 DEF a, n, l, S

(* A piece of a piece is a piece.                                            *)
LEMMA PieceOfPiece ==
  ASSUME NEW s \in ByteStrings, NEW i \in Nat \ {0}, NEW j \in Nat, NEW p \in Nat \ {0},
         NEW q \in Nat, j <= Len(s), p <= q, q <= j + 1 - i
  PROVE  SubSeq(SubSeq(s, i, j), p, q) = SubSeq(s, i + p - 1, i + q - 1)
<1>1. Len(s) \in Nat
  BY StringLength
<1>2. i \in 1 .. Len(s) /\ j \in 1 .. Len(s) /\ p \in 1 .. j - i + 1 /\ q \in 1 .. j - i + 1
  BY <1>1
<1> QED BY <1>2, SubSeqOfSubSeq DEF ByteStrings

(* A piece in which no separator begins holds none.                          *)
Holds(t, sep) == \E i \in 1 .. Len(t) - Len(sep) + 1 : SubSeq(t, i, i + Len(sep) - 1) = sep

(* A piece holds a separator only where the string does.                     *)
LEMMA PieceHoldsNone ==
  ASSUME NEW s \in ByteStrings, NEW sep \in ByteStrings, Len(sep) # 0,
         NEW i \in Nat \ {0}, NEW j \in Nat, i <= j + 1, j <= Len(s),
         \A p \in i .. j - Len(sep) + 1 : ~Occurs(s, sep, p)
  PROVE  ~Holds(SubSeq(s, i, j), sep)
<1> DEFINE l == Len(sep)
           t == SubSeq(s, i, j)
<1>1. l \in Nat \ {0}
  BY StringLength
<1>2. Len(t) = j + 1 - i
  BY PieceOf
<1>3. \A p \in i .. j - l + 1 : SubSeq(s, p, p + l - 1) # sep
  BY DEF Occurs
<1>4. ASSUME NEW m \in 1 .. Len(t) - l + 1, SubSeq(t, m, m + l - 1) = sep PROVE FALSE
  <2> DEFINE q == m + l - 1
             p == i + m - 1
  <2>1. m \in Nat \ {0} /\ q \in Nat /\ m <= q /\ q <= j + 1 - i
    <3> HIDE DEF l, t
    <3> QED BY <1>1, <1>2, <1>4
  <2>2. p \in i .. j - l + 1 /\ i + q - 1 = p + l - 1
    <3> HIDE DEF l, t
    <3> QED BY <1>1, <1>2, <1>4
  <2>3. SubSeq(t, m, q) = SubSeq(s, i + m - 1, i + q - 1)
    <3> HIDE DEF q
    <3> QED BY <2>1, PieceOfPiece
  <2>4. SubSeq(s, p, p + l - 1) = sep
    <3>1. SubSeq(t, m, q) = SubSeq(s, p, i + q - 1)
      BY <2>3
    <3>2. SubSeq(t, m, q) = sep
      BY <1>4
    <3> HIDE DEF t, l, q, p
    <3> QED BY <2>2, <3>1, <3>2
  <2> HIDE DEF p, l, q, t
  <2> QED BY <1>3, <2>2, <2>4
<1> QED BY <1>4 DEF Holds

(* Joining, token by token.                                                  *)
AllStrings(argv, n) == Len(argv) = n /\ \A k \in 1 .. n : argv[k] \in ByteStrings

JoinsTurns(argv, sep, n, join) ==
  /\ join[0] = << >>
  /\ \A k \in 1 .. n : join[k] = join[k - 1] \o argv[k] \o (IF k # n THEN sep ELSE << >>)

(* Joined() appends each token and, but for the last, the separator.         *)
LEMMA JoinedTurns ==
  ASSUME NEW argv, NEW n \in Nat, AllStrings(argv, n), NEW sep \in ByteStrings
  PROVE  JoinsTurns(argv, sep, n, Joined(argv, sep))
<1> SUFFICES ASSUME Len(argv) = n, \A k \in 1 .. n : argv[k] \in ByteStrings
             PROVE  JoinsTurns(argv, sep, n, Joined(argv, sep))
  BY DEF AllStrings
<1> DEFINE none == << >>
           Gap(k) == IF k # Len(argv) THEN sep ELSE none
           Def(f, k) == IF k = 0 THEN none ELSE f[k - 1] \o argv[k] \o Gap(k)
           join == CHOOSE f : f = [k \in 0 .. Len(argv) |-> Def(f, k)]
           d == [k \in 1 .. n |-> [x \in ByteStrings |-> x \o argv[k] \o Gap(k)]]
<1>1. Joined(argv, sep) = join
  BY DEF Joined
<1>2. none \in ByteStrings
  BY EmptyString
<1>3. \A k \in 1 .. n : Gap(k) \in ByteStrings
  <2> HIDE DEF none
  <2> QED BY <1>2
<1> HIDE DEF none, Gap
<1>4. ASSUME NEW k \in 1 .. n, NEW x \in ByteStrings
      PROVE  x \o argv[k] \o Gap(k) \in ByteStrings
  <2>1. argv[k] \in ByteStrings
    OBVIOUS
  <2>2. x \o argv[k] \in ByteStrings
    BY <2>1, StringsJoined
  <2> QED BY <1>3, <2>2, StringsJoined
<1>5. /\ d \in StepsTo(ByteStrings, n)
      /\ \A k \in 1 .. n : \A x \in ByteStrings : d[k][x] = x \o argv[k] \o Gap(k)
  BY <1>4 DEF StepsTo
<1> HIDE DEF d
<1>6. PICK g : FollowsTo(g, ByteStrings, none, d, n)
  BY <1>2, <1>5, BoundedRecursion
<1>7. /\ g \in [0 .. n -> ByteStrings] /\ g[0] = none
      /\ \A k \in 1 .. n : g[k] = d[k][g[k - 1]]
  BY <1>6 DEF FollowsTo
<1>8. \A k \in 0 .. n : g[k] = Def(g, k)
  <2> TAKE k \in 0 .. n
  <2>1. CASE k = 0
    BY <1>7, <2>1
  <2>2. CASE k # 0
    <3>1. k \in 1 .. n /\ k - 1 \in 0 .. n
      BY <2>2
    <3>2. g[k - 1] \in ByteStrings
      BY <1>7, <3>1
    <3>3. g[k] = d[k][g[k - 1]]
      BY <1>7, <3>1
    <3>4. d[k][g[k - 1]] = g[k - 1] \o argv[k] \o Gap(k)
      BY <1>5, <3>1, <3>2
    <3> QED BY <2>2, <3>3, <3>4
  <2> QED BY <2>1, <2>2
<1> HIDE DEF Def
<1>9. g = [k \in 0 .. Len(argv) |-> Def(g, k)]
  BY <1>7, <1>8
<1>10. join = [k \in 0 .. Len(argv) |-> Def(join, k)]
  BY <1>9
<1> HIDE DEF join
<1>11. \A k \in 0 .. n : join[k] = Def(join, k)
  BY <1>10
<1> USE DEF Def
<1>12. join[0] = none
  BY <1>11
<1>13. ASSUME NEW k \in 1 .. n PROVE join[k] = join[k - 1] \o argv[k] \o Gap(k)
  <2>1. k \in 0 .. n /\ k # 0
    OBVIOUS
  <2> QED BY <1>11, <2>1
<1> QED BY <1>1, <1>12, <1>13 DEF JoinsTurns, none, Gap

(* The tokens up to a cut, joined, are the string up to there.               *)
JoinsCuts(s, sep, tokens, cut, join, n) ==
  /\ n \in Nat /\ cut \in [0 .. n -> Nat]
  /\ cut[0] = 0 /\ join[0] = << >>
  /\ \A k \in 1 .. n : TokenCut(s, sep, tokens, cut, k)
  /\ \A k \in 1 .. n : join[k] = join[k - 1] \o tokens[k] \o sep

(* Where each token ends at a cut, with a separator behind it.               *)
LEMMA CutsJoined ==
  ASSUME NEW s \in ByteStrings, NEW sep \in ByteStrings, Len(sep) # 0,
         NEW n, NEW cut, NEW tokens, NEW join,
         JoinsCuts(s, sep, tokens, cut, join, n)
  PROVE  \A k \in 0 .. n : join[k] = SubSeq(s, 1, cut[k])
<1> DEFINE l == Len(sep)
           W == {k \in Nat : k <= n => join[k] = SubSeq(s, 1, cut[k])}
<1>1. l \in Nat \ {0} /\ Len(s) \in Nat
  BY StringLength
<1>a. /\ n \in Nat /\ cut \in [0 .. n -> Nat] /\ cut[0] = 0 /\ join[0] = << >>
      /\ \A k \in 1 .. n : TokenCut(s, sep, tokens, cut, k)
      /\ \A k \in 1 .. n : join[k] = join[k - 1] \o tokens[k] \o sep
  BY DEF JoinsCuts
<1>2. 0 \in W
  BY <1>a, SubSeqEmpty
<1>3. ASSUME NEW m \in Nat, m \in W PROVE m + 1 \in W
  <2> SUFFICES ASSUME m + 1 <= n PROVE join[m + 1] = SubSeq(s, 1, cut[m + 1])
    OBVIOUS
  <2> DEFINE k == m + 1
             c == cut[m]
             e == cut[k]
  <2>1. k \in 1 .. n /\ k - 1 = m /\ m \in 0 .. n /\ k \in 0 .. n
    BY <1>a
  <2>2. join[m] = SubSeq(s, 1, c)
    BY <1>3, <2>1
  <2> HIDE DEF k
  <2>3. join[k] = join[m] \o tokens[k] \o sep
    BY <1>a, <2>1
  <2>4. TokenCut(s, sep, tokens, cut, k)
    BY <1>a, <2>1
  <2>5. /\ c + l <= e /\ e <= Len(s) /\ tokens[k] = SubSeq(s, c + 1, e - l)
        /\ SubSeq(s, e - l + 1, e) = sep
    BY <2>1, <2>4 DEF TokenCut
  <2>6. c \in Nat /\ e \in Nat
    BY <1>a, <2>1
  <2> HIDE DEF c, e
  <2>7. SubSeq(s, 1, c) \o SubSeq(s, c + 1, e - l) = SubSeq(s, 1, e - l)
    <3> DEFINE q == e - l
    <3>1. 1 \in Nat \ {0} /\ q \in Nat /\ 1 <= c + 1 /\ c <= q /\ q <= Len(s)
      <4> HIDE DEF l
      <4> QED BY <1>1, <2>5, <2>6
    <3> HIDE DEF q
    <3>2. SubSeq(s, 1, c) \o SubSeq(s, c + 1, q) = SubSeq(s, 1, q)
      BY <2>6, <3>1, PiecesJoined
    <3> QED BY <3>2 DEF q
  <2>8. SubSeq(s, 1, e - l) \o SubSeq(s, e - l + 1, e) = SubSeq(s, 1, e)
    <3> DEFINE q == e - l
    <3>1. 1 \in Nat \ {0} /\ q \in Nat /\ 1 <= q + 1 /\ q <= e /\ e <= Len(s)
      <4> HIDE DEF l
      <4> QED BY <1>1, <2>5, <2>6
    <3> HIDE DEF q
    <3>2. SubSeq(s, 1, q) \o SubSeq(s, q + 1, e) = SubSeq(s, 1, e)
      BY <2>6, <3>1, PiecesJoined
    <3> QED BY <3>2 DEF q
  <2> HIDE DEF l
  <2>9. join[k] = SubSeq(s, 1, e)
    BY <2>2, <2>3, <2>5, <2>7, <2>8, Zenon
  <2> QED BY <2>9 DEF k, e
<1>4. Nat \subseteq W
  <2> HIDE DEF W
  <2> QED BY <1>2, <1>3, SetInduction
<1> QED BY <1>a, <1>4

(* What SplitJoin says of one string.                                        *)
LEMMA SplitIsJoined ==
  ASSUME NEW s \in ByteStrings, NEW sep \in ByteStrings, Len(sep) # 0,
         NEW result, result = sdssplitlen(s, sep)
  PROVE  /\ sdsjoinsds(result.tokens, sep) = s
         /\ \A i \in DOMAIN result.tokens : ~Holds(result.tokens[i], sep)
         /\ Len(result.tokens) <= result.slots
<1>1. CASE s = << >>
  <2> DEFINE none == << >>
  <2>1. result.tokens = none /\ result.slots = FirstSlots
    BY <1>1 DEF sdssplitlen
  <2>2. Len(none) = 0 /\ DOMAIN none = {} /\ 1 .. 0 = {}
    BY EmptySeq
  <2> HIDE DEF none
  <2>3. Joined(none, sep)[0] = << >>
    <3>1. ASSUME NEW m \in Nat, m = 0 PROVE Joined(none, sep)[0] = << >>
      <4>1. AllStrings(none, m)
        BY <2>2, <3>1 DEF AllStrings
      <4>2. JoinsTurns(none, sep, m, Joined(none, sep))
        BY <4>1, JoinedTurns, Zenon
      <4> QED BY <4>2, Zenon DEF JoinsTurns
    <3> QED BY <3>1
  <2>4. 0 <= FirstSlots
    BY SdsTextAssumption
  <2> QED BY <1>1, <2>1, <2>2, <2>3, <2>4 DEF sdsjoinsds
<1>2. CASE s # << >>
  <2> DEFINE a == Split(s, sep)[Len(s)]
             n == Len(a.tokens)
             piece == SubSeq(s, a.start, Len(s))
             tokens == Append(a.tokens, piece)
             l == Len(sep)
             start == a.start
             join == Joined(tokens, sep)
  <2>1. result.tokens = tokens /\ result.slots = a.slots
    BY <1>2 DEF sdssplitlen, From
  <2>2. a \in SplitState /\ SplitInv(s, sep, a) /\ a.j + l - 1 > Len(s)
    BY SplitEnds DEF SplitStates
  <2>3. l \in Nat \ {0} /\ Len(s) \in Nat
    BY StringLength
  <2> HIDE DEF a
  <2>4. start \in Nat /\ a.j \in Nat /\ a.slots \in Nat /\ a.tokens \in Seq(ByteStrings)
    BY <2>2 DEF SplitState
  <2>5. 1 <= start /\ start <= a.j /\ a.j <= Len(s) + 1 /\ n + 1 <= a.slots
    BY <2>2 DEF SplitInv
  <2>6. \A p \in start .. a.j - 1 : ~Occurs(s, sep, p)
    BY <2>2 DEF SplitInv
  <2>7. PICK cut : CutAt(s, sep, a, cut)
    BY <2>2 DEF SplitInv
  <2>8. /\ cut \in [0 .. n -> Nat] /\ cut[0] = 0 /\ cut[n] = start - 1
        /\ \A k \in 1 .. n : TokenCut(s, sep, a.tokens, cut, k)
    BY <2>7 DEF CutAt
  <2>9. /\ start \in Nat \ {0} /\ start <= Len(s) + 1 /\ Len(s) <= Len(s)
        /\ \A p \in start .. Len(s) - l + 1 : p \in start .. a.j - 1
    <3> HIDE DEF l, start
    <3> QED BY <2>2, <2>3, <2>4, <2>5
  <2>10. piece \in ByteStrings /\ ~Holds(piece, sep)
    <3>1. \A p \in start .. Len(s) - Len(sep) + 1 : ~Occurs(s, sep, p)
      BY <2>6, <2>9
    <3>2. SubSeq(s, start, Len(s)) \in ByteStrings
      <4> HIDE DEF start
      <4> QED BY <2>3, <2>9, PieceOf
    <3>3. ~Holds(SubSeq(s, start, Len(s)), sep)
      <4> HIDE DEF start
      <4> QED BY <2>3, <2>9, <3>1, PieceHoldsNone
    <3> QED BY <3>2, <3>3
  <2>11. /\ tokens \in Seq(ByteStrings) /\ n \in Nat /\ Len(tokens) = n + 1
         /\ \A k \in 1 .. n : tokens[k] = a.tokens[k]
         /\ tokens[n + 1] = piece
    <3> HIDE DEF piece
    <3> QED BY <2>4, <2>10, Appended
  <2>12. \A k \in 1 .. n + 1 : tokens[k] \in ByteStrings
    <3> HIDE DEF tokens, n
    <3>1. DOMAIN tokens = 1 .. n + 1
      BY <2>11
    <3> QED BY <2>11, <3>1, ElementOfSeq
  <2>13. DOMAIN tokens = 1 .. n + 1
    <3> HIDE DEF tokens, n
    <3> QED BY <2>11
  <2> HIDE DEF n, tokens, piece, l, start
  <2>14. \A k \in 1 .. n : TokenCut(s, sep, tokens, cut, k)
    <3> TAKE k \in 1 .. n
    <3>1. TokenCut(s, sep, a.tokens, cut, k) /\ tokens[k] = a.tokens[k]
      BY <2>8, <2>11
    <3> QED BY <3>1 DEF TokenCut
  <2>15. ASSUME NEW k \in 1 .. n + 1 PROVE ~Holds(tokens[k], sep)
    <3>1. CASE k = n + 1
      BY <2>10, <2>11, <3>1
    <3>2. CASE k # n + 1
      <4> DEFINE i == cut[k - 1] + 1
                 j == cut[k] - l
      <4>1. k \in 1 .. n /\ k - 1 \in 0 .. n /\ k \in 0 .. n
        BY <2>11, <3>2
      <4>2. cut[k - 1] \in Nat /\ cut[k] \in Nat
        BY <2>8, <4>1
      <4>3. /\ cut[k - 1] + l <= cut[k] /\ cut[k] <= Len(s) /\ tokens[k] = SubSeq(s, i, j)
            /\ \A p \in i .. j : ~Occurs(s, sep, p)
        BY <2>14, <4>1 DEF TokenCut, l
      <4>4. i \in Nat \ {0} /\ j \in Nat /\ i <= j + 1 /\ j <= Len(s)
        <5> DEFINE c == cut[k - 1]
                   e == cut[k]
        <5>1. c \in Nat /\ e \in Nat /\ c + l <= e /\ e <= Len(s)
          BY <4>2, <4>3
        <5> HIDE DEF c, e
        <5>2. c + 1 \in Nat \ {0} /\ e - l \in Nat /\ c + 1 <= e - l + 1 /\ e - l <= Len(s)
          BY <2>3, <5>1
        <5> QED BY <5>2 DEF c, e
      <4>5. \A p \in i .. j - l + 1 : p \in i .. j
        <5> HIDE DEF i, j
        <5> QED BY <2>3, <4>4
      <4> HIDE DEF i, j
      <4>6. \A p \in i .. j - Len(sep) + 1 : ~Occurs(s, sep, p)
        BY <4>3, <4>5 DEF l
      <4>7. ~Holds(SubSeq(s, i, j), sep)
        BY <4>4, <4>6, PieceHoldsNone
      <4> QED BY <4>3, <4>7
    <3> QED BY <3>1, <3>2
  <2>16. /\ join[0] = << >>
         /\ \A k \in 1 .. n + 1 : join[k] = join[k - 1] \o tokens[k]
                                            \o (IF k # n + 1 THEN sep ELSE << >>)
    <3>1. n + 1 \in Nat
      BY <2>11
    <3>2. AllStrings(tokens, n + 1)
      BY <2>11, <2>12, Zenon DEF AllStrings
    <3>3. JoinsTurns(tokens, sep, n + 1, Joined(tokens, sep))
      BY <3>1, <3>2, JoinedTurns, Zenon
    <3> QED BY <3>3, Zenon DEF JoinsTurns, join
  <2> HIDE DEF join
  <2>17. \A k \in 1 .. n : join[k] = join[k - 1] \o tokens[k] \o sep
    <3> TAKE k \in 1 .. n
    <3>1. k \in 1 .. n + 1 /\ k # n + 1
      BY <2>11
    <3> QED BY <2>16, <3>1
  <2>18. join[n] = SubSeq(s, 1, start - 1)
    <3>1. n \in 0 .. n
      BY <2>11
    <3>2. \A k \in 0 .. n : join[k] = SubSeq(s, 1, cut[k])
      <4>1. n \in Nat /\ cut \in [0 .. n -> Nat] /\ cut[0] = 0 /\ join[0] = << >>
        BY <2>8, <2>11, <2>16
      <4>2. JoinsCuts(s, sep, tokens, cut, join, n)
        BY <2>14, <2>17, <4>1 DEF JoinsCuts
      <4> QED BY <4>2, CutsJoined
    <3> QED BY <2>8, <3>1, <3>2
  <2>19. join[n + 1] = s
    <3> DEFINE m == start - 1
    <3>1. 1 \in Nat \ {0} /\ m \in Nat /\ 1 <= m + 1 /\ m <= Len(s) /\ m + 1 = start
      BY <2>3, <2>9
    <3>2. join[n + 1] = join[n] \o piece \o << >>
      <4> DEFINE k == n + 1
      <4>1. k \in 1 .. n + 1 /\ k - 1 = n
        BY <2>11
      <4> HIDE DEF k
      <4>2. join[k] = join[k - 1] \o tokens[k] \o (IF k # n + 1 THEN sep ELSE << >>)
        BY <2>16, <4>1, Zenon
      <4>3. k = n + 1
        BY DEF k
      <4> HIDE <2>16
      <4> QED BY <2>11, <4>1, <4>2, <4>3, Zenon
    <3>3. join[n] = SubSeq(s, 1, m) /\ piece = SubSeq(s, m + 1, Len(s))
      BY <2>18, <3>1 DEF piece, start
    <3> HIDE DEF m
    <3>4. SubSeq(s, 1, m) \o SubSeq(s, m + 1, Len(s)) = SubSeq(s, 1, Len(s))
      BY <2>3, <2>9, <3>1, PiecesJoined
    <3>5. join[n] \o piece = s
      BY <3>3, <3>4, WholePiece
    <3>6. s \o << >> = s
      BY StringsJoined
    <3> QED BY <3>2, <3>5, <3>6
  <2>20. sdsjoinsds(tokens, sep) = s
    BY <2>11, <2>19 DEF sdsjoinsds, join
  <2>21. Len(tokens) <= a.slots
    BY <2>5, <2>11
  <2> QED BY <2>1, <2>13, <2>15, <2>20, <2>21
<1> QED BY <1>1, <1>2

-----------------------------------------------------------------------------
(* Quoting.  The letters that stand for characters after a backslash.        *)
LEMMA EscapesMean ==
  /\ \A c : IsEscaped(c) <=> c \in {7, 8, 9, 10, 13}
  /\ EscapeFor(7) = 97 /\ EscapeFor(8) = 98 /\ EscapeFor(9) = 116
  /\ EscapeFor(10) = 110 /\ EscapeFor(13) = 114
  /\ Unescaped(97) = 7 /\ Unescaped(98) = 8 /\ Unescaped(116) = 9
  /\ Unescaped(110) = 10 /\ Unescaped(114) = 13
  /\ \A c : c \notin {97, 98, 110, 114, 116} => Unescaped(c) = c
<1> DEFINE Pair(e, c, letter) == e[1] = c /\ e[2] = letter
<1>1. Escapes = {<< 10, 110 >>, << 13, 114 >>, << 9, 116 >>, << 7, 97 >>, << 8, 98 >>}
  BY DEF Escapes, LF, CR, TAB, BEL, BS, Lower
<1>2. \A e \in Escapes : Pair(e, 10, 110) \/ Pair(e, 13, 114) \/ Pair(e, 9, 116)
                         \/ Pair(e, 7, 97) \/ Pair(e, 8, 98)
  BY <1>1
<1>3. /\ \E e \in Escapes : Pair(e, 10, 110)
      /\ \E e \in Escapes : Pair(e, 13, 114)
      /\ \E e \in Escapes : Pair(e, 9, 116)
      /\ \E e \in Escapes : Pair(e, 7, 97)
      /\ \E e \in Escapes : Pair(e, 8, 98)
  <2>1. Pair(<< 10, 110 >>, 10, 110) /\ << 10, 110 >> \in Escapes
    BY <1>1
  <2>2. Pair(<< 13, 114 >>, 13, 114) /\ << 13, 114 >> \in Escapes
    BY <1>1
  <2>3. Pair(<< 9, 116 >>, 9, 116) /\ << 9, 116 >> \in Escapes
    BY <1>1
  <2>4. Pair(<< 7, 97 >>, 7, 97) /\ << 7, 97 >> \in Escapes
    BY <1>1
  <2>5. Pair(<< 8, 98 >>, 8, 98) /\ << 8, 98 >> \in Escapes
    BY <1>1
  <2> HIDE DEF Pair
  <2> QED BY <2>1, <2>2, <2>3, <2>4, <2>5
<1>4. \A c : IsEscaped(c) <=> c \in {7, 8, 9, 10, 13}
  BY <1>2, <1>3 DEF IsEscaped
<1>5. ASSUME NEW c, NEW letter, \E e \in Escapes : Pair(e, c, letter),
             \A e \in Escapes : (e[1] = c) = (e[2] = letter)
      PROVE  EscapeFor(c) = letter /\ Unescaped(letter) = c
  <2> DEFINE f == CHOOSE e \in Escapes : e[1] = c
             g == CHOOSE e \in Escapes : e[2] = letter
  <2>1. f \in Escapes /\ f[1] = c
    BY <1>5
  <2>2. g \in Escapes /\ g[2] = letter
    BY <1>5
  <2>3. EscapeFor(c) = f[2] /\ Unescaped(letter) = g[1]
    BY <1>5 DEF EscapeFor, Unescaped
  <2> HIDE DEF f, g
  <2> QED BY <1>5, <2>1, <2>2, <2>3
<1>6. /\ \A e \in Escapes : (e[1] = 10) = (e[2] = 110)
      /\ \A e \in Escapes : (e[1] = 13) = (e[2] = 114)
      /\ \A e \in Escapes : (e[1] = 9) = (e[2] = 116)
      /\ \A e \in Escapes : (e[1] = 7) = (e[2] = 97)
      /\ \A e \in Escapes : (e[1] = 8) = (e[2] = 98)
  BY <1>2
<1>7. \A e \in Escapes : e[2] \in {97, 98, 110, 114, 116}
  BY <1>2
<1>8. \A c : c \notin {97, 98, 110, 114, 116} => Unescaped(c) = c
  BY <1>7 DEF Unescaped
<1> DEFINE There(c, letter) == \E e \in Escapes : Pair(e, c, letter)
           Alike(c, letter) == \A e \in Escapes : (e[1] = c) = (e[2] = letter)
<1>9. \A c, letter : There(c, letter) /\ Alike(c, letter)
                     => EscapeFor(c) = letter /\ Unescaped(letter) = c
  BY <1>5
<1>10. /\ There(7, 97) /\ There(8, 98) /\ There(9, 116) /\ There(10, 110) /\ There(13, 114)
       /\ Alike(7, 97) /\ Alike(8, 98) /\ Alike(9, 116) /\ Alike(10, 110) /\ Alike(13, 114)
  BY <1>3, <1>6
<1> HIDE DEF Pair, There, Alike
<1> QED BY <1>4, <1>8, <1>9, <1>10

(* The hexadecimal digits of a byte mean the byte.                           *)
LEMMA HexMeans ==
  ASSUME NEW n \in 0 .. 15
  PROVE  /\ HexDigit(n) \in Bytes /\ is_hex_digit(HexDigit(n))
         /\ hex_digit_to_int(HexDigit(n)) = n
<1>1. CASE n < 10
  <2>1. HexDigit(n) = 48 + n /\ isdigit(48 + n)
    BY <1>1 DEF HexDigit, isdigit
  <2> QED BY <2>1 DEF is_hex_digit, hex_digit_to_int, Bytes
<1>2. CASE n >= 10
  <2> DEFINE c == 87 + n
  <2>1. HexDigit(n) = c
    BY <1>2 DEF HexDigit, Lower
  <2>2. c \in 97 .. 102
    BY <1>2
  <2>3. ~isdigit(c) /\ tolower(c) = c
    BY <2>2 DEF isdigit, tolower
  <2>4. is_hex_digit(c)
    BY <2>2, <2>3 DEF is_hex_digit, Lower
  <2>5. hex_digit_to_int(c) = c - 97 + 10
    BY <2>3, <2>4 DEF hex_digit_to_int, Lower
  <2> QED BY <2>1, <2>2, <2>4, <2>5 DEF Bytes
<1> QED BY <1>1, <1>2

(* A byte is its two hexadecimal digits.                                     *)
LEMMA HexIsByte ==
  ASSUME NEW c \in Bytes
  PROVE  c \div 16 \in 0 .. 15 /\ c % 16 \in 0 .. 15 /\ 16 * (c \div 16) + (c % 16) = c
BY DEF Bytes

(* What sdscatrepr() writes for a character.                                 *)
LEMMA ReprMeans ==
  ASSUME NEW c \in Bytes
  PROVE  /\ c \in {Backslash, DQuote} => Repr(c) = << Backslash, c >>
         /\ c \notin {Backslash, DQuote} /\ IsEscaped(c) => Repr(c) = << Backslash, EscapeFor(c) >>
         /\ c \notin {Backslash, DQuote} /\ ~IsEscaped(c) /\ isprint(c) => Repr(c) = << c >>
         /\ c \notin {Backslash, DQuote} /\ ~IsEscaped(c) /\ ~isprint(c)
              => Repr(c) = << Backslash, Lower(24), HexDigit(c \div 16), HexDigit(c % 16) >>
BY DEF Repr

(* The line has a text at place p.                                           *)
Written(line, p, text) == \A q \in 1 .. Len(text) : Char(line, p + q - 1) = text[q]

(* Add() moves on in the line and adds one character to the argument.        *)
LEMMA AddReads ==
  ASSUME NEW p \in Nat, NEW n \in Nat, NEW x, NEW current, NEW vector
  PROVE  Add(Reading("quotes", p, current, vector), x, n)
           = Reading("quotes", p + n, Append(current, x), vector)
<1> DEFINE mode == "quotes"
           a == [mode |-> mode, p |-> p, current |-> current, vector |-> vector]
           text == Append(current, x)
           b == [a EXCEPT !.current = text]
<1>1. Add(Reading("quotes", p, current, vector), x, n) = [b EXCEPT !.p = p + n]
  BY DEF Add, Reading
<1> HIDE DEF text, mode
<1>2. b = [mode |-> mode, p |-> p, current |-> text, vector |-> vector]
  OBVIOUS
<1> HIDE DEF b
<1>3. [b EXCEPT !.p = p + n] = [mode |-> mode, p |-> p + n, current |-> text, vector |-> vector]
  BY <1>2
<1> QED BY <1>1, <1>3 DEF Reading, text, mode

(* Between quotes, what sdscatrepr() writes for a character is read as it.   *)
LEMMA ReprReads ==
  ASSUME NEW c \in Bytes, NEW line, NEW p \in Nat, Written(line, p, Repr(c)),
         NEW current, NEW vector
  PROVE  QuotesTurn(line, Reading("quotes", p, current, vector))
           = Reading("quotes", p + Len(Repr(c)), Append(current, c), vector)
<1> DEFINE a == Reading("quotes", p, current, vector)
           After(n, x) == Reading("quotes", p + n, Append(current, x), vector)
<1>1. a.p = p
  BY DEF Reading
<1>2. \A n \in Nat : \A x : Add(a, x, n) = After(n, x)
  BY AddReads
<1> HIDE DEF a, After
<1>3. CASE c \in {Backslash, DQuote}
  <2>1. Repr(c) = << Backslash, c >>
    BY <1>3, ReprMeans
  <2>2. Char(line, p) = 92 /\ Char(line, p + 1) = c /\ Len(Repr(c)) = 2
    BY <2>1 DEF Written, Backslash
  <2>3. c # Lower(24) /\ c # NUL /\ Unescaped(c) = c
    BY <1>3, EscapesMean DEF Lower, NUL, Backslash, DQuote
  <2>4. QuotesTurn(line, a) = Add(a, Unescaped(c), 2)
    BY <1>1, <2>2, <2>3 DEF QuotesTurn, IsHexEscape, Backslash
  <2> QED BY <1>2, <2>2, <2>3, <2>4 DEF a, After
<1>4. CASE c \notin {Backslash, DQuote} /\ IsEscaped(c)
  <2> DEFINE e == EscapeFor(c)
  <2>1. Repr(c) = << Backslash, e >>
    BY <1>4, ReprMeans
  <2>2. e \in {97, 98, 110, 114, 116} /\ Unescaped(e) = c
    BY <1>4, EscapesMean
  <2> HIDE DEF e
  <2>3. Char(line, p) = 92 /\ Char(line, p + 1) = e /\ Len(Repr(c)) = 2
    BY <2>1 DEF Written, Backslash
  <2>4. e # Lower(24) /\ e # NUL
    BY <2>2 DEF Lower, NUL
  <2>5. QuotesTurn(line, a) = Add(a, Unescaped(e), 2)
    BY <1>1, <2>3, <2>4 DEF QuotesTurn, IsHexEscape, Backslash
  <2> QED BY <1>2, <2>2, <2>3, <2>5 DEF a, After
<1>5. CASE c \notin {Backslash, DQuote} /\ ~IsEscaped(c) /\ isprint(c)
  <2>1. Repr(c) = << c >>
    BY <1>5, ReprMeans
  <2>2. Char(line, p) = c /\ Len(Repr(c)) = 1
    BY <2>1 DEF Written
  <2>3. c # NUL
    BY <1>5 DEF isprint, NUL
  <2>4. QuotesTurn(line, a) = Add(a, c, 1)
    BY <1>1, <1>5, <2>2, <2>3 DEF QuotesTurn, IsHexEscape
  <2> QED BY <1>2, <2>2, <2>4 DEF a, After
<1>6. CASE c \notin {Backslash, DQuote} /\ ~IsEscaped(c) /\ ~isprint(c)
  <2> DEFINE h == HexDigit(c \div 16)
             l == HexDigit(c % 16)
  <2>1. Repr(c) = << Backslash, Lower(24), h, l >>
    BY <1>6, ReprMeans
  <2>2. /\ is_hex_digit(h) /\ is_hex_digit(l)
        /\ 16 * hex_digit_to_int(h) + hex_digit_to_int(l) = c
    BY HexIsByte, HexMeans
  <2> HIDE DEF h, l
  <2>3. /\ Char(line, p) = Backslash /\ Char(line, p + 1) = Lower(24)
        /\ Char(line, p + 2) = h /\ Char(line, p + 3) = l /\ Len(Repr(c)) = 4
    BY <2>1 DEF Written
  <2>4. IsHexEscape(line, p)
    BY <2>2, <2>3 DEF IsHexEscape
  <2>5. QuotesTurn(line, a) = Add(a, c, 4)
    BY <1>1, <2>2, <2>3, <2>4 DEF QuotesTurn
  <2> QED BY <1>2, <2>3, <2>5 DEF a, After
<1> QED BY <1>3, <1>4, <1>5, <1>6

(* A state of the reading, and the turns that keep it one.                   *)
Texts == Seq(Int)
Lists == Seq(Texts)
Modes == {"blanks", "plain", "quotes", "single", "words", "error"}
ReadingState == [mode : Modes, p : Nat, current : Texts, vector : Lists]

(* A text that grows by a number is a text, and a list by a text a list.     *)
LEMMA TextGrows ==
  ASSUME NEW text \in Texts, NEW c \in Int
  PROVE  Append(text, c) \in Texts
BY Appended DEF Texts

(* A list of texts that grows by a text is a list of texts.                  *)
LEMMA ListGrows ==
  ASSUME NEW list \in Lists, NEW text \in Texts
  PROVE  Append(list, text) \in Lists
BY Appended DEF Lists

(* The empty sequence is a text, and an empty list.                          *)
LEMMA NoTexts == << >> \in Texts /\ << >> \in Lists
BY EmptySeq DEF Texts, Lists

(* A character of a line, or the zero behind it, is a byte.                  *)
LEMMA CharIsByte ==
  ASSUME NEW line \in ByteStrings, NEW p
  PROVE  Char(line, p) \in Bytes
<1>1. 0 \in Bytes
  BY DEF Bytes
<1>2. p \in 1 .. Len(line) => line[p] \in Bytes
  BY ElementOfSeq DEF ByteStrings
<1> QED BY <1>1, <1>2 DEF Char, NUL

(* What an escape stands for is a number.                                    *)
LEMMA UnescapedIsNumber ==
  ASSUME NEW c \in Bytes
  PROVE  Unescaped(c) \in Int
<1>1. c \in Int
  BY DEF Bytes
<1>2. CASE c \in {97, 98, 110, 114, 116}
  BY <1>2, EscapesMean
<1>3. CASE c \notin {97, 98, 110, 114, 116}
  BY <1>1, <1>3, EscapesMean
<1> QED BY <1>2, <1>3

(* A hexadecimal digit, or what is taken for one, gives a number.            *)
LEMMA HexIsNumber ==
  ASSUME NEW c \in Bytes
  PROVE  hex_digit_to_int(c) \in Int
<1>1. c \in Int
  BY DEF Bytes
<1> QED BY <1>1 DEF hex_digit_to_int, tolower, Lower

(* Records of the reading that change in one field or two.                   *)
LEMMA StateChanges ==
  ASSUME NEW a \in ReadingState, NEW mode \in Modes, NEW p \in Nat
  PROVE  /\ [a EXCEPT !.mode = mode] \in ReadingState
         /\ [a EXCEPT !.p = p] \in ReadingState
         /\ [a EXCEPT !.mode = mode, !.p = p] \in ReadingState
         /\ a.p \in Nat /\ a.current \in Texts /\ a.vector \in Lists
<1>1. a.mode \in Modes /\ a.p \in Nat /\ a.current \in Texts /\ a.vector \in Lists
      /\ a = [mode |-> a.mode, p |-> a.p, current |-> a.current, vector |-> a.vector]
  BY DEF ReadingState
<1> DEFINE b == [a EXCEPT !.mode = mode]
<1>2. b = [mode |-> mode, p |-> a.p, current |-> a.current, vector |-> a.vector]
  BY DEF ReadingState
<1>3. b \in ReadingState
  <2> HIDE DEF b
  <2> QED BY <1>1, <1>2 DEF ReadingState
<1>4. [a EXCEPT !.p = p] = [mode |-> a.mode, p |-> p, current |-> a.current, vector |-> a.vector]
  BY DEF ReadingState
<1>5. [a EXCEPT !.p = p] \in ReadingState
  <2> DEFINE d == [a EXCEPT !.p = p]
  <2>1. d = [mode |-> a.mode, p |-> p, current |-> a.current, vector |-> a.vector]
    BY <1>4
  <2> HIDE DEF d
  <2>2. d \in ReadingState
    BY <1>1, <2>1 DEF ReadingState
  <2> QED BY <2>2 DEF d
<1>6. [a EXCEPT !.mode = mode, !.p = p] \in ReadingState
  <2>1. [a EXCEPT !.mode = mode, !.p = p] = [b EXCEPT !.p = p]
    BY Zenon
  <2> HIDE DEF b
  <2>2. [b EXCEPT !.p = p] = [mode |-> mode, p |-> p, current |-> a.current, vector |-> a.vector]
    BY <1>2
  <2> DEFINE d == [b EXCEPT !.p = p]
  <2> HIDE DEF d
  <2>3. d \in ReadingState
    BY <1>1, <2>2 DEF ReadingState, d
  <2> QED BY <2>1, <2>3 DEF d
<1> QED BY <1>1, <1>3, <1>5, <1>6

(* Adding a character keeps the kinds of the fields.                         *)
LEMMA AddKeeps ==
  ASSUME NEW a \in ReadingState, NEW c \in Int, NEW n \in Nat
  PROVE  Add(a, c, n) \in ReadingState
<1>1. a.mode \in Modes /\ a.p \in Nat /\ a.current \in Texts /\ a.vector \in Lists
  BY DEF ReadingState
<1> DEFINE text == Append(a.current, c)
           b == [a EXCEPT !.current = text]
           q == a.p + n
<1>2. text \in Texts
  BY <1>1, TextGrows
<1>3. q \in Nat
  BY <1>1
<1>4. Add(a, c, n) = [b EXCEPT !.p = @ + n]
  BY Zenon DEF Add
<1> HIDE DEF text
<1>5. b = [mode |-> a.mode, p |-> a.p, current |-> text, vector |-> a.vector]
  BY DEF ReadingState
<1> HIDE DEF b
<1>6. Add(a, c, n) = [mode |-> a.mode, p |-> q, current |-> text, vector |-> a.vector]
  BY <1>4, <1>5
<1> HIDE DEF q
<1> QED BY <1>1, <1>2, <1>3, <1>6 DEF ReadingState

(* So does closing the quotes.                                               *)
LEMMA ClosingKeeps ==
  ASSUME NEW a \in ReadingState, NEW line
  PROVE  /\ Unbalanced \in ReadingState
         /\ WordDone(line, a) \in ReadingState
         /\ QuotesClosed(line, a) \in ReadingState
<1>1. a.p \in Nat /\ a.current \in Texts /\ a.vector \in Lists
  BY DEF ReadingState
<1>2. Unbalanced \in ReadingState
  BY NoTexts DEF Unbalanced, Reading, ReadingState, Modes
<1>3. WordDone(line, a) \in ReadingState
  <2> DEFINE list == Append(a.vector, a.current)
             q == IF Char(line, a.p) = NUL THEN a.p ELSE a.p + 1
             none == << >>
  <2>1. list \in Lists /\ none \in Texts
    BY <1>1, ListGrows, NoTexts
  <2>2. q \in Nat
    BY <1>1
  <2>3. WordDone(line, a) = [mode |-> "blanks", p |-> q, current |-> none, vector |-> list]
    BY DEF WordDone, Reading
  <2> HIDE DEF list, q, none
  <2> QED BY <2>1, <2>2, <2>3 DEF ReadingState, Modes
<1> QED BY <1>2, <1>3 DEF QuotesClosed

(* Every turn keeps a state of the reading one.                              *)
LEMMA ArgsTurnKeeps ==
  ASSUME NEW line \in ByteStrings, NEW a \in ReadingState
  PROVE  ArgsTurn(line, a) \in ReadingState
<1>1. a.p \in Nat /\ a.p + 1 \in Nat
  BY DEF ReadingState
<1>2. {"words", "plain", "quotes", "single"} \subseteq Modes
  BY DEF Modes
<1>3. \A q : Char(line, q) \in Bytes /\ Char(line, q) \in Int
  BY CharIsByte DEF Bytes
<1>4. BlanksTurn(line, a) \in ReadingState
  <2>1. [a EXCEPT !.mode = "words"] \in ReadingState
    BY <1>1, <1>2, StateChanges
  <2>2. [a EXCEPT !.mode = "plain"] \in ReadingState
    BY <1>1, <1>2, StateChanges
  <2>3. [a EXCEPT !.p = @ + 1] \in ReadingState
    <3>1. [a EXCEPT !.p = a.p + 1] \in ReadingState
      <4> DEFINE q == a.p + 1
      <4> HIDE DEF q
      <4>1. [a EXCEPT !.p = q] \in ReadingState
        BY <1>1, <1>2, StateChanges DEF q
      <4> QED BY <4>1 DEF q
    <3> QED BY <3>1, Zenon
  <2> QED BY <2>1, <2>2, <2>3, Zenon DEF BlanksTurn
<1>5. PlainTurn(line, a) \in ReadingState
  <2> DEFINE c == Char(line, a.p)
  <2>1. CASE c \in {SP, LF, CR, TAB, NUL}
    <3>1. c # DQuote /\ c # SQuote
      BY <2>1 DEF SP, LF, CR, TAB, NUL, DQuote, SQuote
    <3>2. PlainTurn(line, a) = WordDone(line, a)
      BY <2>1, <3>1 DEF PlainTurn
    <3> QED BY <3>2, ClosingKeeps
  <2>2. CASE c = DQuote
    <3>1. c \notin {SP, LF, CR, TAB, NUL} /\ c # SQuote
      BY <2>2 DEF SP, LF, CR, TAB, NUL, DQuote, SQuote
    <3>2. PlainTurn(line, a) = [a EXCEPT !.mode = "quotes", !.p = @ + 1]
      BY <2>2, <3>1, Zenon DEF PlainTurn
    <3> DEFINE q == a.p + 1
    <3>3. PlainTurn(line, a) = [a EXCEPT !.mode = "quotes", !.p = q]
      BY <3>2, Zenon
    <3> HIDE DEF q
    <3>4. [a EXCEPT !.mode = "quotes", !.p = q] \in ReadingState
      BY <1>1, <1>2, StateChanges DEF q
    <3> QED BY <3>3, <3>4, Zenon
  <2>3. CASE c = SQuote
    <3>1. c \notin {SP, LF, CR, TAB, NUL} /\ c # DQuote
      BY <2>3 DEF SP, LF, CR, TAB, NUL, DQuote, SQuote
    <3>2. PlainTurn(line, a) = [a EXCEPT !.mode = "single", !.p = @ + 1]
      BY <2>3, <3>1, Zenon DEF PlainTurn
    <3> DEFINE q == a.p + 1
    <3>3. PlainTurn(line, a) = [a EXCEPT !.mode = "single", !.p = q]
      BY <3>2, Zenon
    <3> HIDE DEF q
    <3>4. [a EXCEPT !.mode = "single", !.p = q] \in ReadingState
      BY <1>1, <1>2, StateChanges DEF q
    <3> QED BY <3>3, <3>4, Zenon
  <2>4. CASE c \notin {SP, LF, CR, TAB, NUL} /\ c # DQuote /\ c # SQuote
    <3>1. PlainTurn(line, a) = Add(a, c, 1)
      BY <2>4 DEF PlainTurn
    <3> QED BY <1>3, <3>1, AddKeeps
  <2> QED BY <2>1, <2>2, <2>3, <2>4
<1>6. QuotesTurn(line, a) \in ReadingState
  <2>1. \A c \in Int : \A n \in Nat : Add(a, c, n) \in ReadingState
    BY AddKeeps
  <2> DEFINE h == hex_digit_to_int(Char(line, a.p + 2))
             l == hex_digit_to_int(Char(line, a.p + 3))
  <2>2. h \in Int /\ l \in Int
    BY <1>3, HexIsNumber
  <2> HIDE DEF h, l
  <2>3. 16 * h + l \in Int
    BY <2>2
  <2>4. Add(a, 16 * h + l, 4) \in ReadingState
    BY <2>1, <2>3
  <2>5. Add(a, Unescaped(Char(line, a.p + 1)), 2) \in ReadingState
    BY <1>3, <2>1, UnescapedIsNumber
  <2>6. Add(a, Char(line, a.p), 1) \in ReadingState
    BY <1>3, <2>1
  <2> QED BY <2>4, <2>5, <2>6, ClosingKeeps, Zenon DEF QuotesTurn, h, l
<1>7. SingleTurn(line, a) \in ReadingState
  <2>1. \A c \in Int : \A n \in Nat : Add(a, c, n) \in ReadingState
    BY AddKeeps
  <2>2. Add(a, Char(line, a.p), 1) \in ReadingState /\ Add(a, SQuote, 2) \in ReadingState
    BY <1>3, <2>1 DEF SQuote
  <2> QED BY <2>2, ClosingKeeps, Zenon DEF SingleTurn
<1> QED BY <1>4, <1>5, <1>6, <1>7 DEF ArgsTurn

(* The turns of the loop over the line.                                      *)
FirstReading == Reading("blanks", 1, << >>, << >>)

(* Every turn is ArgsTurn() of the state before it.                          *)
LEMMA ArgsSteps ==
  ASSUME NEW line \in ByteStrings
  PROVE  /\ Args(line)[0] = FirstReading
         /\ \A k \in Nat : Args(line)[k + 1] = ArgsTurn(line, Args(line)[k])
<1> DEFINE Def(f, k) == IF k = 0 THEN FirstReading ELSE ArgsTurn(line, f[k - 1])
           after == CHOOSE f : f = [k \in Nat |-> Def(f, k)]
           S == ReadingState
           d == [a \in S |-> ArgsTurn(line, a)]
<1>1. Args(line) = after
  BY DEF Args, FirstReading
<1>2. \A a \in S : ArgsTurn(line, a) \in S
  BY ArgsTurnKeeps
<1>3. FirstReading \in S
  BY NoTexts DEF FirstReading, Reading, ReadingState, Modes
<1> HIDE DEF S
<1>4. d \in Maps(S) /\ \A a \in S : d[a] = ArgsTurn(line, a)
  BY <1>2 DEF Maps
<1> HIDE DEF d
<1>5. PICK g : Repeats(g, S, FirstReading, d)
  BY <1>3, <1>4, NatRecursion
<1>6. g \in [Nat -> S] /\ g[0] = FirstReading /\ \A k \in Nat : g[k + 1] = d[g[k]]
  BY <1>5 DEF Repeats
<1>7. \A k \in Nat : g[k] = Def(g, k)
  <2> TAKE k \in Nat
  <2>1. CASE k = 0
    BY <1>6, <2>1
  <2>2. CASE k # 0
    <3>1. k - 1 \in Nat /\ (k - 1) + 1 = k
      BY <2>2
    <3> QED BY <1>4, <1>6, <2>2, <3>1
  <2> QED BY <2>1, <2>2
<1>8. g = [k \in Nat |-> Def(g, k)]
  BY <1>6, <1>7
<1> HIDE DEF Def
<1>9. after = [k \in Nat |-> Def(after, k)]
  BY <1>8
<1> HIDE DEF after
<1>10. \A k \in Nat : after[k] = Def(after, k)
  BY <1>9
<1> USE DEF Def
<1>11. after[0] = FirstReading
  BY <1>10
<1>12. \A k \in Nat : after[k + 1] = ArgsTurn(line, after[k])
  <2> TAKE k \in Nat
  <2>1. k + 1 \in Nat /\ k + 1 # 0 /\ (k + 1) - 1 = k
    OBVIOUS
  <2> QED BY <1>10, <2>1
<1> QED BY <1>1, <1>11, <1>12

(* The reading comes to a state, soon enough: each turn passes a character,  *)
(* begins a word or ends one.                                                *)
Weight(a) == 2 * a.p - 2 + (IF a.mode = "plain" THEN 1 ELSE 0)

Reached(line, a) == \E k \in Nat : k <= Weight(a) /\ Args(line)[k] = a

(* One more turn, when the weight of the state grows.                        *)
LEMMA Reaches ==
  ASSUME NEW line \in ByteStrings, NEW a, NEW b, Reached(line, a), b = ArgsTurn(line, a),
         Weight(a) \in Nat, Weight(b) \in Nat, Weight(b) >= Weight(a) + 1
  PROVE  Reached(line, b)
<1>1. PICK k \in Nat : k <= Weight(a) /\ Args(line)[k] = a
  BY DEF Reached
<1>2. Args(line)[k + 1] = b
  BY <1>1, ArgsSteps
<1>3. k + 1 \in Nat /\ k + 1 <= Weight(b)
  <2> DEFINE m == Weight(a)
             n == Weight(b)
  <2>1. m \in Nat /\ n \in Nat /\ n >= m + 1 /\ k <= m
    BY <1>1
  <2> HIDE DEF m, n
  <2>2. k + 1 \in Nat /\ k + 1 <= n
    BY <2>1
  <2> QED BY <2>2 DEF n
<1> QED BY <1>2, <1>3 DEF Reached

(* The fields of a state that reads, and its weight.                         *)
LEMMA Fields ==
  ASSUME NEW mode, NEW p \in Nat \ {0}, NEW current, NEW vector
  PROVE  /\ Reading(mode, p, current, vector).mode = mode
         /\ Reading(mode, p, current, vector).p = p
         /\ Reading(mode, p, current, vector).current = current
         /\ Reading(mode, p, current, vector).vector = vector
         /\ Weight(Reading(mode, p, current, vector)) = IF mode = "plain" THEN 2 * p - 1 ELSE 2 * p - 2
         /\ Weight(Reading(mode, p, current, vector)) \in Nat
<1> DEFINE a == Reading(mode, p, current, vector)
<1>1. a.mode = mode /\ a.p = p /\ a.current = current /\ a.vector = vector
  BY DEF Reading
<1> HIDE DEF a
<1>2. Weight(a) = IF mode = "plain" THEN 2 * p - 1 ELSE 2 * p - 2
  BY <1>1 DEF Weight
<1>3. Weight(a) \in Nat
  BY <1>2
<1> QED BY <1>1, <1>2, <1>3 DEF a

(* One turn of the reading from each of the states that a quoted word goes   *)
(* through: a space between words, the opening quotes in two turns, ...      *)
LEMMA SpaceSkipped ==
  ASSUME NEW line \in ByteStrings, NEW p \in Nat \ {0}, NEW current, NEW vector,
         Char(line, p) = SP, Reached(line, Reading("blanks", p, current, vector))
  PROVE  Reached(line, Reading("blanks", p + 1, current, vector))
<1> DEFINE a == Reading("blanks", p, current, vector)
           b == Reading("blanks", p + 1, current, vector)
<1>1. a.mode = "blanks" /\ a.p = p
  BY Fields
<1>2. b = [a EXCEPT !.p = p + 1]
  BY DEF Reading
<1>3. p + 1 \in Nat \ {0}
  OBVIOUS
<1>4. Weight(a) = 2 * p - 2 /\ Weight(b) = 2 * (p + 1) - 2 /\ Weight(a) \in Nat /\ Weight(b) \in Nat
  BY <1>3, Fields
<1> HIDE DEF a, b
<1>5. Char(line, a.p) # NUL /\ isspace(Char(line, a.p))
  BY <1>1 DEF SP, NUL, isspace
<1>6. ArgsTurn(line, a) = BlanksTurn(line, a)
  BY <1>1 DEF ArgsTurn
<1>7. BlanksTurn(line, a) = [a EXCEPT !.p = p + 1]
  BY <1>1, <1>5, Zenon DEF BlanksTurn
<1>8. Weight(b) >= Weight(a) + 1
  BY <1>4
<1>9. Reached(line, a)
  BY DEF a
<1> QED BY <1>2, <1>4, <1>6, <1>7, <1>8, <1>9, Reaches DEF b

(* An opening quote is read from the blanks, by two turns.                   *)
LEMMA QuotesOpened ==
  ASSUME NEW line \in ByteStrings, NEW p \in Nat \ {0}, NEW current, NEW vector,
         Char(line, p) = DQuote, Reached(line, Reading("blanks", p, current, vector))
  PROVE  Reached(line, Reading("quotes", p + 1, current, vector))
<1> DEFINE a == Reading("blanks", p, current, vector)
           b == Reading("plain", p, current, vector)
           c == Reading("quotes", p + 1, current, vector)
<1>1. a.mode = "blanks" /\ a.p = p /\ b.mode = "plain" /\ b.p = p
  BY Fields
<1>2. b = [a EXCEPT !.mode = "plain"]
  BY DEF Reading
<1>3. c = [b EXCEPT !.mode = "quotes", !.p = p + 1]
  <2> DEFINE d == Reading("quotes", p, current, vector)
  <2>1. d = [b EXCEPT !.mode = "quotes"]
    BY DEF Reading
  <2>2. c = [d EXCEPT !.p = p + 1]
    BY DEF Reading
  <2> HIDE DEF b, c, d
  <2> QED BY <2>1, <2>2, Zenon
<1>4. p + 1 \in Nat \ {0}
  OBVIOUS
<1>5. /\ Weight(a) = 2 * p - 2 /\ Weight(b) = 2 * p - 1 /\ Weight(c) = 2 * (p + 1) - 2
      /\ Weight(a) \in Nat /\ Weight(b) \in Nat /\ Weight(c) \in Nat
  BY <1>4, Fields
<1> HIDE DEF a, b, c
<1>6. /\ Char(line, p) # NUL /\ ~isspace(Char(line, p))
      /\ Char(line, p) \notin {SP, LF, CR, TAB, NUL} /\ Char(line, p) # SQuote
  BY DEF SP, LF, CR, TAB, NUL, DQuote, SQuote, isspace
<1>7. ArgsTurn(line, a) = b
  <2>1. ArgsTurn(line, a) = BlanksTurn(line, a)
    BY <1>1 DEF ArgsTurn
  <2>2. BlanksTurn(line, a) = [a EXCEPT !.mode = "plain"]
    BY <1>1, <1>6, Zenon DEF BlanksTurn
  <2> QED BY <1>2, <2>1, <2>2
<1>8. ArgsTurn(line, b) = c
  <2>1. ArgsTurn(line, b) = PlainTurn(line, b)
    BY <1>1 DEF ArgsTurn
  <2>2. PlainTurn(line, b) = [b EXCEPT !.mode = "quotes", !.p = @ + 1]
    BY <1>1, <1>6, Zenon DEF PlainTurn
  <2> QED BY <1>1, <1>3, <2>1, <2>2, Zenon
<1>9. Reached(line, a)
  BY DEF a
<1>10. Weight(b) >= Weight(a) + 1 /\ Weight(c) >= Weight(b) + 1
  BY <1>5
<1>11. Reached(line, b)
  BY <1>5, <1>7, <1>9, <1>10, Reaches
<1>12. Reached(line, c)
  BY <1>5, <1>8, <1>10, <1>11, Reaches
<1> QED BY <1>12 DEF c

(* ... a character of the word, ...                                          *)
LEMMA CharacterRead ==
  ASSUME NEW line \in ByteStrings, NEW p \in Nat \ {0}, NEW current, NEW vector,
         NEW c \in Bytes, Written(line, p, Repr(c)), Len(Repr(c)) \in Nat \ {0},
         Reached(line, Reading("quotes", p, current, vector))
  PROVE  Reached(line, Reading("quotes", p + Len(Repr(c)), Append(current, c), vector))
<1> DEFINE n == Len(Repr(c))
           text == Append(current, c)
           a == Reading("quotes", p, current, vector)
           b == Reading("quotes", p + n, text, vector)
<1>1. QuotesTurn(line, a) = b
  BY ReprReads
<1>2. a.mode = "quotes"
  BY Fields
<1>3. Reached(line, a)
  OBVIOUS
<1>a. n \in Nat \ {0}
  OBVIOUS
<1> HIDE DEF n, text
<1>4. p + n \in Nat \ {0}
  BY <1>a
<1>5. Weight(a) = 2 * p - 2 /\ Weight(b) = 2 * (p + n) - 2 /\ Weight(a) \in Nat /\ Weight(b) \in Nat
  <2> DEFINE q == p + n
  <2> HIDE DEF q
  <2>1. Weight(Reading("quotes", q, text, vector)) = 2 * q - 2
        /\ Weight(Reading("quotes", q, text, vector)) \in Nat
    BY <1>4, Fields DEF q
  <2>2. Weight(a) = 2 * p - 2 /\ Weight(a) \in Nat
    BY Fields
  <2> QED BY <2>1, <2>2 DEF q
<1> HIDE DEF a, b
<1>6. Weight(b) >= Weight(a) + 1
  BY <1>a, <1>5
<1>7. ArgsTurn(line, a) = b
  BY <1>1, <1>2 DEF ArgsTurn
<1>8. Reached(line, b)
  BY <1>3, <1>5, <1>6, <1>7, Reaches
<1> QED BY <1>8 DEF b, n, text

(* ... the closing quotes, ...                                               *)
LEMMA QuotesAreClosed ==
  ASSUME NEW line \in ByteStrings, NEW p \in Nat \ {0}, NEW current, NEW vector,
         Char(line, p) = DQuote, Char(line, p + 1) \in {SP, NUL},
         Reached(line, Reading("quotes", p, current, vector))
  PROVE  Reached(line, Reading("blanks", p + 1, << >>, Append(vector, current)))
<1> DEFINE none == << >>
           list == Append(vector, current)
           a == Reading("quotes", p, current, vector)
           b == Reading("blanks", p + 1, none, list)
<1>1. a.mode = "quotes" /\ a.p = p /\ a.current = current /\ a.vector = vector
  BY Fields
<1>2. Reached(line, a)
  OBVIOUS
<1>3. p + 1 \in Nat \ {0}
  OBVIOUS
<1> HIDE DEF none, list
<1>4. Weight(a) = 2 * p - 2 /\ Weight(b) = 2 * (p + 1) - 2 /\ Weight(a) \in Nat /\ Weight(b) \in Nat
  BY <1>3, Fields
<1> HIDE DEF a
<1>5. ArgsTurn(line, a) = QuotesTurn(line, a)
  BY <1>1 DEF ArgsTurn
<1>6. Char(line, p) # Backslash /\ Char(line, p) # NUL
  BY DEF DQuote, Backslash, NUL
<1>7. QuotesTurn(line, a) = QuotesClosed(line, a)
  BY <1>1, <1>6 DEF QuotesTurn, IsHexEscape
<1>8. QuotesClosed(line, a) = WordDone(line, a)
  BY <1>1 DEF QuotesClosed, isspace
<1>9. WordDone(line, a) = b
  BY <1>1, <1>6 DEF WordDone, list, none
<1> HIDE DEF b
<1>10. Weight(b) >= Weight(a) + 1
  BY <1>4
<1>11. Reached(line, b)
  BY <1>2, <1>4, <1>5, <1>7, <1>8, <1>9, <1>10, Reaches
<1> QED BY <1>11 DEF b, none, list

(* ... and the end of the line.                                              *)
LEMMA LineEnds ==
  ASSUME NEW line \in ByteStrings, NEW vector, NEW current,
         Reached(line, Reading("blanks", Len(line) + 1, current, vector))
  PROVE  sdssplitargs(line) = [ok |-> TRUE, argv |-> vector]
<1> DEFINE n == Len(line)
           p == n + 1
           a == Reading("blanks", p, current, vector)
           b == Reading("words", p, current, vector)
           K == 2 * n + 3
<1>1. n \in Nat /\ p \in Nat \ {0}
  BY StringLength
<1>2. Char(line, p) = NUL
  <2>1. p \notin 1 .. Len(line)
    BY <1>1
  <2> HIDE DEF p
  <2> QED BY <2>1 DEF Char
<1>3. Reached(line, a)
  OBVIOUS
<1> HIDE DEF n
<1>a. 2 * p - 2 = 2 * n
  BY <1>1
<1>b. p \in Nat \ {0}
  BY <1>1
<1> HIDE DEF p
<1>4. a.mode = "blanks" /\ a.p = p /\ b.mode = "words" /\ b.p = p /\ b.vector = vector
      /\ Weight(a) = 2 * p - 2
  BY <1>b, Fields
<1>5. b = [a EXCEPT !.mode = "words"]
  BY DEF Reading
<1> HIDE DEF a, b
<1>6. ArgsTurn(line, a) = b
  <2>1. ArgsTurn(line, a) = BlanksTurn(line, a)
    BY <1>4 DEF ArgsTurn
  <2>2. BlanksTurn(line, a) = [a EXCEPT !.mode = "words"]
    BY <1>2, <1>4, Zenon DEF BlanksTurn
  <2> QED BY <1>5, <2>1, <2>2
<1>7. ArgsTurn(line, b) = b
  BY <1>4 DEF ArgsTurn
<1>8. PICK k \in Nat : k <= 2 * n /\ Args(line)[k] = a
  BY <1>3, <1>4, <1>a DEF Reached
<1> DEFINE T == {m \in Nat : m >= k + 1 => Args(line)[m] = b}
<1>9. Nat \subseteq T
  <2>1. 0 \in T
    OBVIOUS
  <2>2. ASSUME NEW m \in Nat, m \in T PROVE m + 1 \in T
    <3>1. Args(line)[m + 1] = ArgsTurn(line, Args(line)[m])
      BY ArgsSteps
    <3>2. CASE m = k
      BY <1>6, <1>8, <3>1, <3>2
    <3>3. CASE m >= k + 1
      BY <1>7, <2>2, <3>1, <3>3
    <3>4. CASE m < k
      BY <3>4
    <3> QED BY <3>2, <3>3, <3>4
  <2> HIDE DEF T
  <2> QED BY <2>1, <2>2, SetInduction
<1>10. K \in Nat /\ K >= k + 1
  BY <1>1, <1>8
<1>11. Args(line)[K] = b
  <2>1. K \in T
    <3> HIDE DEF K, T
    <3> QED BY <1>9, <1>10
  <2> HIDE DEF K
  <2> QED BY <1>10, <2>1
<1>12. sdssplitargs(line) = [ok |-> Args(line)[K].mode = "words", argv |-> Args(line)[K].vector]
  BY DEF sdssplitargs, n
<1> HIDE DEF K
<1> QED BY <1>4, <1>11, <1>12

(* One string begins another, and what a string with something after it      *)
(* begins with.                                                              *)
Begins(s, line) == Len(s) <= Len(line) /\ \A q \in 1 .. Len(s) : line[q] = s[q]

(* A string begins whatever it is extended to.                               *)
LEMMA BeginsSelf ==
  ASSUME NEW s \in ByteStrings, NEW t \in ByteStrings
  PROVE  Begins(s, s \o t)
<1>1. Len(s) \in Nat /\ Len(t) \in Nat
  BY StringLength
<1>2. Len(s \o t) = Len(s) + Len(t) /\ \A q \in 1 .. Len(s) : (s \o t)[q] = s[q]
  BY StringsJoined
<1>3. Len(s) <= Len(s \o t)
  BY <1>1, <1>2
<1> QED BY <1>2, <1>3 DEF Begins

(* What begins the beginning of a line begins the line.                      *)
LEMMA BeginsOnward ==
  ASSUME NEW r \in ByteStrings, NEW s \in ByteStrings, NEW line \in ByteStrings,
         Begins(r, s), Begins(s, line)
  PROVE  Begins(r, line)
<1>1. Len(r) \in Nat /\ Len(s) \in Nat /\ Len(line) \in Nat
  BY StringLength
<1>2. Len(r) <= Len(s) /\ Len(s) <= Len(line)
  BY DEF Begins
<1>3. Len(r) <= Len(line)
  BY <1>1, <1>2
<1>4. ASSUME NEW q \in 1 .. Len(r) PROVE line[q] = r[q]
  <2>1. q \in 1 .. Len(s)
    BY <1>1, <1>2
  <2>2. s[q] = r[q]
    BY DEF Begins
  <2>3. line[q] = s[q]
    BY <2>1 DEF Begins
  <2> QED BY <2>2, <2>3
<1> QED BY <1>3, <1>4 DEF Begins

(* A line that begins with two strings has the second after the first.       *)
LEMMA WrittenAfter ==
  ASSUME NEW s \in ByteStrings, NEW t \in ByteStrings, NEW line \in ByteStrings,
         Begins(s \o t, line)
  PROVE  Written(line, Len(s) + 1, t)
<1> DEFINE m == Len(s)
           n == Len(t)
           u == s \o t
<1>1. m \in Nat /\ n \in Nat /\ Len(line) \in Nat
  BY StringLength
<1>2. u \in ByteStrings /\ Len(u) = m + n /\ \A q \in 1 .. n : u[m + q] = t[q]
  BY StringsJoined
<1>3. Len(u) <= Len(line) /\ \A q \in 1 .. Len(u) : line[q] = u[q]
  BY DEF Begins
<1> HIDE DEF m, n, u
<1>4. ASSUME NEW q \in 1 .. n PROVE Char(line, (m + 1) + q - 1) = t[q]
  <2> DEFINE p == (m + 1) + q - 1
  <2>1. p = m + q /\ p \in 1 .. Len(u) /\ p \in 1 .. Len(line)
    BY <1>1, <1>2, <1>3
  <2> HIDE DEF p
  <2>2. Char(line, p) = line[p]
    BY <2>1 DEF Char
  <2>3. line[p] = u[p]
    BY <1>3, <2>1
  <2>4. u[p] = t[q]
    BY <1>2, <2>1
  <2> QED BY <2>2, <2>3, <2>4 DEF p
<1> QED BY <1>4 DEF Written, m, n

(* What a character is written as is a short string.                         *)
LEMMA ReprIsString ==
  ASSUME NEW c \in Bytes
  PROVE  Repr(c) \in ByteStrings /\ Len(Repr(c)) \in Nat \ {0}
<1>1. \A b1 \in Bytes : << b1 >> \in ByteStrings /\ Len(<< b1 >>) = 1
  BY DEF ByteStrings
<1>2. \A b1, b2 \in Bytes : << b1, b2 >> \in ByteStrings /\ Len(<< b1, b2 >>) = 2
  BY DEF ByteStrings
<1>3. \A b1, b2, b3, b4 \in Bytes :
        << b1, b2, b3, b4 >> \in ByteStrings /\ Len(<< b1, b2, b3, b4 >>) = 4
  BY DEF ByteStrings
<1>4. Backslash \in Bytes /\ Lower(24) \in Bytes
  BY DEF Backslash, Lower, Bytes
<1>5. CASE c \in {Backslash, DQuote}
  <2>1. Repr(c) = << Backslash, c >>
    BY <1>5, ReprMeans
  <2> QED BY <1>2, <1>4, <2>1
<1>6. CASE c \notin {Backslash, DQuote} /\ IsEscaped(c)
  <2>1. Repr(c) = << Backslash, EscapeFor(c) >>
    BY <1>6, ReprMeans
  <2>2. EscapeFor(c) \in Bytes
    <3>1. EscapeFor(c) \in {97, 98, 110, 114, 116}
      BY <1>6, EscapesMean
    <3> QED BY <3>1 DEF Bytes
  <2> QED BY <1>2, <1>4, <2>1, <2>2
<1>7. CASE c \notin {Backslash, DQuote} /\ ~IsEscaped(c) /\ isprint(c)
  <2>1. Repr(c) = << c >>
    BY <1>7, ReprMeans
  <2> QED BY <1>1, <2>1
<1>8. CASE c \notin {Backslash, DQuote} /\ ~IsEscaped(c) /\ ~isprint(c)
  <2>1. Repr(c) = << Backslash, Lower(24), HexDigit(c \div 16), HexDigit(c % 16) >>
    BY <1>8, ReprMeans
  <2>2. HexDigit(c \div 16) \in Bytes /\ HexDigit(c % 16) \in Bytes
    BY HexIsByte, HexMeans
  <2> QED BY <1>3, <1>4, <2>1, <2>2
<1> QED BY <1>5, <1>6, <1>7, <1>8

(* The character that quotes is a string of its own.                         *)
LEMMA QuoteIsString == << DQuote >> \in ByteStrings /\ Len(<< DQuote >>) = 1
                       /\ << SP >> \in ByteStrings /\ Len(<< SP >>) = 1
BY DEF ByteStrings, Bytes, DQuote, SP

(* Quoting a text, character by character.                                   *)
LEMMA RepresentedSteps ==
  ASSUME NEW s \in ByteStrings, NEW text \in ByteStrings
  PROVE  /\ Represented(s, text)[0] = s \o << DQuote >>
         /\ \A k \in 0 .. Len(text) : Represented(s, text)[k] \in ByteStrings
         /\ \A k \in 1 .. Len(text) :
              Represented(s, text)[k] = Represented(s, text)[k - 1] \o Repr(text[k])
<1> DEFINE start == s \o << DQuote >>
           Def(f, k) == IF k = 0 THEN start ELSE f[k - 1] \o Repr(text[k])
           done == CHOOSE f : f = [k \in 0 .. Len(text) |-> Def(f, k)]
           n == Len(text)
           d == [k \in 1 .. n |-> [x \in ByteStrings |-> x \o Repr(text[k])]]
<1>1. Represented(s, text) = done
  BY DEF Represented
<1>2. start \in ByteStrings
  BY QuoteIsString, StringsJoined
<1>3. n \in Nat
  BY StringLength
<1>4. \A k \in 1 .. n : text[k] \in Bytes
  BY <1>3, ElementOfSeq DEF ByteStrings
<1> HIDE DEF start
<1>5. ASSUME NEW k \in 1 .. n, NEW x \in ByteStrings PROVE x \o Repr(text[k]) \in ByteStrings
  <2>1. Repr(text[k]) \in ByteStrings
    BY <1>4, ReprIsString
  <2> QED BY <2>1, StringsJoined
<1>6. /\ d \in StepsTo(ByteStrings, n)
      /\ \A k \in 1 .. n : \A x \in ByteStrings : d[k][x] = x \o Repr(text[k])
  BY <1>5 DEF StepsTo
<1> HIDE DEF d
<1>7. PICK g : FollowsTo(g, ByteStrings, start, d, n)
  BY <1>2, <1>3, <1>6, BoundedRecursion
<1>8. /\ g \in [0 .. n -> ByteStrings] /\ g[0] = start
      /\ \A k \in 1 .. n : g[k] = d[k][g[k - 1]]
  BY <1>7 DEF FollowsTo
<1>9. \A k \in 0 .. n : g[k] = Def(g, k)
  <2> TAKE k \in 0 .. n
  <2>1. CASE k = 0
    BY <1>8, <2>1
  <2>2. CASE k # 0
    <3>1. k \in 1 .. n /\ k - 1 \in 0 .. n
      BY <1>3, <2>2
    <3>2. g[k - 1] \in ByteStrings
      BY <1>8, <3>1
    <3>3. g[k] = d[k][g[k - 1]]
      BY <1>8, <3>1
    <3>4. d[k][g[k - 1]] = g[k - 1] \o Repr(text[k])
      BY <1>6, <3>1, <3>2
    <3> QED BY <2>2, <3>3, <3>4
  <2> QED BY <2>1, <2>2
<1> HIDE DEF Def
<1>10. g = [k \in 0 .. Len(text) |-> Def(g, k)]
  BY <1>8, <1>9
<1>11. done = [k \in 0 .. Len(text) |-> Def(done, k)]
  BY <1>10
<1> HIDE DEF done
<1>12. \A k \in 0 .. n : done[k] = Def(done, k)
  BY <1>11
<1> USE DEF Def
<1>13. done[0] = start
  BY <1>3, <1>12
<1>14. ASSUME NEW k \in 1 .. n PROVE done[k] = done[k - 1] \o Repr(text[k])
  <2>1. k \in 0 .. n /\ k # 0
    BY <1>3
  <2> QED BY <1>12, <2>1
<1> DEFINE T == {k \in Nat : k <= n => done[k] \in ByteStrings}
<1>15. 0 \in T
  BY <1>2, <1>13
<1>16. ASSUME NEW k \in Nat, k \in T PROVE k + 1 \in T
  <2> SUFFICES ASSUME k + 1 <= n PROVE done[k + 1] \in ByteStrings
    OBVIOUS
  <2>1. k + 1 \in 1 .. n /\ (k + 1) - 1 = k
    BY <1>3
  <2>2. done[k] \in ByteStrings
    BY <1>3, <1>16
  <2>3. done[k + 1] = done[k] \o Repr(text[k + 1])
    BY <1>14, <2>1
  <2> QED BY <1>5, <2>1, <2>2, <2>3
<1>17. Nat \subseteq T
  <2> HIDE DEF T
  <2> QED BY <1>15, <1>16, SetInduction
<1>18. \A k \in 0 .. n : done[k] \in ByteStrings
  BY <1>3, <1>17
<1> QED BY <1>1, <1>13, <1>14, <1>18 DEF start

(* A character after a string.                                               *)
LEMMA CharacterAdded ==
  ASSUME NEW s \in ByteStrings, NEW b \in Bytes
  PROVE  /\ Append(s, b) = s \o << b >> /\ Append(s, b) \in ByteStrings
         /\ Len(Append(s, b)) = Len(s) + 1
<1>1. << b >> \in ByteStrings /\ Len(<< b >>) = 1
  BY DEF ByteStrings
<1>2. Append(s, b) = s \o << b >>
  BY AppendIsConcat DEF ByteStrings
<1> QED BY <1>1, <1>2, StringsJoined

(* What sdscatrepr() returns.                                                *)
LEMMA QuotedText ==
  ASSUME NEW s \in ByteStrings, NEW text \in ByteStrings
  PROVE  /\ Represented(s, text)[Len(text)] \in ByteStrings
         /\ sdscatrepr(s, text) = Represented(s, text)[Len(text)] \o << DQuote >>
         /\ sdscatrepr(s, text) \in ByteStrings
         /\ Len(sdscatrepr(s, text)) = Len(Represented(s, text)[Len(text)]) + 1
<1> DEFINE r == Represented(s, text)[Len(text)]
<1>1. Len(text) \in 0 .. Len(text)
  <2>1. Len(text) \in Nat
    BY StringLength
  <2> QED BY <2>1
<1>2. r \in ByteStrings
  BY <1>1, RepresentedSteps
<1>3. sdscatrepr(s, text) = Append(r, DQuote)
  BY DEF sdscatrepr
<1>4. DQuote \in Bytes
  BY DEF DQuote, Bytes
<1> HIDE DEF r
<1>5. /\ Append(r, DQuote) = r \o << DQuote >> /\ Append(r, DQuote) \in ByteStrings
      /\ Len(Append(r, DQuote)) = Len(r) + 1
  BY <1>2, <1>4, CharacterAdded
<1> QED BY <1>2, <1>3, <1>5 DEF r

(* Quoting words, with a space between them.                                 *)
Lead(words, i) == IF i = 1 THEN << >> ELSE Append(Quoted(words)[i - 1], SP)

(* The line that quotes the words, word by word.                             *)
LEMMA QuotedSteps ==
  ASSUME NEW words, NEW n \in Nat, Len(words) = n, \A i \in 1 .. n : words[i] \in ByteStrings
  PROVE  /\ Quoted(words)[0] = << >>
         /\ \A i \in 0 .. n : Quoted(words)[i] \in ByteStrings
         /\ \A i \in 1 .. n : /\ Lead(words, i) \in ByteStrings
                              /\ Quoted(words)[i] = sdscatrepr(Lead(words, i), words[i])
<1> DEFINE none == << >>
           Step(x, i) == sdscatrepr(IF i = 1 THEN none ELSE Append(x, SP), words[i])
           Def(f, i) == IF i = 0 THEN none ELSE Step(f[i - 1], i)
           line == CHOOSE f : f = [i \in 0 .. Len(words) |-> Def(f, i)]
           d == [i \in 1 .. n |-> [x \in ByteStrings |-> Step(x, i)]]
<1>1. Quoted(words) = line
  BY DEF Quoted
<1>2. none \in ByteStrings
  BY EmptyString
<1> HIDE DEF none
<1>3. ASSUME NEW i \in 1 .. n, NEW x \in ByteStrings
      PROVE  /\ (IF i = 1 THEN none ELSE Append(x, SP)) \in ByteStrings
             /\ Step(x, i) \in ByteStrings
  <2>1. SP \in Bytes
    BY DEF SP, Bytes
  <2>2. Append(x, SP) \in ByteStrings
    BY <2>1, CharacterAdded
  <2>3. (IF i = 1 THEN none ELSE Append(x, SP)) \in ByteStrings
    BY <1>2, <2>2
  <2>4. words[i] \in ByteStrings
    OBVIOUS
  <2> QED BY <2>3, <2>4, QuotedText
<1>a. \A i \in 1 .. n : \A x : Step(x, i) = sdscatrepr(IF i = 1 THEN none ELSE Append(x, SP), words[i])
  OBVIOUS
<1> HIDE DEF Step
<1>4. /\ d \in StepsTo(ByteStrings, n)
      /\ \A i \in 1 .. n : \A x \in ByteStrings : d[i][x] = Step(x, i)
  BY <1>3 DEF StepsTo
<1> HIDE DEF d
<1>5. PICK g : FollowsTo(g, ByteStrings, none, d, n)
  BY <1>2, <1>4, BoundedRecursion
<1>6. /\ g \in [0 .. n -> ByteStrings] /\ g[0] = none
      /\ \A i \in 1 .. n : g[i] = d[i][g[i - 1]]
  BY <1>5 DEF FollowsTo
<1>7. \A i \in 0 .. n : g[i] = Def(g, i)
  <2> TAKE i \in 0 .. n
  <2>1. CASE i = 0
    BY <1>6, <2>1
  <2>2. CASE i # 0
    <3>1. i \in 1 .. n /\ i - 1 \in 0 .. n
      BY <2>2
    <3>2. g[i - 1] \in ByteStrings
      BY <1>6, <3>1
    <3>3. g[i] = d[i][g[i - 1]]
      BY <1>6, <3>1
    <3>4. d[i][g[i - 1]] = Step(g[i - 1], i)
      BY <1>4, <3>1, <3>2
    <3> QED BY <2>2, <3>3, <3>4
  <2> QED BY <2>1, <2>2
<1> HIDE DEF Def
<1>8. g = [i \in 0 .. Len(words) |-> Def(g, i)]
  BY <1>6, <1>7
<1>9. line = [i \in 0 .. Len(words) |-> Def(line, i)]
  BY <1>8
<1> HIDE DEF line
<1>10. \A i \in 0 .. n : line[i] = Def(line, i)
  BY <1>9
<1> USE DEF Def
<1>11. line[0] = none
  BY <1>10
<1>12. ASSUME NEW i \in 1 .. n PROVE line[i] = Step(line[i - 1], i)
  <2>1. i \in 0 .. n /\ i # 0
    OBVIOUS
  <2> QED BY <1>10, <2>1
<1> DEFINE T == {i \in Nat : i <= n => line[i] \in ByteStrings}
<1>13. 0 \in T
  BY <1>2, <1>11
<1>14. ASSUME NEW i \in Nat, i \in T PROVE i + 1 \in T
  <2> SUFFICES ASSUME i + 1 <= n PROVE line[i + 1] \in ByteStrings
    OBVIOUS
  <2>1. i + 1 \in 1 .. n /\ (i + 1) - 1 = i
    OBVIOUS
  <2>2. line[i] \in ByteStrings
    BY <1>14
  <2>3. line[i + 1] = Step(line[i], i + 1)
    BY <1>12, <2>1
  <2> QED BY <1>3, <2>1, <2>2, <2>3
<1>15. Nat \subseteq T
  <2> HIDE DEF T
  <2> QED BY <1>13, <1>14, SetInduction
<1>16. \A i \in 0 .. n : line[i] \in ByteStrings
  BY <1>15
<1>17. ASSUME NEW i \in 1 .. n
       PROVE  /\ Lead(words, i) \in ByteStrings
              /\ line[i] = sdscatrepr(Lead(words, i), words[i])
  <2>1. Lead(words, i) = IF i = 1 THEN none ELSE Append(line[i - 1], SP)
    BY <1>1 DEF Lead, none
  <2>2. line[i - 1] \in ByteStrings
    <3>1. i - 1 \in 0 .. n
      OBVIOUS
    <3> QED BY <1>16, <3>1
  <2>3. Lead(words, i) \in ByteStrings
    BY <1>3, <2>1, <2>2
  <2>4. line[i] = Step(line[i - 1], i)
    BY <1>12
  <2> QED BY <1>a, <2>1, <2>3, <2>4
<1> QED BY <1>1, <1>11, <1>16, <1>17 DEF none

(* The first words of a list, and one more.                                  *)
LEMMA OneMore ==
  ASSUME NEW S, NEW list \in Seq(S), NEW k \in 1 .. Len(list)
  PROVE  SubSeq(list, 1, k) = Append(SubSeq(list, 1, k - 1), list[k])
<1>1. Len(list) \in Nat /\ k \in 1 .. Len(list) /\ 1 \in 1 .. Len(list) /\ k - 1 \in Int
  BY LenProperties
<1>2. SubSeq(list, 1, k) = SubSeq(list, 1, k - 1) \o << list[k] >>
  BY <1>1, SubSeqRecursiveSecond
<1>3. \A i \in 1 .. Len(list) : list[i] \in S
  BY ElementOfSeq
<1>4. \A i \in 1 .. k - 1 : i \in 1 .. Len(list)
  BY <1>1
<1>5. SubSeq(list, 1, k - 1) \in Seq(S) /\ list[k] \in S
  <2>1. \A i \in 1 .. k - 1 : list[i] \in S
    BY <1>3, <1>4
  <2> QED BY <1>1, <1>3, <2>1, SubSeqProperties
<1>6. Append(SubSeq(list, 1, k - 1), list[k]) = SubSeq(list, 1, k - 1) \o << list[k] >>
  <2> DEFINE front == SubSeq(list, 1, k - 1)
  <2> HIDE DEF front
  <2>1. front \in Seq(S)
    BY <1>5 DEF front
  <2>2. Append(front, list[k]) = front \o << list[k] >>
    BY <1>5, <2>1, AppendIsConcat
  <2> QED BY <2>2 DEF front
<1> QED BY <1>2, <1>6

(* Reading a word that was quoted: from where its opening quotes are to where*)
(* the closing ones were.                                                    *)
LEMMA WordRead ==
  ASSUME NEW line \in ByteStrings, NEW s \in ByteStrings, NEW word \in ByteStrings, NEW vector,
         Begins(sdscatrepr(s, word), line),
         Char(line, Len(sdscatrepr(s, word)) + 1) \in {SP, NUL},
         Reached(line, Reading("blanks", Len(s) + 1, << >>, vector))
  PROVE  Reached(line, Reading("blanks", Len(sdscatrepr(s, word)) + 1, << >>, Append(vector, word)))
<1> DEFINE R == Represented(s, word)
           n == Len(word)
           quoted == sdscatrepr(s, word)
           In(m) == Reached(line, Reading("quotes", Len(R[m]) + 1, SubSeq(word, 1, m), vector))
           none == << >>
<1>1. n \in Nat
  BY StringLength
<1>2. /\ R[0] = s \o << DQuote >>
      /\ \A k \in 0 .. n : R[k] \in ByteStrings
      /\ \A k \in 1 .. n : R[k] = R[k - 1] \o Repr(word[k])
  BY RepresentedSteps
<1>3. /\ R[n] \in ByteStrings /\ quoted = R[n] \o << DQuote >> /\ quoted \in ByteStrings
      /\ Len(quoted) = Len(R[n]) + 1
  BY QuotedText
<1>4. Begins(quoted, line) /\ Char(line, Len(quoted) + 1) \in {SP, NUL}
  OBVIOUS
<1>5. Reached(line, Reading("blanks", Len(s) + 1, none, vector))
  OBVIOUS
<1>6. \A k \in 1 .. n : word[k] \in Bytes
  BY <1>1, ElementOfSeq DEF ByteStrings
<1>7. SubSeq(word, 1, 0) = none
  BY SubSeqEmpty
<1>8. SubSeq(word, 1, n) = word
  BY WholePiece
<1>9. \A k \in 1 .. n : SubSeq(word, 1, k) = Append(SubSeq(word, 1, k - 1), word[k])
  BY OneMore DEF ByteStrings
<1>10. Len(s) \in Nat
  BY StringLength
<1> HIDE DEF R, n, quoted, none
<1>11. \A k \in Nat : k <= n => Begins(R[n - k], line)
  <2> DEFINE T == {k \in Nat : k <= n => Begins(R[n - k], line)}
  <2>1. 0 \in T
    <3>1. Begins(R[n], quoted)
      BY <1>3, BeginsSelf, QuoteIsString
    <3>2. Begins(R[n], line)
      BY <1>3, <1>4, <3>1, BeginsOnward
    <3>3. n - 0 = n
      BY <1>1
    <3> QED BY <3>2, <3>3
  <2>2. ASSUME NEW k \in Nat, k \in T PROVE k + 1 \in T
    <3> SUFFICES ASSUME k + 1 <= n PROVE Begins(R[n - (k + 1)], line)
      OBVIOUS
    <3> DEFINE m == n - k
    <3>1. m \in 1 .. n /\ m \in 0 .. n /\ m - 1 \in 0 .. n /\ n - (k + 1) = m - 1 /\ k <= n
      BY <1>1
    <3>2. Begins(R[m], line)
      BY <2>2, <3>1
    <3> HIDE DEF m
    <3>3. R[m] = R[m - 1] \o Repr(word[m]) /\ R[m] \in ByteStrings /\ R[m - 1] \in ByteStrings
      BY <1>2, <3>1
    <3>4. Repr(word[m]) \in ByteStrings
      BY <1>6, <3>1, ReprIsString
    <3>5. Begins(R[m - 1], R[m])
      BY <3>3, <3>4, BeginsSelf
    <3>6. Begins(R[m - 1], line)
      BY <3>2, <3>3, <3>5, BeginsOnward
    <3> QED BY <3>1, <3>6
  <2>3. Nat \subseteq T
    <3> HIDE DEF T
    <3> QED BY <2>1, <2>2, SetInduction
  <2> QED BY <2>3
<1>12. \A m \in 0 .. n : Begins(R[m], line)
  <2> TAKE m \in 0 .. n
  <2>1. n - m \in Nat /\ n - m <= n /\ n - (n - m) = m
    BY <1>1
  <2> QED BY <1>11, <2>1
<1>13. In(0)
  <2>1. Written(line, Len(s) + 1, << DQuote >>)
    <3>1. Begins(s \o << DQuote >>, line)
      <4>1. 0 \in 0 .. n
        BY <1>1
      <4> QED BY <1>2, <1>12, <4>1
    <3> QED BY <3>1, WrittenAfter, QuoteIsString
  <2>2. Char(line, Len(s) + 1) = DQuote
    <3>1. Len(s) + 1 + 1 - 1 = Len(s) + 1
      BY <1>10
    <3>2. 1 \in 1 .. Len(<< DQuote >>) /\ << DQuote >>[1] = DQuote
      OBVIOUS
    <3>3. Char(line, Len(s) + 1 + 1 - 1) = DQuote
      BY <2>1, <3>2 DEF Written
    <3> QED BY <3>1, <3>3
  <2> DEFINE p == Len(s) + 1
  <2>3. p \in Nat \ {0}
    BY <1>10
  <2>4. Len(R[0]) = p
    BY <1>2, QuoteIsString, StringsJoined
  <2>5. Char(line, p) = DQuote /\ Reached(line, Reading("blanks", p, none, vector))
    BY <1>5, <2>2
  <2> HIDE DEF p
  <2>6. Reached(line, Reading("quotes", p + 1, none, vector))
    BY <2>3, <2>5, QuotesOpened
  <2> QED BY <1>7, <2>4, <2>6
<1>14. ASSUME NEW m \in Nat, m + 1 <= n, In(m) PROVE In(m + 1)
  <2> DEFINE k == m + 1
             c == word[k]
             p == Len(R[m]) + 1
             before == SubSeq(word, 1, m)
  <2>1. k \in 1 .. n /\ k - 1 = m /\ m \in 0 .. n /\ k \in 0 .. n
    BY <1>1, <1>14
  <2>2. Reached(line, Reading("quotes", p, before, vector))
    BY <1>14
  <2>3. SubSeq(word, 1, k) = Append(before, c)
    BY <1>9, <2>1
  <2>4. c \in Bytes
    BY <1>6, <2>1
  <2>5. R[k] = R[m] \o Repr(c) /\ R[m] \in ByteStrings /\ R[k] \in ByteStrings /\ Begins(R[k], line)
    BY <1>2, <1>12, <2>1
  <2> HIDE DEF k, c, before
  <2>6. Repr(c) \in ByteStrings /\ Len(Repr(c)) \in Nat \ {0}
    BY <2>4, ReprIsString
  <2>7. Written(line, p, Repr(c))
    BY <2>5, <2>6, WrittenAfter
  <2>8. Len(R[m]) \in Nat
    BY <2>5, StringLength
  <2>9. p \in Nat \ {0}
    BY <2>8
  <2>10. Len(R[k]) = Len(R[m]) + Len(Repr(c))
    BY <2>5, <2>6, StringsJoined
  <2> DEFINE l == Len(Repr(c))
             q == Len(R[m])
  <2>11. Len(R[k]) + 1 = p + l
    <3>1. l \in Nat /\ q \in Nat /\ Len(R[k]) = q + l
      BY <2>6, <2>8, <2>10
    <3> HIDE DEF l, q
    <3>2. Len(R[k]) + 1 = (q + 1) + l
      BY <3>1
    <3> QED BY <3>2 DEF q
  <2> HIDE DEF p
  <2>12. Reached(line, Reading("quotes", p + l, Append(before, c), vector))
    BY <2>2, <2>4, <2>6, <2>7, <2>9, CharacterRead
  <2> HIDE DEF l
  <2>13. Reached(line, Reading("quotes", Len(R[k]) + 1, SubSeq(word, 1, k), vector))
    BY <2>3, <2>11, <2>12
  <2> QED BY <2>13 DEF k
<1>15. In(n)
  <2> DEFINE T == {m \in Nat : m <= n => In(m)}
  <2>1. 0 \in T
    BY <1>13
  <2>2. ASSUME NEW m \in Nat, m \in T PROVE m + 1 \in T
    <3> SUFFICES ASSUME m + 1 <= n PROVE In(m + 1)
      OBVIOUS
    <3>1. m <= n
      BY <1>1
    <3>2. In(m)
      BY <2>2, <3>1
    <3> HIDE DEF In
    <3> QED BY <1>14, <3>2
  <2>3. Nat \subseteq T
    <3> HIDE DEF T
    <3> QED BY <2>1, <2>2, SetInduction
  <2> HIDE DEF In
  <2> QED BY <1>1, <2>3
<1>16. Reached(line, Reading("blanks", Len(quoted) + 1, << >>, Append(vector, word)))
  <2> DEFINE p == Len(R[n]) + 1
  <2>1. Len(R[n]) \in Nat
    BY <1>3, StringLength
  <2>2. p \in Nat \ {0} /\ Len(quoted) = p
    BY <1>3, <2>1
  <2>3. Reached(line, Reading("quotes", p, word, vector))
    BY <1>8, <1>15
  <2>4. Written(line, p, << DQuote >>)
    <3>1. Begins(R[n] \o << DQuote >>, line)
      BY <1>3, <1>4
    <3> QED BY <1>3, <3>1, WrittenAfter, QuoteIsString
  <2> HIDE DEF p
  <2>5. Char(line, p) = DQuote
    <3>1. p + 1 - 1 = p
      BY <2>2
    <3>2. 1 \in 1 .. Len(<< DQuote >>) /\ << DQuote >>[1] = DQuote
      OBVIOUS
    <3>3. Char(line, p + 1 - 1) = DQuote
      BY <2>4, <3>2 DEF Written
    <3> QED BY <3>1, <3>3
  <2>6. Char(line, p + 1) \in {SP, NUL}
    BY <1>4, <2>2
  <2>7. Reached(line, Reading("blanks", p + 1, << >>, Append(vector, word)))
    BY <2>2, <2>3, <2>5, <2>6, QuotesAreClosed
  <2> QED BY <2>2, <2>7
<1> QED BY <1>16 DEF quoted

(* Reading all the words that were quoted.                                   *)
LEMMA WordsRead ==
  ASSUME NEW words \in Seq(ByteStrings)
  PROVE  sdssplitargs(Quoted(words)[Len(words)]) = [ok |-> TRUE, argv |-> words]
<1> DEFINE n == Len(words)
           Q == Quoted(words)
           line == Q[n]
           Upto(i) == SubSeq(words, 1, i)
           In(i) == Reached(line, Reading("blanks", Len(Q[i]) + 1, << >>, Upto(i)))
           none == << >>
<1>1. n \in Nat /\ \A i \in 1 .. n : words[i] \in ByteStrings
  BY LenProperties, ElementOfSeq
<1>2. /\ Q[0] = none
      /\ \A i \in 0 .. n : Q[i] \in ByteStrings
      /\ \A i \in 1 .. n : Lead(words, i) \in ByteStrings /\ Q[i] = sdscatrepr(Lead(words, i), words[i])
  BY <1>1, QuotedSteps
<1>3. /\ \A i \in 1 .. n : Upto(i) = Append(Upto(i - 1), words[i])
      /\ Upto(n) = words
  BY <1>1, OneMore, SubSeqFull
<1>4. Upto(0) = none
  BY SubSeqEmpty
<1>5. \A i \in 1 .. n : i # 1 => Lead(words, i) = Append(Q[i - 1], SP)
  BY DEF Lead
<1>6. Lead(words, 1) = none
  BY DEF Lead
<1>7. n \in 0 .. n /\ 0 \in 0 .. n
  BY <1>1
<1>8. line \in ByteStrings
  BY <1>2, <1>7
<1>9. none \in ByteStrings /\ Len(none) = 0
  BY EmptyString
<1>10. SP \in Bytes /\ << SP >> \in ByteStrings
  BY QuoteIsString DEF SP, Bytes
<1> HIDE DEF n, Q, Upto
(* What follows the word before, and what each line begins with.             *)
<1>11. ASSUME NEW i \in 1 .. n, i # 1
       PROVE  /\ Lead(words, i) = Q[i - 1] \o << SP >>
              /\ Len(Lead(words, i)) = Len(Q[i - 1]) + 1
              /\ Begins(Lead(words, i), Q[i])
  <2> DEFINE k == i - 1
             lead == Lead(words, i)
             R == Represented(lead, words[i])
             m == Len(words[i])
  <2>1. k \in 0 .. n
    BY <1>1
  <2>2. Q[k] \in ByteStrings
    BY <1>2, <2>1
  <2>3. lead = Append(Q[k], SP)
    BY <1>5, <1>11
  <2>4. lead \in ByteStrings /\ Q[i] = sdscatrepr(lead, words[i]) /\ words[i] \in ByteStrings
    BY <1>1, <1>2
  <2> HIDE DEF k, lead
  <2>5. lead = Q[k] \o << SP >> /\ Len(lead) = Len(Q[k]) + 1
    BY <1>10, <2>2, <2>3, CharacterAdded
  <2>6. /\ R[0] = lead \o << DQuote >>
        /\ \A j \in 0 .. m : R[j] \in ByteStrings
        /\ \A j \in 1 .. m : R[j] = R[j - 1] \o Repr(words[i][j])
    BY <2>4, RepresentedSteps
  <2>7. m \in Nat /\ \A j \in 1 .. m : words[i][j] \in Bytes
    <3>1. m \in Nat
      BY <2>4, StringLength
    <3> QED BY <2>4, <3>1, ElementOfSeq DEF ByteStrings
  <2>8. R[m] \in ByteStrings /\ Q[i] = R[m] \o << DQuote >> /\ Q[i] \in ByteStrings
    BY <2>4, QuotedText
  <2> HIDE DEF R, m
  <2> DEFINE T == {j \in Nat : j <= m => Begins(lead, R[j])}
  <2>9. 0 \in T
    <3>1. Begins(lead, R[0])
      BY <2>4, <2>6, BeginsSelf, QuoteIsString
    <3> QED BY <3>1
  <2>10. ASSUME NEW j \in Nat, j \in T PROVE j + 1 \in T
    <3> SUFFICES ASSUME j + 1 <= m PROVE Begins(lead, R[j + 1])
      OBVIOUS
    <3> DEFINE l == j + 1
    <3>1. l \in 1 .. m /\ l - 1 = j /\ j \in 0 .. m /\ l \in 0 .. m /\ j <= m
      BY <2>7
    <3>2. Begins(lead, R[j])
      BY <2>10, <3>1
    <3> HIDE DEF l
    <3>3. R[l] = R[j] \o Repr(words[i][l]) /\ R[l] \in ByteStrings /\ R[j] \in ByteStrings
      BY <2>6, <3>1
    <3>4. Repr(words[i][l]) \in ByteStrings
      BY <2>7, <3>1, ReprIsString
    <3>5. Begins(R[j], R[l])
      BY <3>3, <3>4, BeginsSelf
    <3>6. Begins(lead, R[l])
      BY <2>4, <3>2, <3>3, <3>5, BeginsOnward
    <3> QED BY <3>6 DEF l
  <2>11. Nat \subseteq T
    <3> HIDE DEF T
    <3> QED BY <2>9, <2>10, SetInduction
  <2>12. Begins(lead, R[m])
    BY <2>7, <2>11
  <2>13. Begins(R[m], Q[i])
    BY <2>8, BeginsSelf, QuoteIsString
  <2>14. Begins(lead, Q[i])
    BY <2>4, <2>8, <2>12, <2>13, BeginsOnward
  <2> QED BY <2>5, <2>14 DEF k, lead
<1>12. \A k \in Nat : k <= n => Begins(Q[n - k], line)
  <2> DEFINE T == {k \in Nat : k <= n => Begins(Q[n - k], line)}
  <2>1. 0 \in T
    <3>1. n - 0 = n
      BY <1>1
    <3>2. Begins(line, line)
      <4>1. line \in ByteStrings /\ << >> \in ByteStrings
        BY <1>8, <1>9, EmptyString
      <4>2. line \o << >> = line
        BY <4>1, StringsJoined, Zenon
      <4>3. Begins(line, line \o << >>)
        BY <4>1, BeginsSelf, Zenon
      <4> QED BY <4>2, <4>3, Zenon
    <3> QED BY <3>1, <3>2
  <2>2. ASSUME NEW k \in Nat, k \in T PROVE k + 1 \in T
    <3> SUFFICES ASSUME k + 1 <= n PROVE Begins(Q[n - (k + 1)], line)
      OBVIOUS
    <3> DEFINE i == n - k
    <3>1. i \in 1 .. n /\ i \in 0 .. n /\ i - 1 \in 0 .. n /\ n - (k + 1) = i - 1 /\ k <= n
      BY <1>1
    <3>2. Begins(Q[i], line)
      BY <2>2, <3>1
    <3> HIDE DEF i, line
    <3>3. Q[i] \in ByteStrings /\ Q[i - 1] \in ByteStrings /\ Lead(words, i) \in ByteStrings
      BY <1>2, <3>1
    <3>4. CASE i = 1
      <4>1. Q[i - 1] = none
        BY <1>2, <3>4
      <4>2. Begins(none, line)
        <5>1. Len(line) \in Nat
          BY <1>8, StringLength
        <5> HIDE DEF none
        <5> QED BY <1>9, <5>1 DEF Begins
      <4> QED BY <3>1, <4>1, <4>2
    <3>5. CASE i # 1
      <4>1. Lead(words, i) = Q[i - 1] \o << SP >> /\ Begins(Lead(words, i), Q[i])
        BY <1>11, <3>1, <3>5
      <4>2. Begins(Q[i - 1], Lead(words, i))
        BY <1>10, <3>3, <4>1, BeginsSelf
      <4>3. Begins(Q[i - 1], Q[i])
        BY <3>3, <4>1, <4>2, BeginsOnward
      <4>4. Begins(Q[i - 1], line)
        BY <1>8, <3>2, <3>3, <4>3, BeginsOnward
      <4> QED BY <3>1, <4>4
    <3> QED BY <3>4, <3>5
  <2>3. Nat \subseteq T
    <3> HIDE DEF T
    <3> QED BY <2>1, <2>2, SetInduction
  <2> QED BY <2>3
<1>13. \A i \in 0 .. n : Begins(Q[i], line)
  <2> TAKE i \in 0 .. n
  <2>1. n - i \in Nat /\ n - i <= n /\ n - (n - i) = i
    BY <1>1
  <2> HIDE DEF line
  <2> QED BY <1>12, <2>1
(* After each word there is a space or the end of the line.                  *)
<1>14. \A i \in 1 .. n : i # 1 => Char(line, Len(Q[i - 1]) + 1) = SP
  <2> SUFFICES ASSUME NEW i \in 1 .. n, i # 1 PROVE Char(line, Len(Q[i - 1]) + 1) = SP
    OBVIOUS
  <2> DEFINE k == i - 1
  <2>1. k \in 0 .. n /\ i \in 0 .. n
    BY <1>1
  <2>2. Q[k] \in ByteStrings /\ Q[i] \in ByteStrings /\ Lead(words, i) \in ByteStrings
    BY <1>2, <2>1
  <2>3. Lead(words, i) = Q[k] \o << SP >> /\ Begins(Lead(words, i), Q[i])
    BY <1>11
  <2>4. Begins(Q[i], line)
    BY <1>13, <2>1
  <2> HIDE DEF k, line
  <2>5. Begins(Q[k] \o << SP >>, line)
    BY <1>8, <2>2, <2>3, <2>4, BeginsOnward
  <2>6. Written(line, Len(Q[k]) + 1, << SP >>)
    BY <1>8, <1>10, <2>2, <2>5, WrittenAfter
  <2>7. 1 \in 1 .. Len(<< SP >>) /\ << SP >>[1] = SP
    OBVIOUS
  <2>8. Char(line, Len(Q[k]) + 1 + 1 - 1) = SP
    BY <2>6, <2>7 DEF Written
  <2>9. Len(Q[k]) + 1 + 1 - 1 = Len(Q[k]) + 1
    BY <2>2, StringLength
  <2> QED BY <2>8, <2>9 DEF k
<1>15. Char(line, Len(line) + 1) = NUL
  <2> DEFINE p == Len(line) + 1
  <2>1. p \notin 1 .. Len(line)
    <3>1. Len(line) \in Nat
      BY <1>8, StringLength
    <3> QED BY <3>1
  <2> HIDE DEF p
  <2>2. Char(line, p) = NUL
    BY <2>1 DEF Char
  <2> QED BY <2>2 DEF p
<1>16. \A i \in 1 .. n : Char(line, Len(Q[i]) + 1) \in {SP, NUL}
  <2> TAKE i \in 1 .. n
  <2>1. CASE i = n
    BY <1>15, <2>1
  <2>2. CASE i # n
    <3>1. i + 1 \in 1 .. n /\ i + 1 # 1 /\ (i + 1) - 1 = i
      BY <1>1, <2>2
    <3> QED BY <1>14, <3>1
  <2> QED BY <2>1, <2>2
<1> HIDE DEF line
<1>17. In(0)
  <2>1. Args(line)[0] = Reading("blanks", 1, none, none)
    BY <1>8, ArgsSteps DEF FirstReading
  <2>2. Weight(Reading("blanks", 1, none, none)) = 0
    <3> HIDE DEF none
    <3>1. Weight(Reading("blanks", 1, none, none)) = 2 * 1 - 2
      BY Fields
    <3> QED BY <3>1
  <2>3. Reached(line, Reading("blanks", 1, none, none))
    <3> HIDE DEF none
    <3> QED BY <2>1, <2>2 DEF Reached
  <2>4. Len(Q[0]) + 1 = 1
    BY <1>2, <1>9
  <2> QED BY <1>4, <2>3, <2>4
<1>18. ASSUME NEW j \in Nat, j + 1 <= n, In(j) PROVE In(j + 1)
  <2> DEFINE i == j + 1
             lead == Lead(words, i)
             word == words[i]
             vector == Upto(j)
  <2>1. i \in 1 .. n /\ i - 1 = j /\ i \in 0 .. n /\ j \in 0 .. n
    BY <1>1, <1>18
  <2>2. Upto(i) = Append(vector, word)
    BY <1>3, <2>1
  <2>3. Reached(line, Reading("blanks", Len(Q[j]) + 1, none, vector))
    BY <1>18
  <2> HIDE DEF i, vector
  <2>4. lead \in ByteStrings /\ word \in ByteStrings /\ Q[i] = sdscatrepr(lead, word)
    BY <1>1, <1>2, <2>1
  <2>5. Begins(sdscatrepr(lead, word), line) /\ Char(line, Len(sdscatrepr(lead, word)) + 1) \in {SP, NUL}
    BY <1>13, <1>16, <2>1, <2>4
  <2>6. Reached(line, Reading("blanks", Len(lead) + 1, none, vector))
    <3>1. CASE i = 1
      <4>1. j = 0
        BY <2>1, <3>1
      <4>2. lead = none /\ Q[j] = none
        BY <1>2, <1>6, <3>1, <4>1
      <4> QED BY <2>3, <4>2
    <3>2. CASE i # 1
      <4>1. Len(lead) = Len(Q[j]) + 1
        BY <1>11, <2>1, <3>2
      <4>2. Char(line, Len(Q[j]) + 1) = SP
        BY <1>14, <2>1, <3>2
      <4> DEFINE p == Len(Q[j]) + 1
      <4>3. p \in Nat \ {0}
        <5>1. Len(Q[j]) \in Nat
          BY <1>2, <2>1, StringLength
        <5> QED BY <5>1
      <4> HIDE DEF none
      <4>4. Char(line, p) = SP /\ Reached(line, Reading("blanks", p, none, vector))
        BY <2>3, <4>2
      <4>5. Len(lead) = p
        BY <4>1
      <4> HIDE DEF p, lead
      <4>6. Reached(line, Reading("blanks", p + 1, none, vector))
        BY <1>8, <4>3, <4>4, SpaceSkipped
      <4> QED BY <4>5, <4>6
    <3> QED BY <3>1, <3>2
  <2> HIDE DEF lead, word
  <2>7. Reached(line, Reading("blanks", Len(sdscatrepr(lead, word)) + 1, none, Append(vector, word)))
    BY <1>8, <2>4, <2>5, <2>6, WordRead
  <2>8. In(i)
    BY <2>2, <2>4, <2>7
  <2> QED BY <2>8 DEF i
<1>19. In(n)
  <2> DEFINE T == {i \in Nat : i <= n => In(i)}
  <2>1. 0 \in T
    BY <1>17
  <2>2. ASSUME NEW i \in Nat, i \in T PROVE i + 1 \in T
    <3> SUFFICES ASSUME i + 1 <= n PROVE In(i + 1)
      OBVIOUS
    <3>1. i <= n
      BY <1>1
    <3>2. In(i)
      BY <2>2, <3>1
    <3> HIDE DEF In
    <3> QED BY <1>18, <3>2
  <2>3. Nat \subseteq T
    <3> HIDE DEF T
    <3> QED BY <2>1, <2>2, SetInduction
  <2> HIDE DEF In
  <2> QED BY <1>1, <2>3
<1>20. Reached(line, Reading("blanks", Len(line) + 1, none, words))
  BY <1>3, <1>19 DEF line
<1>21. sdssplitargs(line) = [ok |-> TRUE, argv |-> words]
  <2> HIDE DEF none
  <2> QED BY <1>8, <1>20, LineEnds
<1> QED BY <1>21 DEF line, Q, n

-----------------------------------------------------------------------------
(* Patterns.  A pattern that is written from items is laid out place by      *)
(* place; each of the loops of strmatch() is followed over what one item or  *)
(* one element is written as; and the matches of the whole are found from    *)
(* its last item to its first.                                               *)
ByteLists == Seq(ByteStrings)

(* A list of strings has a length, and its members are strings.              *)
LEMMA ListOfStrings ==
  ASSUME NEW texts \in ByteLists
  PROVE  Len(texts) \in Nat /\ \A i \in 1 .. Len(texts) : texts[i] \in ByteStrings
BY LenProperties, ElementOfSeq DEF ByteLists

(* Joining a list of strings, one after the other.                           *)
JoinSteps(texts, text, n) ==
  /\ text \in [0 .. n -> ByteStrings] /\ text[0] = << >>
  /\ \A k \in 1 .. n : text[k] = text[k - 1] \o texts[k]

(* Concatenated() joins so.                                                 *)
LEMMA ConcatenatedSteps ==
  ASSUME NEW texts \in ByteLists
  PROVE  \E text : JoinSteps(texts, text, Len(texts)) /\ Concatenated(texts) = text[Len(texts)]
<1> DEFINE Def(f, k) == IF k = 0 THEN << >> ELSE f[k - 1] \o texts[k]
           done == CHOOSE f : f = [k \in 0 .. Len(texts) |-> Def(f, k)]
           n == Len(texts)
           d == [k \in 1 .. n |-> [x \in ByteStrings |-> x \o texts[k]]]
<1>1. Concatenated(texts) = done[n]
  BY DEF Concatenated
<1>2. n \in Nat /\ \A k \in 1 .. n : texts[k] \in ByteStrings
  BY ListOfStrings
<1>3. \A k \in 1 .. n : \A x \in ByteStrings : x \o texts[k] \in ByteStrings
  BY <1>2, StringsJoined
<1>4. d \in StepsTo(ByteStrings, n) /\ \A k \in 1 .. n : \A x \in ByteStrings : d[k][x] = x \o texts[k]
  BY <1>3 DEF StepsTo
<1> HIDE DEF d
<1>5. PICK g : FollowsTo(g, ByteStrings, << >>, d, n)
  BY <1>2, <1>4, EmptyString, BoundedRecursion
<1>6. /\ g \in [0 .. n -> ByteStrings] /\ g[0] = << >>
      /\ \A k \in 1 .. n : g[k] = d[k][g[k - 1]]
  BY <1>5 DEF FollowsTo
<1>7. \A k \in 1 .. n : g[k] = g[k - 1] \o texts[k]
  <2> TAKE k \in 1 .. n
  <2>1. k - 1 \in 0 .. n
    BY <1>2
  <2>2. g[k - 1] \in ByteStrings
    BY <1>6, <2>1
  <2> QED BY <1>4, <1>6, <2>2
<1>8. \A k \in 0 .. n : g[k] = Def(g, k)
  <2> TAKE k \in 0 .. n
  <2>1. k # 0 => k \in 1 .. n
    BY <1>2
  <2> QED BY <1>6, <1>7, <2>1
<1> HIDE DEF Def
<1>9. g = [k \in 0 .. n |-> Def(g, k)]
  BY <1>6, <1>8
<1>10. done = [k \in 0 .. n |-> Def(done, k)]
  BY <1>9
<1> HIDE DEF done
<1>11. \A k \in 0 .. n : done[k] = Def(done, k)
  BY <1>10
<1> USE DEF Def
<1>12. done[0] = << >> /\ \A k \in 1 .. n : done[k] = done[k - 1] \o texts[k]
  <2>1. 0 \in 0 .. n /\ \A k \in 1 .. n : k \in 0 .. n /\ k # 0
    BY <1>2
  <2> QED BY <1>11, <2>1
<1> DEFINE T == {k \in Nat : k <= n => done[k] = g[k]}
<1>13. 0 \in T
  BY <1>6, <1>12
<1>14. ASSUME NEW k \in Nat, k \in T PROVE k + 1 \in T
  <2> SUFFICES ASSUME k + 1 <= n PROVE done[k + 1] = g[k + 1]
    OBVIOUS
  <2>1. k + 1 \in 1 .. n /\ (k + 1) - 1 = k
    BY <1>2
  <2>2. done[k] = g[k]
    BY <1>2, <1>14
  <2> QED BY <1>7, <1>12, <2>1, <2>2
<1>15. Nat \subseteq T
  <2> HIDE DEF T
  <2> QED BY <1>13, <1>14, SetInduction
<1>16. done[n] = g[n]
  BY <1>2, <1>15
<1>17. JoinSteps(texts, g, n)
  BY <1>6, <1>7 DEF JoinSteps
<1> QED BY <1>1, <1>16, <1>17

(* Where each of the strings lies in the line that they make up.             *)
Laid(texts, line, at) ==
  /\ at \in [1 .. Len(texts) + 1 -> Nat]
  /\ at[1] = 1 /\ at[Len(texts) + 1] = Len(line) + 1
  /\ \A i \in 1 .. Len(texts) : /\ at[i + 1] = at[i] + Len(texts[i])
                                /\ Written(line, at[i], texts[i])

(* Every list of strings is laid out so.                                     *)
LEMMA ConcatenatedLaid ==
  ASSUME NEW texts \in ByteLists
  PROVE  /\ Concatenated(texts) \in ByteStrings
         /\ \E at : Laid(texts, Concatenated(texts), at)
<1> DEFINE n == Len(texts)
           line == Concatenated(texts)
<1>1. PICK text : JoinSteps(texts, text, n) /\ line = text[n]
  BY ConcatenatedSteps
<1>2. n \in Nat /\ \A i \in 1 .. n : texts[i] \in ByteStrings
  BY ListOfStrings
<1> HIDE DEF n, line
<1>3. /\ \A k \in 0 .. n : text[k] \in ByteStrings
      /\ text[0] = << >>
      /\ \A k \in 1 .. n : text[k] = text[k - 1] \o texts[k]
  BY <1>1 DEF JoinSteps
<1>4. line \in ByteStrings
  BY <1>1, <1>2, <1>3
<1> DEFINE at == [i \in 1 .. n + 1 |-> Len(text[i - 1]) + 1]
<1>5. \A i \in 1 .. n + 1 : i - 1 \in 0 .. n /\ text[i - 1] \in ByteStrings
                            /\ Len(text[i - 1]) \in Nat
  <2> TAKE i \in 1 .. n + 1
  <2>1. i - 1 \in 0 .. n
    BY <1>2
  <2>2. text[i - 1] \in ByteStrings
    BY <1>3, <2>1
  <2> QED BY <2>1, <2>2, StringLength
<1>6. at \in [1 .. n + 1 -> Nat] /\ \A i \in 1 .. n + 1 : at[i] = Len(text[i - 1]) + 1
  BY <1>5
<1> HIDE DEF at
<1>7. at[1] = 1 /\ at[n + 1] = Len(line) + 1
  <2>1. 1 \in 1 .. n + 1 /\ n + 1 \in 1 .. n + 1 /\ 1 - 1 = 0 /\ (n + 1) - 1 = n
    BY <1>2
  <2>2. Len(text[0]) = 0
    BY <1>3, EmptyString
  <2>3. at[1] = Len(text[0]) + 1 /\ at[n + 1] = Len(text[n]) + 1
    BY <1>6, <2>1
  <2> QED BY <1>1, <2>2, <2>3
<1>8. ASSUME NEW i \in 1 .. n PROVE at[i + 1] = at[i] + Len(texts[i])
  <2>1. i \in 1 .. n + 1 /\ i + 1 \in 1 .. n + 1 /\ (i + 1) - 1 = i
    BY <1>2
  <2>2. at[i] = Len(text[i - 1]) + 1 /\ at[i + 1] = Len(text[i]) + 1
    BY <1>6, <2>1
  <2>3. text[i - 1] \in ByteStrings /\ texts[i] \in ByteStrings
    BY <1>2, <1>5, <2>1
  <2>4. text[i] = text[i - 1] \o texts[i]
    BY <1>3
  <2> DEFINE s == text[i - 1]
             t == texts[i]
             a == Len(s)
             b == Len(t)
  <2>5. s \in ByteStrings /\ t \in ByteStrings /\ text[i] = s \o t
    BY <2>3, <2>4
  <2> HIDE DEF s, t
  <2>6. a \in Nat /\ b \in Nat /\ Len(text[i]) = a + b
    BY <2>5, StringsJoined, StringLength
  <2>7. at[i] = a + 1 /\ at[i + 1] = Len(text[i]) + 1
    BY <2>2 DEF s
  <2> HIDE DEF a, b
  <2>8. at[i + 1] = at[i] + b
    BY <2>6, <2>7
  <2> QED BY <2>8 DEF b, t
<1> DEFINE T == {m \in Nat : m <= n => \A i \in 0 .. m : Begins(text[i], text[m])}
<1>9. Nat \subseteq T
  <2>1. \A k \in 0 .. n : Begins(text[k], text[k])
    <3> TAKE k \in 0 .. n
    <3>1. text[k] \in ByteStrings
      BY <1>3
    <3> DEFINE t == text[k]
    <3>2. t \in ByteStrings
      BY <3>1
    <3> HIDE DEF t
    <3>3. t \o << >> = t /\ Begins(t, t \o << >>)
      BY <3>2, EmptyString, StringsJoined, BeginsSelf
    <3>4. Begins(t, t)
      BY <3>3
    <3> QED BY <3>4 DEF t
  <2>2. 0 \in T
    <3>1. 0 \in 0 .. n /\ \A i \in 0 .. 0 : i = 0
      BY <1>2
    <3> QED BY <2>1, <3>1
  <2>3. ASSUME NEW m \in Nat, m \in T PROVE m + 1 \in T
    <3> SUFFICES ASSUME m + 1 <= n, NEW i \in 0 .. m + 1 PROVE Begins(text[i], text[m + 1])
      OBVIOUS
    <3>1. m + 1 \in 1 .. n /\ (m + 1) - 1 = m /\ m \in 0 .. n /\ m + 1 \in 0 .. n /\ i \in 0 .. n
      BY <1>2
    <3>2. text[m + 1] = text[m] \o texts[m + 1]
      BY <1>3, <3>1
    <3>3. text[m] \in ByteStrings /\ texts[m + 1] \in ByteStrings /\ text[m + 1] \in ByteStrings
          /\ text[i] \in ByteStrings
      BY <1>2, <1>3, <3>1
    <3>4. CASE i = m + 1
      BY <2>1, <3>1, <3>4
    <3>5. CASE i # m + 1
      <4>1. i \in 0 .. m
        BY <3>5
      <4>2. Begins(text[i], text[m])
        BY <1>2, <2>3, <4>1
      <4>3. Begins(text[m], text[m + 1])
        BY <3>2, <3>3, BeginsSelf
      <4> QED BY <3>3, <4>2, <4>3, BeginsOnward
    <3> QED BY <3>4, <3>5
  <2> HIDE DEF T
  <2> QED BY <2>2, <2>3, SetInduction
<1>10. ASSUME NEW i \in 1 .. n PROVE Written(line, at[i], texts[i])
  <2>1. i - 1 \in 0 .. n /\ i \in 0 .. n /\ i \in 1 .. n + 1
    BY <1>2
  <2>2. text[i - 1] \in ByteStrings /\ texts[i] \in ByteStrings
    BY <1>2, <1>3, <2>1
  <2>3. Begins(text[i], line)
    BY <1>1, <1>2, <1>9, <2>1
  <2>4. text[i] = text[i - 1] \o texts[i]
    BY <1>3
  <2>5. Begins(text[i - 1] \o texts[i], line)
    BY <2>3, <2>4
  <2>6. Written(line, Len(text[i - 1]) + 1, texts[i])
    BY <1>4, <2>2, <2>5, WrittenAfter
  <2> QED BY <1>6, <2>1, <2>6
<1>11. Laid(texts, line, at)
  BY <1>6, <1>7, <1>8, <1>10, Zenon DEF Laid, n
<1> QED BY <1>4, <1>11 DEF line

-----------------------------------------------------------------------------
(* What a pattern is written from.                                           *)
Elements == [from : Chars, to : Chars, quoted : BOOLEAN]

(* What an element of a class is made of.                                    *)
LEMMA ElementFields ==
  ASSUME NEW e \in Elements
  PROVE  /\ e.from \in Chars /\ e.to \in Chars /\ e.quoted \in BOOLEAN
         /\ e.from \in 0 .. 127 /\ e.to \in 0 .. 127
BY DEF Elements, Chars

(* The characters of a range, whichever end is written first.                *)
LEMMA SpanMeans ==
  ASSUME NEW e \in Elements, NEW x \in Chars
  PROVE  x \in Span(e) <=> \/ e.from <= x /\ x <= e.to
                           \/ e.to <= x /\ x <= e.from
<1>1. e.from \in 0 .. 127 /\ e.to \in 0 .. 127 /\ x \in 0 .. 127
  BY ElementFields DEF Chars
<1> DEFINE f == e.from
           t == e.to
<1>2. Span(e) = {y \in Chars : \E a, b \in {f, t} : a <= y /\ y <= b}
  BY DEF Span
<1>3. f \in Int /\ t \in Int /\ x \in Int
  <2>1. \A y \in 0 .. 127 : y \in Int
    OBVIOUS
  <2> QED BY <1>1, <2>1, Zenon
<1> HIDE DEF f, t
<1>4. x \in Span(e) <=> \E a, b \in {f, t} : a <= x /\ x <= b
  BY <1>2
<1>5. (\E a, b \in {f, t} : a <= x /\ x <= b) <=> (f <= x /\ x <= t) \/ (t <= x /\ x <= f)
  BY <1>3
<1> QED BY <1>4, <1>5 DEF f, t

(* A single character spans itself.                                          *)
LEMMA OneInSpan ==
  ASSUME NEW e \in Elements, e.from = e.to
  PROVE  Span(e) = {e.from}
<1> DEFINE f == e.from
<1>1. f \in 0 .. 127
  BY ElementFields
<1>2. Span(e) = {x \in 0 .. 127 : \E a, b \in {f} : a <= x /\ x <= b}
  BY DEF Span, Chars
<1> HIDE DEF f
<1>3. {x \in 0 .. 127 : \E a, b \in {f} : a <= x /\ x <= b} = {f}
  BY <1>1
<1> QED BY <1>2, <1>3 DEF f

(* A plain character is compared as it is meant.                             *)
LEMMA SameMeans ==
  ASSUME NEW e \in Elements, e.from = e.to, NEW c \in Chars, NEW nocase \in BOOLEAN
  PROVE  InSpan(e, c, nocase) <=> Same(e.from, c, nocase)
<1>1. e.from \in 0 .. 127 /\ c \in 0 .. 127
  BY ElementFields DEF Chars
<1>2. Span(e) = {e.from}
  BY OneInSpan
<1> QED BY <1>1, <1>2 DEF InSpan, Same, tolower

(* A quoted character of a class is compared with its case, which a          *)
(* character that is no letter does not have.                                *)
LEMMA QuotedMeans ==
  ASSUME NEW e \in Elements, e.from = e.to, e.quoted, PlainInside(e),
         NEW c \in Chars, NEW nocase \in BOOLEAN
  PROVE  InSpan(e, c, nocase) <=> e.from = c
<1>1. e.from \in 0 .. 127 /\ c \in 0 .. 127
  BY ElementFields DEF Chars
<1>2. Span(e) = {e.from}
  BY OneInSpan
<1>3. tolower(e.from) \notin 97 .. 122
  BY DEF PlainInside, Lower
<1> QED BY <1>1, <1>2, <1>3 DEF InSpan, tolower

(* The ends of a range are put in order and folded after that: this is what  *)
(* is meant where the range has only capital letters or none.                *)
LEMMA RangeMeans ==
  ASSUME NEW e \in Elements, PlainInside(e), NEW c \in Chars, NEW nocase \in BOOLEAN
  PROVE  InSpan(e, c, nocase) <=> InRange(e.from, e.to, c, nocase)
<1> DEFINE f == e.from
           t == e.to
           lo == IF f > t THEN t ELSE f
           hi == IF f > t THEN f ELSE t
<1>1. f \in 0 .. 127 /\ t \in 0 .. 127 /\ c \in 0 .. 127
  BY ElementFields DEF Chars
<1> HIDE DEF f, t
<1>2. lo \in 0 .. 127 /\ hi \in 0 .. 127 /\ lo <= hi
  BY <1>1
<1>3. \A x \in Chars : x \in Span(e) <=> lo <= x /\ x <= hi
  <2> TAKE x \in Chars
  <2>1. x \in 0 .. 127
    BY DEF Chars
  <2>2. x \in Span(e) <=> (f <= x /\ x <= t) \/ (t <= x /\ x <= f)
    BY SpanMeans DEF f, t
  <2> QED BY <1>1, <2>1, <2>2
<1>4. Span(e) \subseteq Chars
  BY DEF Span
<1>5. InSpan(e, c, nocase) <=> \E x \in lo .. hi : x = c \/ (nocase /\ tolower(x) = tolower(c))
  <2> HIDE DEF lo, hi
  <2>1. \A x : x \in Span(e) <=> x \in lo .. hi
    BY <1>2, <1>3, <1>4 DEF Chars
  <2>2. Span(e) = lo .. hi
    BY <2>1
  <2> QED BY <2>2, Zenon DEF InSpan
<1>6. InRange(e.from, e.to, c, nocase) <=>
        IF nocase THEN tolower(lo) <= tolower(c) /\ tolower(c) <= tolower(hi) ELSE lo <= c /\ c <= hi
  BY DEF InRange, f, t
<1>7. \/ 65 <= lo /\ hi <= 90
      \/ \A x \in lo .. hi : ~(65 <= x /\ x <= 90)
  <2>1. Capitals = 65 .. 90
    BY DEF Capitals, Upper
  <2>2. lo \in Span(e) /\ hi \in Span(e)
    BY <1>2, <1>3 DEF Chars
  <2>3. CASE Span(e) \subseteq Capitals
    BY <1>2, <2>1, <2>2, <2>3
  <2>4. CASE Span(e) \cap Capitals = {}
    <3>1. ASSUME NEW x \in lo .. hi PROVE ~(65 <= x /\ x <= 90)
      <4>1. x \in Chars
        BY <1>2 DEF Chars
      <4>2. x \in Span(e)
        BY <1>2, <1>3, <4>1
      <4>3. x \notin 65 .. 90
        BY <2>1, <2>4, <4>2
      <4> QED BY <1>2, <4>3
    <3> QED BY <3>1
  <2> QED BY <2>3, <2>4 DEF PlainInside
<1> HIDE DEF lo, hi
<1>8. CASE ~nocase
  BY <1>1, <1>2, <1>5, <1>6, <1>8
<1>9. CASE nocase /\ 65 <= lo /\ hi <= 90
  <2>1. tolower(lo) = lo + 32 /\ tolower(hi) = hi + 32 /\ \A x \in lo .. hi : tolower(x) = x + 32
    BY <1>2, <1>9 DEF tolower
  <2>2. tolower(c) \in 0 .. 127 /\ tolower(c) \notin 65 .. 90
    BY <1>1 DEF tolower
  <2>3. ASSUME lo + 32 <= tolower(c), tolower(c) <= hi + 32
        PROVE  \E x \in lo .. hi : tolower(x) = tolower(c)
    <3>1. tolower(c) - 32 \in lo .. hi
      BY <1>2, <2>2, <2>3
    <3>2. tolower(tolower(c) - 32) = tolower(c)
      BY <2>1, <2>2, <3>1
    <3> QED BY <3>1, <3>2
  <2>4. ASSUME NEW x \in lo .. hi, x = c \/ tolower(x) = tolower(c)
        PROVE  lo + 32 <= tolower(c) /\ tolower(c) <= hi + 32
    <3>1. tolower(c) = x + 32
      BY <2>1, <2>4
    <3> QED BY <1>2, <3>1
  <2> QED BY <1>5, <1>6, <1>9, <2>1, <2>3, <2>4
<1>10. CASE nocase /\ \A x \in lo .. hi : ~(65 <= x /\ x <= 90)
  <2>1. \A x \in lo .. hi : tolower(x) = x
    BY <1>2, <1>10 DEF tolower
  <2>2. tolower(lo) = lo /\ tolower(hi) = hi
    BY <1>2, <2>1
  <2>3. tolower(c) \in 0 .. 127
    BY <1>1 DEF tolower
  <2>4. ASSUME lo <= tolower(c), tolower(c) <= hi
        PROVE  \E x \in lo .. hi : tolower(x) = tolower(c)
    <3>1. tolower(c) \in lo .. hi
      BY <1>2, <2>3, <2>4
    <3>2. tolower(tolower(c)) = tolower(c)
      BY <2>1, <3>1
    <3> QED BY <3>1, <3>2
  <2>5. ASSUME NEW x \in lo .. hi, x = c \/ tolower(x) = tolower(c)
        PROVE  lo <= tolower(c) /\ tolower(c) <= hi
    <3>1. tolower(c) = x
      BY <2>1, <2>5
    <3> QED BY <1>2, <3>1
  <2> QED BY <1>5, <1>6, <1>10, <2>2, <2>4, <2>5
<1> QED BY <1>7, <1>8, <1>9, <1>10

-----------------------------------------------------------------------------
(* How an element is written.                                                *)
LEMMA ElementWritten ==
  ASSUME NEW e \in Elements
  PROVE  /\ WriteElement(e) \in ByteStrings
         /\ e.from # e.to =>
              /\ Len(WriteElement(e)) = 3
              /\ WriteElement(e)[1] = e.from /\ WriteElement(e)[2] = Minus /\ WriteElement(e)[3] = e.to
         /\ e.from = e.to /\ e.quoted =>
              /\ Len(WriteElement(e)) = 2
              /\ WriteElement(e)[1] = Backslash /\ WriteElement(e)[2] = e.from
         /\ e.from = e.to /\ ~e.quoted =>
              /\ Len(WriteElement(e)) = 1 /\ WriteElement(e)[1] = e.from
<1> DEFINE f == e.from
           t == e.to
<1>1. f \in Bytes /\ t \in Bytes /\ Minus \in Bytes /\ Backslash \in Bytes
  BY ElementFields DEF Bytes, Minus, Backslash
<1>2. << f, Minus, t >> \in ByteStrings /\ << Backslash, f >> \in ByteStrings /\ << f >> \in ByteStrings
  BY <1>1 DEF ByteStrings
<1>3. /\ Len(<< f, Minus, t >>) = 3 /\ << f, Minus, t >>[1] = f /\ << f, Minus, t >>[2] = Minus
      /\ << f, Minus, t >>[3] = t
      /\ Len(<< Backslash, f >>) = 2 /\ << Backslash, f >>[1] = Backslash /\ << Backslash, f >>[2] = f
      /\ Len(<< f >>) = 1 /\ << f >>[1] = f
  OBVIOUS
<1>4. CASE f # t
  BY <1>2, <1>3, <1>4 DEF WriteElement
<1>5. CASE f = t /\ e.quoted
  BY <1>2, <1>3, <1>5 DEF WriteElement
<1>6. CASE f = t /\ ~e.quoted
  BY <1>2, <1>3, <1>6 DEF WriteElement
<1> QED BY <1>4, <1>5, <1>6

(* An element is written in one to three characters.                         *)
LEMMA WrittenLength ==
  ASSUME NEW e \in Elements
  PROVE  Len(WriteElement(e)) \in {1, 2, 3}
<1>1. e.quoted \in BOOLEAN
  BY ElementFields
<1> DEFINE l == Len(WriteElement(e))
<1>2. /\ e.from # e.to => l = 3
      /\ e.from = e.to /\ e.quoted => l = 2
      /\ e.from = e.to /\ ~e.quoted => l = 1
  BY ElementWritten
<1> HIDE DEF l
<1>3. l = 1 \/ l = 2 \/ l = 3
  BY <1>1, <1>2, Zenon
<1>4. l \in {1, 2, 3}
  BY <1>3
<1> QED BY <1>4 DEF l

(* What is read at the places of a pattern, and at its end.                  *)
LEMMA AtMeans ==
  ASSUME NEW pattern \in ByteStrings
  PROVE  /\ \A i \in 1 .. Len(pattern) : At(pattern, i) = pattern[i] /\ pattern[i] \in Bytes
         /\ At(pattern, Len(pattern) + 1) = NUL
<1>1. NUL \in Bytes
  BY DEF NUL, Bytes
<1>2. /\ \A i \in 1 .. Len(pattern) : Append(pattern, NUL)[i] = pattern[i]
      /\ Append(pattern, NUL)[Len(pattern) + 1] = NUL
  BY <1>1, Appended DEF ByteStrings
<1>3. \A i \in 1 .. Len(pattern) : pattern[i] \in Bytes
  BY ElementOfSeq DEF ByteStrings
<1> QED BY <1>2, <1>3 DEF At

(* The states of the loop over a class.                                      *)
ClassStates(pattern) == [p : 1 .. Len(pattern) + 1, match : BOOLEAN, open : BOOLEAN]

(* A state of the loop within the pattern.                                   *)
LEMMA ScanIsState ==
  ASSUME NEW pattern, NEW p \in 1 .. Len(pattern) + 1, NEW match \in BOOLEAN, NEW open \in BOOLEAN
  PROVE  /\ Scan(p, match, open) \in ClassStates(pattern)
         /\ Scan(p, match, open).p = p
         /\ Scan(p, match, open).match = match
         /\ Scan(p, match, open).open = open
BY DEF Scan, ClassStates

(* What a turn of the loop does, case by case.                               *)
TurnMeans(pattern, n, c, nocase, a, p, next) ==
  /\ ~a.open => next = a
  /\ a.open /\ p < n /\ pattern[p] = Backslash =>
       next = Scan(p + 2, a.match \/ pattern[p + 1] = c, TRUE)
  /\ a.open /\ p <= n /\ pattern[p] = RBracket => next = Scan(p + 1, a.match, FALSE)
  /\ a.open /\ p = n + 1 => next = Scan(p, a.match, FALSE)
  /\ a.open /\ p + 2 <= n /\ pattern[p] \notin {Backslash, RBracket} /\ pattern[p + 1] = Minus =>
       next = Scan(p + 3, a.match \/ InRange(pattern[p], pattern[p + 2], c, nocase), TRUE)
  /\ /\ a.open /\ p <= n /\ pattern[p] # RBracket
     /\ pattern[p] = Backslash => p = n
     /\ p + 2 <= n => pattern[p + 1] # Minus
     => next = Scan(p + 1, a.match \/ Same(pattern[p], c, nocase), TRUE)

(* The cases are those of the code.                                          *)
LEMMA ClassTurnMeans ==
  ASSUME NEW pattern \in ByteStrings, NEW a \in ClassStates(pattern), NEW c, NEW nocase
  PROVE  TurnMeans(pattern, Len(pattern), c, nocase, a, a.p, ClassTurn(pattern, c, nocase, a))
<1> DEFINE n == Len(pattern)
           first == At(pattern, a.p)
           left == n + 1 - a.p
           next == ClassTurn(pattern, c, nocase, a)
           p == a.p
<1>1. n \in Nat
  BY StringLength
<1>2. p \in 1 .. n + 1
  BY DEF ClassStates
<1>3. /\ p <= n => first = pattern[p]
      /\ p = n + 1 => first = NUL
  <2>1. p <= n => p \in 1 .. n
    <3> HIDE DEF p, n
    <3> QED BY <1>1, <1>2
  <2> QED BY <2>1, AtMeans
<1>4. next = IF ~a.open THEN a
             ELSE IF first = Backslash /\ left >= 2 THEN
               Scan(a.p + 2, a.match \/ pattern[a.p + 1] = c, TRUE)
             ELSE IF first = RBracket THEN Scan(a.p + 1, a.match, FALSE)
             ELSE IF left = 0 THEN Scan(a.p, a.match, FALSE)
             ELSE IF left >= 3 /\ pattern[a.p + 1] = Minus THEN
               Scan(a.p + 3, a.match \/ InRange(first, pattern[a.p + 2], c, nocase), TRUE)
             ELSE Scan(a.p + 1, a.match \/ Same(first, c, nocase), TRUE)
  BY Zenon DEF ClassTurn
<1> HIDE DEF n, first, next
<1>5. /\ left >= 2 <=> p < n
      /\ left = 0 <=> p = n + 1
      /\ left >= 3 <=> p + 2 <= n
      /\ p < n => p <= n
      /\ p + 2 <= n => p < n /\ p <= n
      /\ p <= n \/ p = n + 1
      /\ ~(p <= n /\ p = n + 1)
      /\ p < n => p # n
  <2> HIDE DEF p
  <2>1. left = n + 1 - p
    BY DEF p
  <2> HIDE DEF left
  <2> QED BY <1>1, <1>2, <2>1
<1>6. NUL # Backslash /\ NUL # RBracket /\ Backslash # RBracket
  BY DEF NUL, Backslash, RBracket
<1> HIDE DEF left
<1>7. ~a.open => next = a
  BY <1>4, Zenon
<1>8. a.open /\ p < n /\ pattern[p] = Backslash => next = Scan(a.p + 2, a.match \/ pattern[a.p + 1] = c, TRUE)
  BY <1>3, <1>4, <1>5, Zenon
<1>9. a.open /\ p <= n /\ pattern[p] = RBracket => next = Scan(a.p + 1, a.match, FALSE)
  BY <1>3, <1>4, <1>6, Zenon
<1>10. a.open /\ p = n + 1 => next = Scan(a.p, a.match, FALSE)
  BY <1>3, <1>4, <1>5, <1>6, Zenon
<1>11. a.open /\ p + 2 <= n /\ pattern[p] \notin {Backslash, RBracket} /\ pattern[p + 1] = Minus
       => next = Scan(a.p + 3, a.match \/ InRange(pattern[a.p], pattern[a.p + 2], c, nocase), TRUE)
  BY <1>3, <1>4, <1>5, <1>6, Zenon
<1>12. /\ a.open /\ p <= n /\ pattern[p] # RBracket
       /\ pattern[p] = Backslash => p = n
       /\ p + 2 <= n => pattern[p + 1] # Minus
       => next = Scan(a.p + 1, a.match \/ Same(pattern[a.p], c, nocase), TRUE)
  BY <1>3, <1>4, <1>5, <1>6, Zenon
<1> QED BY <1>7, <1>8, <1>9, <1>10, <1>11, <1>12, Zenon DEF TurnMeans, n, next, p

(* A turn stays within the pattern.                                          *)
LEMMA ClassTurnKeeps ==
  ASSUME NEW pattern \in ByteStrings, NEW a \in ClassStates(pattern), NEW c, NEW nocase
  PROVE  /\ ClassTurn(pattern, c, nocase, a) \in ClassStates(pattern)
         /\ ClassTurn(pattern, c, nocase, a).p >= a.p
<1> DEFINE n == Len(pattern)
           p == a.p
           next == ClassTurn(pattern, c, nocase, a)
           Fine(s) == s \in ClassStates(pattern) /\ s.p >= p
<1>1. n \in Nat
  BY StringLength
<1>2. p \in 1 .. n + 1 /\ a.match \in BOOLEAN /\ a.open \in BOOLEAN
  BY DEF ClassStates
<1>0. TurnMeans(pattern, n, c, nocase, a, p, next)
  BY ClassTurnMeans
<1> SUFFICES Fine(next)
  BY DEF p
<1> HIDE DEF n, p, next
<1>3. ASSUME NEW q \in p .. n + 1, NEW m \in BOOLEAN, NEW o \in BOOLEAN PROVE Fine(Scan(q, m, o))
  <2>1. q \in 1 .. n + 1 /\ q >= p
    BY <1>1, <1>2
  <2>2. Scan(q, m, o) \in ClassStates(pattern) /\ Scan(q, m, o).p = q
    BY <2>1, ScanIsState DEF n
  <2> QED BY <2>1, <2>2
<1>4. \A q : (a.match \/ q) \in BOOLEAN
  BY Zenon
<1>5. CASE ~a.open
  <2>1. next = a
    BY <1>5, <1>0, Zenon DEF TurnMeans
  <2>2. a.p >= p
    BY <1>1, <1>2 DEF p
  <2> QED BY <2>1, <2>2
<1>6. CASE a.open /\ p < n /\ pattern[p] = Backslash
  <2>1. next = Scan(p + 2, a.match \/ pattern[p + 1] = c, TRUE)
    BY <1>6, <1>0, Zenon DEF TurnMeans
  <2>2. p + 2 \in p .. n + 1
    BY <1>1, <1>2, <1>6
  <2>3. Fine(Scan(p + 2, a.match \/ pattern[p + 1] = c, TRUE))
    BY <1>3, <2>2
  <2> QED BY <2>1, <2>3 DEF p
<1>7. CASE a.open /\ p <= n /\ pattern[p] = RBracket
  <2>1. next = Scan(p + 1, a.match, FALSE)
    BY <1>7, <1>0, Zenon DEF TurnMeans
  <2>2. p + 1 \in p .. n + 1
    BY <1>1, <1>2, <1>7
  <2>3. Fine(Scan(p + 1, a.match, FALSE))
    BY <1>2, <1>3, <2>2
  <2> QED BY <2>1, <2>3 DEF p
<1>8. CASE a.open /\ p = n + 1
  <2>1. next = Scan(p, a.match, FALSE)
    BY <1>8, <1>0, Zenon DEF TurnMeans
  <2>2. p \in p .. n + 1
    BY <1>1, <1>2
  <2>3. Fine(Scan(p, a.match, FALSE))
    BY <1>2, <1>3, <2>2
  <2> QED BY <2>1, <2>3 DEF p
<1>9. CASE a.open /\ p + 2 <= n /\ pattern[p] \notin {Backslash, RBracket} /\ pattern[p + 1] = Minus
  <2>1. next = Scan(p + 3, a.match \/ InRange(pattern[p], pattern[p + 2], c, nocase), TRUE)
    BY <1>9, <1>0, Zenon DEF TurnMeans
  <2>2. p + 3 \in p .. n + 1
    BY <1>1, <1>2, <1>9
  <2>3. Fine(Scan(p + 3, a.match \/ InRange(pattern[p], pattern[p + 2], c, nocase), TRUE))
    BY <1>3, <2>2
  <2> QED BY <2>1, <2>3 DEF p
<1>10. CASE /\ a.open /\ p <= n /\ pattern[p] # RBracket
            /\ pattern[p] = Backslash => p = n
            /\ p + 2 <= n => pattern[p + 1] # Minus
  <2>1. next = Scan(p + 1, a.match \/ Same(pattern[p], c, nocase), TRUE)
    BY <1>10, <1>0, Zenon DEF TurnMeans
  <2>2. p + 1 \in p .. n + 1
    BY <1>1, <1>2, <1>10
  <2>3. Fine(Scan(p + 1, a.match \/ Same(pattern[p], c, nocase), TRUE))
    BY <1>3, <2>2
  <2> QED BY <2>1, <2>3 DEF p
<1>11. p <= n \/ p = n + 1
  BY <1>1, <1>2
<1>12. p <= n => p < n \/ p = n
  BY <1>1, <1>2
<1>13. p = n => ~(p + 2 <= n)
  BY <1>1, <1>2
<1> HIDE DEF Fine
<1> QED BY <1>5, <1>6, <1>7, <1>8, <1>9, <1>10, <1>11, <1>12, <1>13

(* One turn reads one element of a class.                                    *)
LEMMA ElementRead ==
  ASSUME NEW pattern \in ByteStrings, NEW a \in ClassStates(pattern), a.open,
         NEW e \in Elements, PlainInside(e),
         a.p + Len(WriteElement(e)) <= Len(pattern),
         Written(pattern, a.p, WriteElement(e)),
         Unquoted(e) => pattern[a.p + 1] # Minus,
         NEW c \in Chars, NEW nocase \in BOOLEAN
  PROVE  ClassTurn(pattern, c, nocase, a)
           = Scan(a.p + Len(WriteElement(e)), a.match \/ InSpan(e, c, nocase), TRUE)
<1> DEFINE n == Len(pattern)
           p == a.p
           next == ClassTurn(pattern, c, nocase, a)
           w == WriteElement(e)
           l == Len(w)
<1>1. n \in Nat /\ l \in Nat /\ p \in 1 .. n + 1 /\ p + l <= n
  BY ElementWritten, StringLength DEF ClassStates
<1>2. \A q \in 1 .. l : Char(pattern, p + q - 1) = w[q]
  BY DEF Written
<1>0. TurnMeans(pattern, n, c, nocase, a, p, next)
  BY ClassTurnMeans
<1> HIDE DEF n, p, w, l, next
<1>3. ASSUME NEW q \in 1 .. l PROVE pattern[p + q - 1] = w[q] /\ pattern[p + q - 1] \in Bytes
  <2>1. p + q - 1 \in 1 .. n
    BY <1>1
  <2>2. Char(pattern, p + q - 1) = pattern[p + q - 1] /\ pattern[p + q - 1] \in Bytes
    BY <2>1, AtMeans DEF Char, n
  <2> QED BY <1>2, <2>2
<1>4. /\ e.from # e.to => l = 3 /\ w[1] = e.from /\ w[2] = Minus /\ w[3] = e.to
      /\ e.from = e.to /\ e.quoted => l = 2 /\ w[1] = Backslash /\ w[2] = e.from
      /\ e.from = e.to /\ ~e.quoted => l = 1 /\ w[1] = e.from
  BY ElementWritten, Zenon DEF w, l
<1>5. e.from \in {RBracket, Backslash} => e.from = e.to /\ e.quoted
  BY DEF PlainInside
<1>6. Backslash # RBracket
  BY DEF Backslash, RBracket
<1>7. CASE e.from # e.to
  <2>1. l = 3 /\ 1 \in 1 .. l /\ 2 \in 1 .. l /\ 3 \in 1 .. l /\ p + 1 - 1 = p /\ p + 2 - 1 = p + 1
        /\ p + 3 - 1 = p + 2 /\ p + 2 <= n
    BY <1>1, <1>4, <1>7
  <2>2. pattern[p] = e.from /\ pattern[p + 1] = Minus /\ pattern[p + 2] = e.to
    BY <1>3, <1>4, <1>7, <2>1
  <2>3. pattern[p] \notin {Backslash, RBracket}
    BY <1>5, <1>7, <2>2
  <2>4. next = Scan(p + 3, a.match \/ InRange(e.from, e.to, c, nocase), TRUE)
    BY <2>1, <2>2, <2>3, <1>0, Zenon DEF TurnMeans
  <2>5. InRange(e.from, e.to, c, nocase) <=> InSpan(e, c, nocase)
    BY RangeMeans
  <2>6. next = Scan(p + 3, a.match \/ InSpan(e, c, nocase), TRUE)
    <3>1. (a.match \/ InRange(e.from, e.to, c, nocase)) = (a.match \/ InSpan(e, c, nocase))
      BY <2>5, Zenon
    <3> QED BY <2>4, <3>1, Zenon
  <2> QED BY <2>1, <2>6, Zenon DEF p, l, w, next
<1>8. CASE e.from = e.to /\ e.quoted
  <2>1. l = 2 /\ 1 \in 1 .. l /\ 2 \in 1 .. l /\ p + 1 - 1 = p /\ p + 2 - 1 = p + 1 /\ p < n
    BY <1>1, <1>4, <1>8
  <2>2. pattern[p] = Backslash /\ pattern[p + 1] = e.from
    BY <1>3, <1>4, <1>8, <2>1
  <2>3. next = Scan(p + 2, a.match \/ pattern[p + 1] = c, TRUE)
    BY <2>1, <2>2, <1>0, Zenon DEF TurnMeans
  <2>4. pattern[p + 1] = c <=> InSpan(e, c, nocase)
    BY <1>8, <2>2, QuotedMeans
  <2>5. next = Scan(p + 2, a.match \/ InSpan(e, c, nocase), TRUE)
    <3>1. (a.match \/ pattern[p + 1] = c) = (a.match \/ InSpan(e, c, nocase))
      BY <2>4, Zenon
    <3> QED BY <2>3, <3>1, Zenon
  <2> QED BY <2>1, <2>5, Zenon DEF p, l, w, next
<1>9. CASE e.from = e.to /\ ~e.quoted
  <2>1. l = 1 /\ 1 \in 1 .. l /\ p + 1 - 1 = p /\ p <= n
    BY <1>1, <1>4, <1>9
  <2>2. pattern[p] = e.from
    BY <1>3, <1>4, <1>9, <2>1
  <2>3. pattern[p] \notin {Backslash, RBracket} /\ pattern[p + 1] # Minus
    BY <1>5, <1>9, <2>2 DEF Unquoted, p
  <2>4. next = Scan(p + 1, a.match \/ Same(e.from, c, nocase), TRUE)
    <3>1. /\ a.open /\ p <= n /\ pattern[p] # RBracket /\ pattern[p] # Backslash
          /\ pattern[p + 1] # Minus
      BY <2>1, <2>3
    <3> QED BY <2>2, <3>1, <1>0, Zenon DEF TurnMeans
  <2>5. Same(e.from, c, nocase) <=> InSpan(e, c, nocase)
    BY <1>9, SameMeans
  <2>6. next = Scan(p + 1, a.match \/ InSpan(e, c, nocase), TRUE)
    <3>1. (a.match \/ Same(e.from, c, nocase)) = (a.match \/ InSpan(e, c, nocase))
      BY <2>5, Zenon
    <3> QED BY <2>4, <3>1, Zenon
  <2> QED BY <2>1, <2>6, Zenon DEF p, l, w, next
<1> QED BY <1>7, <1>8, <1>9, Zenon DEF p, l, w, next

(* The loop over a class, turn by turn.                                      *)
TurnsFrom(pattern, p, c, nocase, after) ==
  /\ after[0] = Scan(p, FALSE, TRUE)
  /\ \A k \in Nat : /\ after[k] \in ClassStates(pattern) /\ after[k].p >= p
                    /\ after[k + 1] = ClassTurn(pattern, c, nocase, after[k])

(* Every turn of the loop is one of these.                                   *)
LEMMA ClassSteps ==
  ASSUME NEW pattern \in ByteStrings, NEW p \in 1 .. Len(pattern) + 1, NEW c, NEW nocase
  PROVE  TurnsFrom(pattern, p, c, nocase, InClass(pattern, p, c, nocase))
<1> DEFINE start == Scan(p, FALSE, TRUE)
           Def(f, k) == IF k = 0 THEN start ELSE ClassTurn(pattern, c, nocase, f[k - 1])
           after == CHOOSE f : f = [k \in Nat |-> Def(f, k)]
           S == {a \in ClassStates(pattern) : a.p >= p}
           d == [a \in S |-> ClassTurn(pattern, c, nocase, a)]
<1>1. InClass(pattern, p, c, nocase) = after
  BY DEF InClass
<1>2. p \in Nat /\ Len(pattern) \in Nat
  BY StringLength
<1>3. \A a \in S : ClassTurn(pattern, c, nocase, a) \in S
  <2> TAKE a \in S
  <2> DEFINE next == ClassTurn(pattern, c, nocase, a)
  <2>1. next \in ClassStates(pattern) /\ next.p >= a.p
    BY ClassTurnKeeps
  <2> HIDE DEF next
  <2>2. next.p \in Int /\ a.p \in Int /\ a.p >= p
    BY <1>2, <2>1 DEF ClassStates
  <2>3. next.p >= p
    BY <1>2, <2>1, <2>2
  <2> QED BY <2>1, <2>3 DEF next
<1>4. start \in S
  <2>1. start \in ClassStates(pattern) /\ start.p = p
    BY ScanIsState
  <2>2. p >= p
    BY <1>2
  <2> QED BY <2>1, <2>2
<1> HIDE DEF S, start
<1>5. d \in Maps(S) /\ \A a \in S : d[a] = ClassTurn(pattern, c, nocase, a)
  BY <1>3 DEF Maps
<1> HIDE DEF d
<1>6. PICK g : Repeats(g, S, start, d)
  BY <1>4, <1>5, NatRecursion
<1>7. g \in [Nat -> S] /\ g[0] = start /\ \A k \in Nat : g[k + 1] = d[g[k]]
  BY <1>6 DEF Repeats
<1>8. \A k \in Nat : g[k] = Def(g, k)
  <2> TAKE k \in Nat
  <2>1. CASE k = 0
    BY <1>7, <2>1
  <2>2. CASE k # 0
    <3>1. k - 1 \in Nat /\ (k - 1) + 1 = k
      BY <2>2
    <3> QED BY <1>5, <1>7, <2>2, <3>1
  <2> QED BY <2>1, <2>2
<1>9. g = [k \in Nat |-> Def(g, k)]
  BY <1>7, <1>8
<1> HIDE DEF Def
<1>10. after = [k \in Nat |-> Def(after, k)]
  BY <1>9
<1> HIDE DEF after
<1>11. \A k \in Nat : after[k] = Def(after, k)
  BY <1>10
<1> USE DEF Def
<1>12. after[0] = start
  BY <1>11
<1>13. \A k \in Nat : after[k + 1] = ClassTurn(pattern, c, nocase, after[k])
  <2> TAKE k \in Nat
  <2> DEFINE m == k + 1
  <2>1. m \in Nat /\ m # 0 /\ m - 1 = k
    OBVIOUS
  <2> HIDE DEF m
  <2>2. after[m] = ClassTurn(pattern, c, nocase, after[k])
    BY <1>11, <2>1
  <2> QED BY <2>2 DEF m
<1> DEFINE T == {k \in Nat : after[k] \in S}
<1>14. 0 \in T
  BY <1>4, <1>12
<1>15. ASSUME NEW k \in Nat, k \in T PROVE k + 1 \in T
  <2>1. after[k] \in S /\ after[k + 1] = ClassTurn(pattern, c, nocase, after[k])
    BY <1>13, <1>15
  <2>2. after[k + 1] \in S
    BY <1>3, <2>1, Zenon
  <2>3. k + 1 \in Nat
    OBVIOUS
  <2> QED BY <2>2, <2>3
<1>16. Nat \subseteq T
  <2> HIDE DEF T
  <2> QED BY <1>14, <1>15, SetInduction
<1>17. \A k \in Nat : after[k] \in S
  BY <1>16
<1> HIDE DEF T, Def
<1>18. \A k \in Nat : after[k] \in ClassStates(pattern) /\ after[k].p >= p
  BY <1>17 DEF S
<1> QED BY <1>1, <1>12, <1>13, <1>18 DEF start, TurnsFrom

(* Strings laid out one after the other lie within the line, and if none is  *)
(* empty, the i-th of them not before place i.                               *)
LEMMA LaidBounds ==
  ASSUME NEW texts \in ByteLists, NEW line \in ByteStrings, NEW at, Laid(texts, line, at)
  PROVE  /\ \A i \in 1 .. Len(texts) + 1 : at[i] \in Nat \ {0} /\ at[i] <= Len(line) + 1
         /\ (\A i \in 1 .. Len(texts) : texts[i] # << >>) => \A i \in 1 .. Len(texts) + 1 : i <= at[i]
<1> DEFINE n == Len(texts)
           l == Len(line)
           len(i) == Len(texts[i])
<1>1. n \in Nat /\ l \in Nat /\ \A i \in 1 .. n : texts[i] \in ByteStrings
  BY ListOfStrings, StringLength
<1>2. \A i \in 1 .. n : len(i) \in Nat /\ (len(i) = 0 <=> texts[i] = << >>)
  BY <1>1, StringLength
<1>3. /\ \A i \in 1 .. n + 1 : at[i] \in Nat
      /\ at[1] = 1 /\ at[n + 1] = l + 1
      /\ \A i \in 1 .. n : at[i + 1] = at[i] + len(i)
  BY DEF Laid
<1> HIDE DEF n, l, len
<1> DEFINE T == {k \in Nat : k <= n => at[n + 1 - k] <= l + 1}
           U == {k \in Nat : k <= n => at[k + 1] >= 1}
           V == {k \in Nat : k <= n => at[k + 1] >= k + 1}
<1>4. Nat \subseteq T
  <2>1. 0 \in T
    BY <1>1, <1>3
  <2>2. ASSUME NEW k \in Nat, k \in T PROVE k + 1 \in T
    <3> SUFFICES ASSUME k + 1 <= n PROVE at[n + 1 - (k + 1)] <= l + 1
      OBVIOUS
    <3> DEFINE i == n + 1 - (k + 1)
    <3>1. i \in 1 .. n /\ i \in 1 .. n + 1 /\ i + 1 = n + 1 - k /\ i + 1 \in 1 .. n + 1
      BY <1>1
    <3>2. at[n + 1 - k] <= l + 1
      BY <1>1, <2>2
    <3> HIDE DEF i
    <3>3. at[i + 1] = at[i] + len(i) /\ at[i] \in Nat /\ len(i) \in Nat /\ at[i + 1] <= l + 1
      BY <1>2, <1>3, <3>1, <3>2
    <3>4. at[i] <= l + 1
      BY <1>1, <3>3
    <3> QED BY <3>4 DEF i
  <2> HIDE DEF T
  <2> QED BY <2>1, <2>2, SetInduction
<1>5. Nat \subseteq U
  <2>1. 0 \in U
    BY <1>1, <1>3
  <2>2. ASSUME NEW k \in Nat, k \in U PROVE k + 1 \in U
    <3> SUFFICES ASSUME k + 1 <= n PROVE at[(k + 1) + 1] >= 1
      OBVIOUS
    <3> DEFINE i == k + 1
    <3>1. i \in 1 .. n /\ i \in 1 .. n + 1
      BY <1>1
    <3>2. at[k + 1] >= 1
      BY <1>1, <2>2
    <3>3. at[i] >= 1
      BY <3>2
    <3> HIDE DEF i
    <3>4. at[i + 1] = at[i] + len(i) /\ at[i] \in Nat /\ len(i) \in Nat
      BY <1>2, <1>3, <3>1
    <3>5. at[i + 1] >= 1
      BY <3>3, <3>4
    <3> QED BY <3>5 DEF i
  <2> HIDE DEF U
  <2> QED BY <2>1, <2>2, SetInduction
<1>6. ASSUME \A i \in 1 .. n : texts[i] # << >> PROVE Nat \subseteq V
  <2>1. 0 \in V
    BY <1>1, <1>3
  <2>2. ASSUME NEW k \in Nat, k \in V PROVE k + 1 \in V
    <3> SUFFICES ASSUME k + 1 <= n PROVE at[(k + 1) + 1] >= (k + 1) + 1
      OBVIOUS
    <3> DEFINE i == k + 1
    <3>1. i \in 1 .. n /\ i \in 1 .. n + 1 /\ i \in Nat
      BY <1>1
    <3>2. at[k + 1] >= k + 1
      BY <1>1, <2>2
    <3>3. at[i] >= i
      BY <3>2
    <3> HIDE DEF i
    <3>4. at[i + 1] = at[i] + len(i) /\ at[i] \in Nat /\ len(i) \in Nat /\ len(i) # 0
      BY <1>2, <1>3, <1>6, <3>1
    <3>5. at[i + 1] >= i + 1
      BY <3>1, <3>3, <3>4
    <3> QED BY <3>5 DEF i
  <2> HIDE DEF V
  <2> QED BY <2>1, <2>2, SetInduction
<1>7. ASSUME NEW i \in 1 .. n + 1
      PROVE  /\ at[i] \in Nat \ {0} /\ at[i] <= l + 1
             /\ (\A q \in 1 .. n : texts[q] # << >>) => i <= at[i]
  <2>1. n + 1 - i \in Nat /\ n + 1 - i <= n /\ n + 1 - (n + 1 - i) = i
        /\ i - 1 \in Nat /\ i - 1 <= n /\ (i - 1) + 1 = i /\ i \in Nat
    BY <1>1
  <2>2. at[i] <= l + 1
    BY <1>4, <2>1
  <2>3. at[i] >= 1
    BY <1>5, <2>1
  <2>4. (\A q \in 1 .. n : texts[q] # << >>) => at[i] >= i
    BY <1>6, <2>1
  <2>5. at[i] \in Nat
    BY <1>3
  <2> QED BY <2>1, <2>2, <2>3, <2>4, <2>5
<1> QED BY <1>7 DEF n, l

(* What is written within a text that is written in a line.                  *)
LEMMA WrittenWithin ==
  ASSUME NEW line, NEW text, NEW piece, NEW p \in Nat, NEW q \in Nat, q >= 1,
         Len(text) \in Nat, Len(piece) \in Nat, q + Len(piece) <= Len(text) + 1,
         Written(line, p, text), Written(text, q, piece)
  PROVE  Written(line, p + q - 1, piece)
<1> DEFINE l == Len(text)
           m == Len(piece)
<1>1. /\ \A r \in 1 .. l : Char(line, p + r - 1) = text[r]
      /\ \A r \in 1 .. m : Char(text, q + r - 1) = piece[r]
      /\ l \in Nat /\ m \in Nat /\ q + m <= l + 1
  BY DEF Written
<1>2. \A r \in 1 .. l : Char(text, r) = text[r]
  BY DEF Char
<1> HIDE DEF l, m
<1>3. ASSUME NEW r \in 1 .. m PROVE Char(line, (p + q - 1) + r - 1) = piece[r]
  <2> DEFINE k == q + r - 1
  <2>1. k \in 1 .. l /\ (p + q - 1) + r - 1 = p + k - 1
    BY <1>1
  <2> HIDE DEF k
  <2>2. Char(line, p + k - 1) = text[k] /\ Char(text, k) = text[k]
    BY <1>1, <1>2, <2>1
  <2>3. Char(text, k) = piece[r]
    BY <1>1 DEF k
  <2> QED BY <2>1, <2>2, <2>3
<1> QED BY <1>3 DEF Written, m

-----------------------------------------------------------------------------
(* The elements of a class, one after the other.                             *)
ElementLists == Seq(Elements)

(* A list of elements has a length.                                          *)
LEMMA ListOfElements ==
  ASSUME NEW els \in ElementLists
  PROVE  Len(els) \in Nat /\ DOMAIN els = 1 .. Len(els) /\ \A i \in 1 .. Len(els) : els[i] \in Elements
BY LenProperties, ElementOfSeq DEF ElementLists

ElementsAt(els, line, at) ==
  /\ \A i \in 1 .. Len(els) + 1 : at[i] \in Nat \ {0} /\ at[i] <= Len(line) + 1 /\ i <= at[i]
  /\ at[1] = 1 /\ at[Len(els) + 1] = Len(line) + 1
  /\ \A i \in 1 .. Len(els) : /\ at[i + 1] = at[i] + Len(WriteElement(els[i]))
                              /\ Written(line, at[i], WriteElement(els[i]))

(* The elements lie one after the other in what is written from them.        *)
LEMMA ElementsLaid ==
  ASSUME NEW els \in ElementLists
  PROVE  WriteElements(els) \in ByteStrings /\ \E at : ElementsAt(els, WriteElements(els), at)
<1> DEFINE texts == [i \in DOMAIN els |-> WriteElement(els[i])]
           line == WriteElements(els)
           n == Len(els)
<1>1. n \in Nat /\ DOMAIN els = 1 .. n /\ \A i \in 1 .. n : els[i] \in Elements
  BY ListOfElements
<1>2. line = Concatenated(texts)
  BY DEF WriteElements
<1>3. \A i \in 1 .. n : WriteElement(els[i]) \in ByteStrings /\ WriteElement(els[i]) # << >>
  <2> TAKE i \in 1 .. n
  <2> DEFINE e == els[i]
  <2>1. e \in Elements
    BY <1>1
  <2> HIDE DEF e
  <2>2. WriteElement(e) \in ByteStrings /\ Len(WriteElement(e)) \in {1, 2, 3}
    BY <2>1, ElementWritten, ElementFields
  <2>3. WriteElement(e) # << >>
    BY <2>2, EmptyString
  <2> QED BY <2>2, <2>3 DEF e
<1> HIDE DEF n
<1>4. texts \in ByteLists /\ Len(texts) = n /\ \A i \in 1 .. n : texts[i] = WriteElement(els[i])
  <2>1. texts \in [1 .. n -> ByteStrings]
    BY <1>1, <1>3
  <2>2. \A i \in 1 .. n : texts[i] = WriteElement(els[i])
    BY <1>1
  <2> HIDE DEF texts
  <2>3. texts \in Seq(ByteStrings)
    BY <1>1, <2>1, IsASeq
  <2>4. Len(texts) = n
    BY <1>1, <2>1, <2>3
  <2> QED BY <2>2, <2>3, <2>4 DEF ByteLists
<1> HIDE DEF texts, line
<1>5. line \in ByteStrings /\ \E at : Laid(texts, line, at)
  BY <1>2, <1>4, ConcatenatedLaid
<1>6. PICK at : Laid(texts, line, at)
  BY <1>5
<1>7. /\ \A i \in 1 .. n + 1 : at[i] \in Nat \ {0} /\ at[i] <= Len(line) + 1
      /\ \A i \in 1 .. n + 1 : i <= at[i]
  <2>1. \A i \in 1 .. Len(texts) : texts[i] # << >>
    BY <1>3, <1>4
  <2> QED BY <1>4, <1>5, <1>6, <2>1, LaidBounds
<1>8. /\ at[1] = 1 /\ at[n + 1] = Len(line) + 1
      /\ \A i \in 1 .. n : /\ at[i + 1] = at[i] + Len(WriteElement(els[i]))
                           /\ Written(line, at[i], WriteElement(els[i]))
  BY <1>4, <1>6 DEF Laid
<1>9. ElementsAt(els, line, at)
  BY <1>7, <1>8 DEF ElementsAt, n
<1> QED BY <1>5, <1>9 DEF line

(* Elements that can be written after one another in a class.                *)
CanFollow(els) ==
  \A i \in 1 .. Len(els) :
    /\ PlainInside(els[i])
    /\ i > 1 /\ Unquoted(els[i - 1]) => WriteElement(els[i])[1] # Minus

AnyIn(els, k, c, nocase) == \E i \in 1 .. k : InSpan(els[i], c, nocase)

(* A class that is written at place s of a pattern and closed after it.      *)
ClassAt(pattern, s, els) ==
  /\ s + Len(WriteElements(els)) <= Len(pattern)
  /\ Written(pattern, s, WriteElements(els))
  /\ pattern[s + Len(WriteElements(els))] = RBracket

(* The first turns of the loop read the elements.                            *)
LEMMA ElementsRead ==
  ASSUME NEW pattern \in ByteStrings, NEW s \in Nat \ {0}, NEW els \in ElementLists,
         CanFollow(els), ClassAt(pattern, s, els), NEW c \in Chars, NEW nocase \in BOOLEAN
  PROVE  /\ Len(els) <= Len(WriteElements(els))
         /\ InClass(pattern, s, c, nocase)[Len(els)]
              = Scan(s + Len(WriteElements(els)), AnyIn(els, Len(els), c, nocase), TRUE)
<1> DEFINE K == Len(els)
           line == WriteElements(els)
           l == Len(line)
           n == Len(pattern)
           after == InClass(pattern, s, c, nocase)
           w(i) == WriteElement(els[i])
           len(i) == Len(WriteElement(els[i]))
<1>1. line \in ByteStrings /\ \E at : ElementsAt(els, line, at)
  BY ElementsLaid
<1>2. PICK at : ElementsAt(els, line, at)
  BY <1>1
<1>3. /\ \A i \in 1 .. K + 1 : at[i] \in Nat \ {0} /\ at[i] <= l + 1 /\ i <= at[i]
      /\ at[1] = 1 /\ at[K + 1] = l + 1
      /\ \A i \in 1 .. K : at[i + 1] = at[i] + len(i) /\ Written(line, at[i], w(i))
  BY <1>2 DEF ElementsAt
<1>4. K \in Nat /\ l \in Nat /\ n \in Nat /\ \A i \in 1 .. K : els[i] \in Elements
  BY <1>1, StringLength, ListOfElements
<1>5. \A i \in 1 .. K : w(i) \in ByteStrings /\ len(i) \in Nat
  <2> TAKE i \in 1 .. K
  <2>1. els[i] \in Elements
    BY <1>4
  <2> QED BY <2>1, ElementWritten, StringLength
<1>6. s + l <= n /\ Written(pattern, s, line) /\ pattern[s + l] = RBracket
  BY DEF ClassAt
<1>7. s \in 1 .. n + 1
  BY <1>4, <1>6
<1>8. /\ after[0] = Scan(s, FALSE, TRUE)
      /\ \A k \in Nat : after[k + 1] = ClassTurn(pattern, c, nocase, after[k])
  <2>1. TurnsFrom(pattern, s, c, nocase, after)
    BY <1>7, ClassSteps
  <2> QED BY <2>1, Zenon DEF TurnsFrom
<1>9. \A i \in 1 .. K : /\ PlainInside(els[i])
                        /\ i > 1 /\ Unquoted(els[i - 1]) => w(i)[1] # Minus
  BY DEF CanFollow
<1> HIDE DEF K, line, l, n, after, w, len
<1>10. ASSUME NEW i \in 1 .. K
       PROVE  /\ Written(pattern, s + at[i] - 1, w(i))
              /\ s + at[i] - 1 \in 1 .. n + 1
              /\ s + at[i] - 1 + len(i) = s + at[i + 1] - 1
              /\ s + at[i + 1] - 1 <= n
  <2>1. i \in 1 .. K + 1 /\ i + 1 \in 1 .. K + 1
    BY <1>4
  <2> DEFINE q == at[i]
             r == at[i + 1]
             m == len(i)
  <2>2. q \in Nat \ {0} /\ q <= l + 1 /\ r \in Nat \ {0} /\ r <= l + 1 /\ r = q + m /\ m \in Nat
    BY <1>3, <1>5, <2>1
  <2>3. Written(line, q, w(i))
    BY <1>3
  <2> HIDE DEF q, r, m
  <2>4. s + q - 1 \in 1 .. n + 1 /\ s + q - 1 + m = s + r - 1 /\ s + r - 1 <= n /\ q >= 1 /\ q + m <= l + 1
    BY <1>4, <1>6, <2>2
  <2>5. Written(pattern, s + q - 1, w(i))
    <3>1. Len(line) \in Nat /\ Len(w(i)) \in Nat /\ q + Len(w(i)) <= Len(line) + 1
      BY <1>4, <2>2, <2>4 DEF l, m, len, w
    <3>2. s \in Nat /\ q \in Nat
      BY <2>2
    <3> QED BY <1>6, <2>3, <2>4, <3>1, <3>2, WrittenWithin
  <2> QED BY <2>4, <2>5 DEF q, r, m
<1>11. ASSUME NEW i \in 1 .. K, Unquoted(els[i])
       PROVE  pattern[s + at[i] - 1 + 1] # Minus
  <2> DEFINE p == s + at[i] - 1
             e == els[i]
  <2>1. e \in Elements /\ e.from = e.to /\ ~e.quoted
    BY <1>4, <1>11 DEF Unquoted
  <2>2. Len(WriteElement(e)) = 1
    BY <2>1, ElementWritten
  <2>3. p + 1 = s + at[i + 1] - 1
    BY <1>10, <2>2 DEF len
  <2> HIDE DEF p, e
  <2>4. CASE i = K
    <3>1. s + at[K + 1] - 1 = s + l
      BY <1>3, <1>4
    <3>2. RBracket # Minus
      BY DEF RBracket, Minus
    <3> QED BY <1>6, <2>3, <2>4, <3>1, <3>2 DEF p
  <2>5. CASE i # K
    <3>1. i + 1 \in 1 .. K /\ i + 1 > 1 /\ (i + 1) - 1 = i
      BY <1>4, <2>5
    <3> DEFINE j == i + 1
               m == s + at[j] - 1
    <3>2. w(j)[1] # Minus
      BY <1>9, <1>11, <3>1
    <3>3. Written(pattern, m, w(j)) /\ m \in 1 .. n + 1 /\ m + len(j) = s + at[j + 1] - 1
          /\ s + at[j + 1] - 1 <= n
      BY <1>10, <3>1
    <3>4. len(j) >= 1
      <4> DEFINE f == els[j]
      <4>1. f \in Elements
        BY <1>4, <3>1
      <4> HIDE DEF f
      <4>2. Len(WriteElement(f)) \in {1, 2, 3}
        BY <4>1, WrittenLength
      <4> DEFINE x == len(j)
      <4>3. x \in {1, 2, 3}
        BY <4>2, Zenon DEF f, len
      <4> HIDE DEF x
      <4>4. x >= 1
        BY <4>3
      <4> QED BY <4>4 DEF x
    <3>5. len(j) \in Nat
      BY <1>5, <3>1
    <3> HIDE DEF m
    <3>6. m \in 1 .. n /\ m + 1 - 1 = m
      <4> DEFINE x == len(j)
      <4>1. x >= 1 /\ x \in Nat /\ m + x <= n
        BY <3>3, <3>4, <3>5
      <4> HIDE DEF x
      <4> QED BY <1>4, <3>3, <4>1
    <3>7. 1 \in 1 .. len(j)
      <4> DEFINE x == len(j)
      <4>1. x >= 1 /\ x \in Nat
        BY <3>4, <3>5
      <4> HIDE DEF x
      <4>2. 1 \in 1 .. x
        BY <4>1
      <4> QED BY <4>2 DEF x
    <3>8. Char(pattern, m + 1 - 1) = w(j)[1]
      BY <3>3, <3>7 DEF Written, len, w
    <3>9. Char(pattern, m) = pattern[m]
      BY <3>6 DEF Char, n
    <3>10. p + 1 = m
      BY <2>3 DEF m
    <3>11. pattern[p + 1] # Minus
      BY <3>2, <3>6, <3>8, <3>9, <3>10
    <3> QED BY <3>11 DEF p
  <2> QED BY <2>4, <2>5
<1> DEFINE Seen(k) == Scan(s + at[k + 1] - 1, AnyIn(els, k, c, nocase), TRUE)
           T == {k \in Nat : k <= K => after[k] = Seen(k)}
<1>12. 0 \in T
  <2>1. AnyIn(els, 0, c, nocase) = FALSE
    BY DEF AnyIn
  <2>2. s + at[0 + 1] - 1 = s
    BY <1>3
  <2>3. Seen(0) = Scan(s, FALSE, TRUE)
    BY <2>1, <2>2, Zenon
  <2> HIDE DEF Seen
  <2> QED BY <1>8, <2>3
<1> HIDE DEF Seen
<1>13. ASSUME NEW k \in Nat, k \in T PROVE k + 1 \in T
  <2> SUFFICES ASSUME k + 1 <= K
               PROVE  after[k + 1] = Seen(k + 1)
    OBVIOUS
  <2> DEFINE i == k + 1
             p == s + at[i] - 1
             e == els[i]
             m == AnyIn(els, k, c, nocase)
             a == Scan(p, m, TRUE)
  <2>1. i \in 1 .. K
    BY <1>4
  <2>2. after[k] = a
    <3>1. after[k] = Seen(k)
      BY <1>4, <1>13
    <3> QED BY <3>1, Zenon DEF Seen
  <2>3. after[i] = ClassTurn(pattern, c, nocase, a)
    BY <1>8, <2>2
  <2>4. m \in BOOLEAN
    BY DEF AnyIn
  <2>5. AnyIn(els, i, c, nocase) <=> (m \/ InSpan(e, c, nocase))
    <3>1. \A q : q \in 1 .. i <=> q \in 1 .. k \/ q = i
      OBVIOUS
    <3> HIDE DEF i
    <3> QED BY <3>1, Zenon DEF AnyIn
  <2> HIDE DEF i, m
  <2>6. /\ Written(pattern, p, WriteElement(e)) /\ p \in 1 .. n + 1
        /\ p + Len(WriteElement(e)) = s + at[i + 1] - 1 /\ s + at[i + 1] - 1 <= n
    BY <1>10, <2>1 DEF w, len
  <2>7. e \in Elements /\ PlainInside(e)
    BY <1>4, <1>9, <2>1
  <2>8. Unquoted(e) => pattern[p + 1] # Minus
    BY <1>11, <2>1
  <2> HIDE DEF p, e
  <2>9. a \in ClassStates(pattern) /\ a.open = TRUE /\ a.p = p /\ a.match = m
    <3>1. p \in 1 .. Len(pattern) + 1 /\ TRUE \in BOOLEAN
      BY <2>6 DEF n
    <3> QED BY <2>4, <3>1 DEF Scan, ClassStates
  <2> HIDE DEF a
  <2>10. a.p + Len(WriteElement(e)) <= Len(pattern)
    BY <2>6, <2>9 DEF n
  <2>11. Written(pattern, a.p, WriteElement(e)) /\ (Unquoted(e) => pattern[a.p + 1] # Minus)
    BY <2>6, <2>8, <2>9
  <2>12. ClassTurn(pattern, c, nocase, a)
           = Scan(a.p + Len(WriteElement(e)), a.match \/ InSpan(e, c, nocase), TRUE)
    BY <2>7, <2>9, <2>10, <2>11, ElementRead
  <2>13. AnyIn(els, i, c, nocase) = (a.match \/ InSpan(e, c, nocase))
    <3>1. AnyIn(els, i, c, nocase) \in BOOLEAN
      BY DEF AnyIn
    <3> QED BY <2>5, <2>9, <3>1
  <2>14. a.p + Len(WriteElement(e)) = s + at[i + 1] - 1
    BY <2>6, <2>9
  <2>15. after[i] = Scan(s + at[i + 1] - 1, AnyIn(els, i, c, nocase), TRUE)
    BY <2>3, <2>12, <2>13, <2>14, Zenon
  <2> QED BY <2>15, Zenon DEF i, Seen
<1>14. Nat \subseteq T
  <2> HIDE DEF T
  <2> QED BY <1>12, <1>13, SetInduction
<1>15. after[K] = Seen(K)
  BY <1>4, <1>14
<1>16. s + at[K + 1] - 1 = s + l
  BY <1>3, <1>4
<1>17. K <= l
  <2>1. K + 1 \in 1 .. K + 1
    BY <1>4
  <2>2. K + 1 <= at[K + 1]
    BY <1>3, <2>1
  <2> QED BY <1>3, <1>4, <2>2
<1> QED BY <1>15, <1>16, <1>17, Zenon DEF Seen, K, l, line, after

(* The turns after them find the end of the class and change nothing more.   *)
LEMMA ClassRead ==
  ASSUME NEW pattern \in ByteStrings, NEW s \in Nat \ {0}, NEW els \in ElementLists,
         CanFollow(els), ClassAt(pattern, s, els), NEW c \in Chars, NEW nocase \in BOOLEAN
  PROVE  InClass(pattern, s, c, nocase)[Len(pattern) + 1]
           = Scan(s + Len(WriteElements(els)) + 1, AnyIn(els, Len(els), c, nocase), FALSE)
<1> DEFINE K == Len(els)
           l == Len(WriteElements(els))
           n == Len(pattern)
           after == InClass(pattern, s, c, nocase)
           m == AnyIn(els, K, c, nocase)
           q == s + l
           a == Scan(q, m, TRUE)
           b == Scan(q + 1, m, FALSE)
<1>1. K <= l /\ after[K] = a
  BY ElementsRead
<1>2. q <= n /\ pattern[q] = RBracket
  BY DEF ClassAt
<1>3. K \in Nat /\ l \in Nat /\ n \in Nat
  BY ElementsLaid, StringLength, ListOfElements
<1>4. m \in BOOLEAN
  BY DEF AnyIn
<1> HIDE DEF n, K, l, m
<1>5. q \in 1 .. n + 1 /\ q + 1 \in 1 .. n + 1 /\ s \in 1 .. n + 1
  BY <1>2, <1>3
<1>6. TurnsFrom(pattern, s, c, nocase, after)
  BY <1>5, ClassSteps DEF n
<1> HIDE DEF after, q
<1>7. a \in ClassStates(pattern) /\ a.p = q /\ a.match = m /\ a.open = TRUE
  BY <1>4, <1>5 DEF Scan, ClassStates, n
<1>8. b \in ClassStates(pattern) /\ b.p = q + 1 /\ b.match = m /\ b.open = FALSE
  BY <1>4, <1>5 DEF Scan, ClassStates, n
<1>9. ClassTurn(pattern, c, nocase, a) = b
  <2>1. TurnMeans(pattern, n, c, nocase, a, a.p, ClassTurn(pattern, c, nocase, a))
    BY <1>7, ClassTurnMeans DEF n
  <2>2. a.open /\ a.p <= n /\ pattern[a.p] = RBracket
    BY <1>2, <1>7
  <2>3. ClassTurn(pattern, c, nocase, a) = Scan(a.p + 1, a.match, FALSE)
    BY <2>1, <2>2, Zenon DEF TurnMeans
  <2> QED BY <1>7, <2>3
<1>10. ClassTurn(pattern, c, nocase, b) = b
  <2>1. TurnMeans(pattern, n, c, nocase, b, b.p, ClassTurn(pattern, c, nocase, b))
    BY <1>8, ClassTurnMeans DEF n
  <2>2. ~b.open
    BY <1>8
  <2> QED BY <2>1, <2>2, Zenon DEF TurnMeans
<1> HIDE DEF a, b
<1>11. \A k \in Nat : after[k + 1] = ClassTurn(pattern, c, nocase, after[k])
  BY <1>6, Zenon DEF TurnsFrom
<1> DEFINE T == {j \in Nat : after[K + 1 + j] = b}
<1>12. 0 \in T
  <2>1. after[K + 1] = b
    BY <1>1, <1>3, <1>9, <1>11
  <2>2. K + 1 + 0 = K + 1
    BY <1>3
  <2> QED BY <2>1, <2>2
<1>13. ASSUME NEW j \in Nat, j \in T PROVE j + 1 \in T
  <2> DEFINE k == K + 1 + j
  <2>1. k \in Nat /\ K + 1 + (j + 1) = k + 1
    BY <1>3
  <2>2. after[k] = b
    BY <1>13
  <2> HIDE DEF k
  <2>3. after[k + 1] = b
    BY <1>10, <1>11, <2>1, <2>2
  <2> QED BY <2>1, <2>3
<1>14. Nat \subseteq T
  <2> HIDE DEF T
  <2> QED BY <1>12, <1>13, SetInduction
<1>15. n - K \in Nat /\ K + 1 + (n - K) = n + 1
  BY <1>1, <1>2, <1>3 DEF q
<1>16. after[n + 1] = b
  BY <1>14, <1>15
<1> QED BY <1>16, Zenon DEF after, n, b, q, m, l, K

-----------------------------------------------------------------------------
(* One character of the text against the pattern, case by case.              *)
OneMeans(pattern, n, p, c, nocase, one) ==
  /\ pattern[p] = Question => one = [match |-> TRUE, p |-> p + 1]
  /\ pattern[p] = LBracket /\ At(pattern, p + 1) = Caret =>
       one = [match |-> InClass(pattern, p + 2, c, nocase)[n + 1].match # TRUE,
              p |-> InClass(pattern, p + 2, c, nocase)[n + 1].p]
  /\ pattern[p] = LBracket /\ At(pattern, p + 1) # Caret =>
       one = [match |-> InClass(pattern, p + 1, c, nocase)[n + 1].match # FALSE,
              p |-> InClass(pattern, p + 1, c, nocase)[n + 1].p]
  /\ pattern[p] = Backslash /\ p < n =>
       one = [match |-> Same(pattern[p + 1], c, nocase), p |-> (p + 1) + 1]
  /\ pattern[p] \notin {Question, LBracket} /\ ~(pattern[p] = Backslash /\ p < n) =>
       one = [match |-> Same(pattern[p], c, nocase), p |-> p + 1]

(* The cases are all there are.                                              *)
LEMMA OneCases ==
  ASSUME NEW pattern, NEW p, NEW c, NEW nocase
  PROVE  OneMeans(pattern, Len(pattern), p, c, nocase, One(pattern, p, c, nocase))
<1> DEFINE n == Len(pattern)
           not == At(pattern, p + 1) = Caret
           class == InClass(pattern, IF not THEN p + 2 ELSE p + 1, c, nocase)[n + 1]
           q == IF pattern[p] = Backslash /\ p < n THEN p + 1 ELSE p
           one == One(pattern, p, c, nocase)
<1>1. one = IF pattern[p] = Question THEN [match |-> TRUE, p |-> p + 1]
            ELSE IF pattern[p] = LBracket THEN [match |-> class.match # not, p |-> class.p]
            ELSE [match |-> Same(pattern[q], c, nocase), p |-> q + 1]
  BY Zenon DEF One
<1>2. LBracket # Question /\ Backslash # Question /\ Backslash # LBracket
  BY DEF LBracket, Question, Backslash
<1> HIDE DEF n, one
<1>3. pattern[p] = Question => one = [match |-> TRUE, p |-> p + 1]
  BY <1>1, Zenon
<1>4. ASSUME pattern[p] = LBracket, At(pattern, p + 1) = Caret
      PROVE  one = [match |-> InClass(pattern, p + 2, c, nocase)[n + 1].match # TRUE,
                    p |-> InClass(pattern, p + 2, c, nocase)[n + 1].p]
  <2>1. not = TRUE
    BY <1>4, Zenon
  <2>2. class = InClass(pattern, p + 2, c, nocase)[n + 1]
    BY <1>4, Zenon
  <2>3. pattern[p] # Question
    BY <1>2, <1>4
  <2> HIDE DEF not, class
  <2>4. one = [match |-> class.match # not, p |-> class.p]
    BY <1>1, <1>4, <2>3, Zenon
  <2>5. one = [match |-> class.match # TRUE, p |-> class.p]
    BY <2>1, <2>4, Zenon
  <2> QED BY <2>2, <2>5, Zenon
<1>5. ASSUME pattern[p] = LBracket, At(pattern, p + 1) # Caret
      PROVE  one = [match |-> InClass(pattern, p + 1, c, nocase)[n + 1].match # FALSE,
                    p |-> InClass(pattern, p + 1, c, nocase)[n + 1].p]
  <2>1. not = FALSE
    BY <1>5, Zenon
  <2>2. class = InClass(pattern, p + 1, c, nocase)[n + 1]
    BY <1>5, Zenon
  <2>3. pattern[p] # Question
    BY <1>2, <1>5
  <2> HIDE DEF not, class
  <2>4. one = [match |-> class.match # not, p |-> class.p]
    BY <1>1, <1>5, <2>3, Zenon
  <2>5. one = [match |-> class.match # FALSE, p |-> class.p]
    BY <2>1, <2>4, Zenon
  <2> QED BY <2>2, <2>5, Zenon
<1>6. ASSUME pattern[p] \notin {Question, LBracket}
      PROVE  one = [match |-> Same(pattern[q], c, nocase), p |-> q + 1]
  <2>1. pattern[p] # Question /\ pattern[p] # LBracket
    BY <1>6
  <2> HIDE DEF q, class, not
  <2> QED BY <1>1, <2>1, Zenon
<1>7. ASSUME pattern[p] = Backslash, p < n
      PROVE  one = [match |-> Same(pattern[p + 1], c, nocase), p |-> (p + 1) + 1]
  <2>1. q = p + 1
    BY <1>7, Zenon
  <2>2. pattern[p] \notin {Question, LBracket}
    BY <1>2, <1>7
  <2> HIDE DEF q
  <2> QED BY <1>6, <2>1, <2>2
<1>8. ASSUME pattern[p] \notin {Question, LBracket}, ~(pattern[p] = Backslash /\ p < n)
      PROVE  one = [match |-> Same(pattern[p], c, nocase), p |-> p + 1]
  <2>1. q = p
    BY <1>8, Zenon
  <2> HIDE DEF q
  <2> QED BY <1>6, <1>8, <2>1
<1>9. OneMeans(pattern, n, p, c, nocase, one)
  BY <1>3, <1>4, <1>5, <1>7, <1>8, Zenon DEF OneMeans
<1> QED BY <1>9 DEF n, one

-----------------------------------------------------------------------------
(* The items of a pattern.                                                   *)
LEMMA ItemFields ==
  ASSUME NEW item \in PatternItems
  PROVE  /\ item.kind \in {"star", "any", "one", "class"} /\ item.not \in BOOLEAN
         /\ item.elements \in ElementLists
         /\ item.kind = "one" => /\ Len(item.elements) = 1 /\ item.not = FALSE
                                 /\ item.elements[1] \in Elements /\ PlainOutside(item.elements[1])
         /\ item.kind = "class" => PlainClass(item)
<1>1. /\ item.kind \in {"star", "any", "one", "class"} /\ item.not \in BOOLEAN
      /\ item.elements \in ElementLists
  BY DEF PatternItems, ElementLists, Elements
<1>2. item.kind = "class" => PlainClass(item)
  BY DEF PatternItems
<1>3. item.kind = "one" => /\ Len(item.elements) = 1 /\ ~item.not
                           /\ PlainOutside(item.elements[1])
  BY DEF PatternItems
<1>4. item.kind = "one" => item.elements[1] \in Elements
  <2> DEFINE els == item.elements
  <2>1. els \in ElementLists /\ (item.kind = "one" => Len(els) = 1)
    BY <1>1, <1>3
  <2> HIDE DEF els
  <2>2. item.kind = "one" => els[1] \in Elements
    BY <2>1, ListOfElements
  <2> QED BY <2>2 DEF els
<1> QED BY <1>1, <1>2, <1>3, <1>4

(* What each kind of item is written as.                                     *)
LEMMA ItemWritten ==
  ASSUME NEW item \in PatternItems
  PROVE  /\ item.kind = "star" => WriteItem(item) = << Star >>
         /\ item.kind = "any" => WriteItem(item) = << Question >>
         /\ item.kind = "one" => WriteItem(item) = WriteElement(item.elements[1])
         /\ item.kind = "class" =>
              WriteItem(item) = << LBracket >> \o (IF item.not THEN << Caret >> ELSE << >>)
                                \o WriteElements(item.elements) \o << RBracket >>
BY DEF WriteItem

(* A character is a string of its own.                                       *)
LEMMA CharacterString ==
  ASSUME NEW b \in Chars
  PROVE  << b >> \in ByteStrings /\ Len(<< b >>) = 1 /\ << b >>[1] = b
BY DEF ByteStrings, Bytes, Chars

(* The characters with a meaning of their own are different.                 *)
LEMMA Marks ==
  /\ Star \in Chars /\ Question \in Chars /\ LBracket \in Chars /\ RBracket \in Chars
  /\ Caret \in Chars /\ Backslash \in Chars
  /\ Star # Question /\ Star # LBracket /\ Star # Backslash /\ RBracket # Caret /\ Star # NUL
  /\ NUL # Caret /\ Backslash # Question /\ Backslash # LBracket
BY DEF Star, Question, LBracket, RBracket, Caret, Backslash, NUL, Chars

(* How a class is written: the bracket, perhaps a caret, the elements and    *)
(* the bracket that closes it.                                               *)
ClassText(text, not, h, els) ==
  /\ text \in ByteStrings /\ h = (IF not THEN 2 ELSE 1)
  /\ Len(text) = h + Len(WriteElements(els)) + 1
  /\ text[1] = LBracket
  /\ not => text[2] = Caret
  /\ Written(text, h + 1, WriteElements(els))
  /\ text[h + Len(WriteElements(els)) + 1] = RBracket

(* An item that is a class is written so.                                    *)
LEMMA ClassWritten ==
  ASSUME NEW item \in PatternItems, item.kind = "class"
  PROVE  ClassText(WriteItem(item), item.not, IF item.not THEN 2 ELSE 1, item.elements)
<1> DEFINE els == item.elements
           w == WriteElements(els)
           l == Len(w)
           pre == << LBracket >> \o (IF item.not THEN << Caret >> ELSE << >>)
           h == IF item.not THEN 2 ELSE 1
           text == WriteItem(item)
           close == << RBracket >>
<1>1. text = (pre \o w) \o close
  BY ItemWritten
<1>2. els \in ElementLists /\ item.not \in BOOLEAN
  BY ItemFields
<1>3. w \in ByteStrings /\ l \in Nat
  BY <1>2, ElementsLaid, StringLength
<1>4. /\ pre \in ByteStrings /\ Len(pre) = h /\ h \in Nat /\ h >= 1
      /\ pre[1] = LBracket /\ (item.not => pre[2] = Caret)
  <2>1. << LBracket >> \in ByteStrings /\ Len(<< LBracket >>) = 1 /\ << LBracket >>[1] = LBracket
        /\ << Caret >> \in ByteStrings /\ Len(<< Caret >>) = 1 /\ << Caret >>[1] = Caret
    BY Marks, CharacterString
  <2> DEFINE x == << LBracket >>
             y == << Caret >>
  <2>2. CASE item.not
    <3>1. pre = x \o y /\ h = 2
      BY <2>2
    <3>2. /\ x \in ByteStrings /\ Len(x) = 1 /\ x[1] = LBracket
          /\ y \in ByteStrings /\ Len(y) = 1 /\ y[1] = Caret
      BY <2>1
    <3> HIDE DEF x, y, pre, h
    <3>3. /\ x \o y \in ByteStrings /\ Len(x \o y) = Len(x) + Len(y)
          /\ \A i \in 1 .. Len(x) : (x \o y)[i] = x[i]
          /\ \A i \in 1 .. Len(y) : (x \o y)[Len(x) + i] = y[i]
      BY <3>2, StringsJoined
    <3>4. 1 \in 1 .. Len(x) /\ 1 \in 1 .. Len(y) /\ Len(x) + 1 = 2 /\ Len(x) + Len(y) = 2
      BY <3>2
    <3> QED BY <3>1, <3>2, <3>3, <3>4
  <2>3. CASE ~item.not
    <3>1. pre = x \o << >> /\ h = 1
      BY <2>3
    <3>2. x \o << >> = x
      BY <2>1, StringsJoined
    <3>3. pre = x
      BY <3>1, <3>2
    <3> HIDE DEF pre, h
    <3> QED BY <2>1, <2>3, <3>1, <3>3
  <2> QED BY <2>2, <2>3
<1>5. close \in ByteStrings /\ Len(close) = 1 /\ close[1] = RBracket
  BY Marks, CharacterString
<1> HIDE DEF w, pre, close, h, text
<1> DEFINE u == pre \o w
<1>6. u \in ByteStrings /\ Len(u) = h + l /\ \A i \in 1 .. Len(pre) : u[i] = pre[i]
  BY <1>3, <1>4, StringsJoined
<1>7. Begins(pre \o w, u \o close)
  BY <1>5, <1>6, BeginsSelf
<1> HIDE DEF u
<1>8. /\ text \in ByteStrings /\ Len(text) = Len(u) + 1
      /\ \A i \in 1 .. Len(u) : text[i] = u[i]
      /\ \A i \in 1 .. Len(close) : text[Len(u) + i] = close[i]
  <2>1. text = u \o close
    BY <1>1 DEF u
  <2>2. /\ u \o close \in ByteStrings /\ Len(u \o close) = Len(u) + Len(close)
        /\ \A i \in 1 .. Len(u) : (u \o close)[i] = u[i]
        /\ \A i \in 1 .. Len(close) : (u \o close)[Len(u) + i] = close[i]
    BY <1>5, <1>6, StringsJoined
  <2> QED BY <1>5, <2>1, <2>2
<1>9. Begins(pre \o w, text)
  BY <1>1, <1>7 DEF u
<1>10. Written(text, h + 1, w)
  <2>1. Written(text, Len(pre) + 1, w)
    BY <1>3, <1>4, <1>8, <1>9, WrittenAfter
  <2> QED BY <1>4, <2>1
<1> HIDE DEF l
<1>11. text[h + l + 1] = RBracket /\ Len(text) = h + l + 1
  <2>1. 1 \in 1 .. Len(close) /\ Len(u) + 1 = h + l + 1
    BY <1>3, <1>4, <1>5, <1>6
  <2> QED BY <1>5, <1>8, <2>1
<1>12. text[1] = LBracket
  <2>1. 1 \in 1 .. Len(u) /\ 1 \in 1 .. Len(pre)
    BY <1>3, <1>4, <1>6
  <2> QED BY <1>4, <1>6, <1>8, <2>1
<1>13. item.not => text[2] = Caret
  <2> SUFFICES ASSUME item.not PROVE text[2] = Caret
    OBVIOUS
  <2>1. h = 2
    BY DEF h
  <2>2. 2 \in 1 .. Len(u) /\ 2 \in 1 .. Len(pre)
    BY <1>3, <1>4, <1>6, <2>1
  <2> QED BY <1>4, <1>6, <1>8, <2>2
<1>14. ClassText(text, item.not, h, els)
  BY <1>8, <1>10, <1>11, <1>12, <1>13 DEF ClassText, l, w, h
<1> QED BY <1>14, Zenon DEF text, h

(* What is written at a place of a pattern is read there.                    *)
ReadsAt(pattern, p, text) ==
  \A i \in 1 .. Len(text) : /\ p + i - 1 \in 1 .. Len(pattern)
                            /\ pattern[p + i - 1] = text[i]
                            /\ At(pattern, p + i - 1) = text[i]

(* Where it is written.                                                      *)
LEMMA ReadAt ==
  ASSUME NEW pattern \in ByteStrings, NEW p \in Nat \ {0}, NEW text, Len(text) \in Nat,
         p + Len(text) <= Len(pattern) + 1, Written(pattern, p, text)
  PROVE  ReadsAt(pattern, p, text)
<1> DEFINE n == Len(pattern)
           l == Len(text)
<1>1. n \in Nat /\ l \in Nat /\ p + l <= n + 1
  BY StringLength
<1>2. \A i \in 1 .. l : Char(pattern, p + i - 1) = text[i]
  BY DEF Written
<1> HIDE DEF l
<1>3. ASSUME NEW i \in 1 .. l
      PROVE  p + i - 1 \in 1 .. n /\ pattern[p + i - 1] = text[i] /\ At(pattern, p + i - 1) = text[i]
  <2> DEFINE q == p + i - 1
  <2>1. q \in 1 .. n
    <3> HIDE DEF n
    <3> QED BY <1>1
  <2>2. Char(pattern, q) = text[i]
    BY <1>2
  <2> HIDE DEF q
  <2>3. Char(pattern, q) = pattern[q]
    BY <2>1 DEF Char
  <2>4. At(pattern, q) = pattern[q]
    BY <2>1, AtMeans
  <2> QED BY <2>1, <2>2, <2>3, <2>4 DEF q
<1> QED BY <1>3 DEF ReadsAt, l

(* A class that is written at a place of a pattern reads one character.      *)
LEMMA ClassItemRead ==
  ASSUME NEW pattern \in ByteStrings, NEW p \in Nat \ {0},
         NEW item \in PatternItems, item.kind = "class",
         p + Len(WriteItem(item)) <= Len(pattern) + 1, Written(pattern, p, WriteItem(item)),
         NEW c \in Chars, NEW nocase \in BOOLEAN
  PROVE  /\ One(pattern, p, c, nocase)
              = [match |-> Denotes(item, c, nocase), p |-> p + Len(WriteItem(item))]
         /\ At(pattern, p) # Star
<1> DEFINE els == item.elements
           w == WriteElements(els)
           l == Len(w)
           n == Len(pattern)
           not == item.not
           h == IF not THEN 2 ELSE 1
           text == WriteItem(item)
           K == Len(els)
           s == p + h
           one == One(pattern, p, c, nocase)
           class == InClass(pattern, s, c, nocase)[n + 1]
           m == AnyIn(els, K, c, nocase)
<1>1. els \in ElementLists /\ not \in BOOLEAN /\ PlainClass(item)
  BY ItemFields
<1>2. ClassText(text, not, h, els)
  BY ClassWritten, Zenon
<1>3. OneMeans(pattern, n, p, c, nocase, one)
  BY OneCases
<1>4. w \in ByteStrings /\ \E at : ElementsAt(els, w, at)
  BY <1>1, ElementsLaid
<1>5. PICK at : ElementsAt(els, w, at)
  BY <1>4
<1>6. l \in Nat /\ K \in Nat /\ n \in Nat /\ h \in {1, 2} /\ (h = 2 <=> not)
      /\ DOMAIN els = 1 .. K /\ \A i \in 1 .. K : els[i] \in Elements
  BY <1>1, <1>4, ListOfElements, StringLength
<1>7. /\ text \in ByteStrings /\ Len(text) = h + l + 1 /\ text[1] = LBracket /\ (not => text[2] = Caret)
      /\ Written(text, h + 1, w) /\ text[h + l + 1] = RBracket
  BY <1>2 DEF ClassText
<1>8. Denotes(item, c, nocase) = (m # not)
  <2>1. (\E i \in DOMAIN els : InSpan(els[i], c, nocase)) <=> m
    BY <1>6, Zenon DEF AnyIn
  <2>2. item.kind # "any"
    OBVIOUS
  <2>3. Denotes(item, c, nocase) <=> (m # not)
    <3>1. Denotes(item, c, nocase) <=> ((\E i \in DOMAIN els : InSpan(els[i], c, nocase)) # not)
      BY <2>2, Zenon DEF Denotes
    <3>2. (\E i \in DOMAIN els : InSpan(els[i], c, nocase)) = m
      BY <2>1 DEF AnyIn
    <3> QED BY <3>1, <3>2
  <2> QED BY <2>3 DEF Denotes
<1>9. /\ p + Len(text) <= n + 1 /\ Written(pattern, p, text)
  OBVIOUS
<1>10. CanFollow(els)
  BY <1>1, <1>6 DEF PlainClass, CanFollow
<1>11. K >= 1 /\ ~not => WriteElement(els[1])[1] # Caret
  <2>1. K >= 1 => 1 \in DOMAIN els
    BY <1>6
  <2> QED BY <1>1, <2>1 DEF PlainClass
<1> HIDE DEF els, w, l, n, not, h, text, K, one, class, m
<1>12. \A i \in 1 .. h + l + 1 : /\ p + i - 1 \in 1 .. n /\ pattern[p + i - 1] = text[i]
                                 /\ At(pattern, p + i - 1) = text[i]
  <2>1. Len(text) \in Nat
    BY <1>7, StringLength
  <2>2. p + Len(text) <= Len(pattern) + 1
    BY <1>9 DEF n
  <2>3. \A i \in 1 .. Len(text) : /\ p + i - 1 \in 1 .. Len(pattern) /\ pattern[p + i - 1] = text[i]
                                  /\ At(pattern, p + i - 1) = text[i]
    <3>1. ReadsAt(pattern, p, text)
      BY <1>9, <2>1, <2>2, ReadAt
    <3> QED BY <3>1, Zenon DEF ReadsAt
  <2>4. \A i \in 1 .. h + l + 1 : i \in 1 .. Len(text)
    BY <1>7
  <2> HIDE DEF text
  <2> QED BY <2>3, <2>4 DEF n
<1>13. pattern[p] = LBracket /\ At(pattern, p) = LBracket
  <2>1. 1 \in 1 .. h + l + 1 /\ p + 1 - 1 = p
    BY <1>6
  <2> QED BY <1>7, <1>12, <2>1
<1>14. not => At(pattern, p + 1) = Caret
  <2>1. 2 \in 1 .. h + l + 1 /\ p + 2 - 1 = p + 1
    BY <1>6
  <2> QED BY <1>7, <1>12, <2>1
<1>15. pattern[s + l] = RBracket /\ At(pattern, s + l) = RBracket /\ s + l <= n /\ s \in Nat \ {0}
       /\ s + l + 1 = p + Len(text)
  <2>1. h + l + 1 \in 1 .. h + l + 1 /\ p + (h + l + 1) - 1 = s + l
    BY <1>6
  <2>2. s + l \in 1 .. n /\ pattern[s + l] = text[h + l + 1] /\ At(pattern, s + l) = text[h + l + 1]
    BY <1>12, <2>1
  <2> QED BY <1>6, <1>7, <2>2
<1>16. Written(pattern, s, w)
  <2>1. h + 1 \in Nat /\ h + 1 >= 1 /\ (h + 1) + l <= (h + l + 1) + 1 /\ p + (h + 1) - 1 = s /\ p \in Nat
        /\ h + l + 1 \in Nat
    BY <1>6
  <2>2. Len(w) \in Nat /\ Len(text) \in Nat /\ (h + 1) + Len(w) <= Len(text) + 1
    BY <1>6, <1>7, <2>1 DEF l
  <2>3. Written(pattern, p + (h + 1) - 1, w)
    BY <1>7, <1>9, <2>1, <2>2, WrittenWithin
  <2> QED BY <2>1, <2>3
<1>17. ClassAt(pattern, s, els)
  BY <1>15, <1>16 DEF ClassAt, l, w, n
<1>18. class = Scan(s + l + 1, m, FALSE)
  <2> HIDE DEF s
  <2>1. InClass(pattern, s, c, nocase)[Len(pattern) + 1]
          = Scan(s + Len(WriteElements(els)) + 1, AnyIn(els, Len(els), c, nocase), FALSE)
    BY <1>1, <1>10, <1>15, <1>17, ClassRead
  <2> QED BY <2>1, Zenon DEF class, l, w, n, m, K
<1>19. class.p = p + Len(text) /\ class.match = m
  <2>1. class.p = s + l + 1 /\ class.match = m
    BY <1>18 DEF Scan
  <2> QED BY <1>15, <2>1
<1>20. ~not => At(pattern, p + 1) # Caret
  <2> SUFFICES ASSUME ~not PROVE At(pattern, p + 1) # Caret
    OBVIOUS
  <2>1. s = p + 1
    BY <1>6
  <2>2. CASE K = 0
    <3>1. at[1] = 1 /\ at[K + 1] = l + 1
      BY <1>5 DEF ElementsAt, l, K
    <3>2. s + l = p + 1
      BY <1>6, <2>1, <2>2, <3>1
    <3>3. RBracket # Caret
      BY Marks
    <3> QED BY <1>15, <3>2, <3>3
  <2>3. CASE K # 0
    <3> DEFINE v == WriteElement(els[1])
    <3>1. 1 \in 1 .. K /\ K >= 1
      BY <1>6, <2>3
    <3>2. v \in ByteStrings /\ Len(v) \in {1, 2, 3}
      <4> DEFINE e == els[1]
      <4>1. e \in Elements
        BY <1>6, <3>1
      <4> HIDE DEF e
      <4>2. WriteElement(e) \in ByteStrings /\ Len(WriteElement(e)) \in {1, 2, 3}
        BY <4>1, ElementWritten, ElementFields
      <4> QED BY <4>2 DEF e
    <3>3. at[1] = 1 /\ at[2] = 1 + Len(v) /\ Written(w, 1, v) /\ at[2] <= l + 1
      <4>1. at[1] = 1 /\ at[1 + 1] = at[1] + Len(v) /\ Written(w, at[1], v)
        BY <1>5, <3>1 DEF ElementsAt, K
      <4>2. 2 \in 1 .. K + 1
        BY <1>6, <3>1
      <4>3. at[2] <= l + 1
        BY <1>5, <4>2 DEF ElementsAt, K, l
      <4> QED BY <4>1, <4>3
    <3>4. v[1] # Caret
      BY <1>11, <3>1
    <3> HIDE DEF v
    <3>5. 1 \in 1 .. Len(v) /\ 1 \in 1 .. l /\ s + 1 - 1 = s
      <4> DEFINE x == Len(v)
      <4>1. x \in {1, 2, 3} /\ 1 + x <= l + 1
        BY <3>2, <3>3
      <4> HIDE DEF x, s
      <4>2. 1 \in 1 .. x /\ 1 \in 1 .. l
        BY <1>6, <4>1
      <4>3. s + 1 - 1 = s
        BY <1>15
      <4> QED BY <4>2, <4>3 DEF x
    <3>6. Char(w, 1 + 1 - 1) = v[1]
      BY <3>3, <3>5 DEF Written
    <3>7. Char(w, 1) = w[1]
      BY <3>5 DEF Char, l
    <3>8. s + l <= Len(pattern) + 1 /\ Len(w) \in Nat
      BY <1>6, <1>15 DEF n, l
    <3>9. s + Len(w) <= Len(pattern) + 1
      BY <3>8 DEF l
    <3>10. At(pattern, s + 1 - 1) = w[1]
      <4> HIDE DEF s
      <4>1. \A i \in 1 .. Len(w) : At(pattern, s + i - 1) = w[i]
        <5>1. ReadsAt(pattern, s, w)
          BY <1>15, <1>16, <3>8, <3>9, ReadAt
        <5> QED BY <5>1, Zenon DEF ReadsAt
      <4> QED BY <3>5, <4>1 DEF l
    <3> QED BY <2>1, <3>4, <3>5, <3>6, <3>7, <3>10
  <2> QED BY <2>2, <2>3
<1>21. one = [match |-> class.match # not, p |-> class.p]
  <2>1. CASE not
    <3>1. s = p + 2 /\ not = TRUE
      BY <1>1, <1>6, <2>1
    <3>2. one = [match |-> InClass(pattern, p + 2, c, nocase)[n + 1].match # TRUE,
                 p |-> InClass(pattern, p + 2, c, nocase)[n + 1].p]
      BY <1>3, <1>13, <1>14, <2>1, Zenon DEF OneMeans
    <3> HIDE DEF s
    <3> QED BY <3>1, <3>2, Zenon DEF class
  <2>2. CASE ~not
    <3>1. s = p + 1 /\ not = FALSE
      BY <1>1, <1>6, <2>2
    <3>2. one = [match |-> InClass(pattern, p + 1, c, nocase)[n + 1].match # FALSE,
                 p |-> InClass(pattern, p + 1, c, nocase)[n + 1].p]
      BY <1>3, <1>13, <1>20, <2>2, Zenon DEF OneMeans
    <3> HIDE DEF s
    <3> QED BY <3>1, <3>2, Zenon DEF class
  <2> QED BY <2>1, <2>2
<1>22. one = [match |-> Denotes(item, c, nocase), p |-> p + Len(text)]
  BY <1>8, <1>19, <1>21, Zenon
<1>23. At(pattern, p) # Star
  BY <1>13, Marks
<1> QED BY <1>22, <1>23, Zenon DEF one, text

(* An item that is not a star reads one character and is left behind.        *)
LEMMA ItemRead ==
  ASSUME NEW pattern \in ByteStrings, NEW p \in Nat \ {0},
         NEW item \in PatternItems, item.kind # "star",
         p + Len(WriteItem(item)) <= Len(pattern) + 1, Written(pattern, p, WriteItem(item)),
         NEW c \in Chars, NEW nocase \in BOOLEAN
  PROVE  /\ One(pattern, p, c, nocase)
              = [match |-> Denotes(item, c, nocase), p |-> p + Len(WriteItem(item))]
         /\ At(pattern, p) # Star
<1> DEFINE n == Len(pattern)
           text == WriteItem(item)
           one == One(pattern, p, c, nocase)
<1>1. OneMeans(pattern, n, p, c, nocase, one)
  BY OneCases
<1>2. n \in Nat
  BY StringLength
<1>3. item.kind \in {"any", "one", "class"}
  BY ItemFields
<1>4. CASE item.kind = "class"
  BY <1>4, ClassItemRead
<1>5. CASE item.kind = "any"
  <2>1. text = << Question >> /\ Len(text) = 1 /\ text[1] = Question
    BY <1>5, ItemWritten, Marks, CharacterString
  <2>2. ReadsAt(pattern, p, text)
    BY <2>1, ReadAt
  <2>3. pattern[p] = Question /\ At(pattern, p) = Question
    <3>1. 1 \in 1 .. 1 /\ p + 1 - 1 = p
      OBVIOUS
    <3> HIDE DEF text
    <3> QED BY <2>1, <2>2, <3>1 DEF ReadsAt
  <2>4. Denotes(item, c, nocase) = TRUE
    BY <1>5 DEF Denotes
  <2> HIDE DEF text, one
  <2>5. one = [match |-> TRUE, p |-> p + 1]
    BY <1>1, <2>3, Zenon DEF OneMeans
  <2>6. one = [match |-> Denotes(item, c, nocase), p |-> p + Len(text)]
    BY <2>1, <2>4, <2>5, Zenon
  <2>7. At(pattern, p) # Star
    BY <2>3, Marks
  <2> QED BY <2>6, <2>7 DEF text, one
<1>6. CASE item.kind = "one"
  <2> DEFINE e == item.elements[1]
  <2>1. /\ Len(item.elements) = 1 /\ item.not = FALSE /\ e \in Elements /\ PlainOutside(e)
        /\ item.elements \in ElementLists /\ text = WriteElement(e)
    BY <1>6, ItemFields, ItemWritten
  <2>2. Denotes(item, c, nocase) <=> InSpan(e, c, nocase)
    <3>1. \A i : i \in DOMAIN item.elements <=> i = 1
      BY <2>1, ListOfElements
    <3>2. item.kind # "any"
      BY <1>6
    <3>3. (\E i \in DOMAIN item.elements : InSpan(item.elements[i], c, nocase)) <=> InSpan(e, c, nocase)
      BY <3>1, Zenon
    <3>4. InSpan(e, c, nocase) \in BOOLEAN
      BY DEF InSpan
    <3>5. Denotes(item, c, nocase)
            <=> ((\E i \in DOMAIN item.elements : InSpan(item.elements[i], c, nocase)) # FALSE)
      BY <2>1, <3>2, Zenon DEF Denotes
    <3> HIDE DEF e
    <3> QED BY <3>3, <3>4, <3>5, Zenon
  <2> HIDE DEF e, one
  <2>3. e.from = e.to /\ (e.quoted \/ e.from \notin {Star, Question, LBracket, Backslash})
    BY <2>1 DEF PlainOutside
  <2>4. Denotes(item, c, nocase) = Same(e.from, c, nocase)
    <3>1. InSpan(e, c, nocase) <=> Same(e.from, c, nocase)
      BY <2>1, <2>3, SameMeans
    <3> QED BY <2>2, <3>1 DEF Denotes, Same
  <2>5. text = WriteElement(e) /\ p + Len(text) <= n + 1 /\ Written(pattern, p, text)
    BY <2>1
  <2> HIDE DEF text
  <2>6. Len(text) \in Nat => ReadsAt(pattern, p, text)
    BY <2>5, ReadAt DEF n
  <2>7. CASE e.quoted
    <3>1. Len(text) = 2 /\ text[1] = Backslash /\ text[2] = e.from
      BY <2>1, <2>3, <2>5, <2>7, ElementWritten
    <3>2. ReadsAt(pattern, p, text)
      BY <2>6, <3>1
    <3>3. 1 \in 1 .. 2 /\ 2 \in 1 .. 2 /\ p + 1 - 1 = p /\ p + 2 - 1 = p + 1
      OBVIOUS
    <3>4. pattern[p] = Backslash /\ At(pattern, p) = Backslash /\ pattern[p + 1] = e.from
          /\ p + 1 \in 1 .. n
      BY <3>1, <3>2, <3>3 DEF ReadsAt, n
    <3>5. p < n
      BY <1>2, <3>4
    <3>6. one = [match |-> Same(pattern[p + 1], c, nocase), p |-> (p + 1) + 1]
      BY <1>1, <3>4, <3>5, Zenon DEF OneMeans
    <3>7. (p + 1) + 1 = p + 2
      OBVIOUS
    <3>8. one = [match |-> Denotes(item, c, nocase), p |-> p + Len(text)]
      BY <2>4, <3>1, <3>4, <3>6, <3>7, Zenon
    <3>9. At(pattern, p) # Star
      BY <3>4, Marks
    <3> QED BY <3>8, <3>9, Zenon DEF text, one
  <2>8. CASE ~e.quoted
    <3>1. Len(text) = 1 /\ text[1] = e.from
      BY <2>1, <2>3, <2>5, <2>8, ElementWritten
    <3>2. ReadsAt(pattern, p, text)
      BY <2>6, <3>1
    <3>3. 1 \in 1 .. 1 /\ p + 1 - 1 = p
      OBVIOUS
    <3>4. pattern[p] = e.from /\ At(pattern, p) = e.from
      BY <3>1, <3>2, <3>3 DEF ReadsAt
    <3>5. pattern[p] \notin {Question, LBracket} /\ pattern[p] # Backslash /\ At(pattern, p) # Star
      BY <2>3, <2>8, <3>4
    <3>6. one = [match |-> Same(pattern[p], c, nocase), p |-> p + 1]
      BY <1>1, <3>5, Zenon DEF OneMeans
    <3>7. one = [match |-> Denotes(item, c, nocase), p |-> p + Len(text)]
      BY <2>4, <3>1, <3>4, <3>6, Zenon
    <3> QED BY <3>5, <3>7, Zenon DEF text, one
  <2> QED BY <2>7, <2>8
<1> QED BY <1>3, <1>4, <1>5, <1>6

(* Whatever the pattern, a character of the text takes at least one of it    *)
(* and does not leave it.                                                    *)
LEMMA OneForward ==
  ASSUME NEW pattern \in ByteStrings, NEW p \in 1 .. Len(pattern), NEW c, NEW nocase
  PROVE  One(pattern, p, c, nocase).p \in p + 1 .. Len(pattern) + 1
<1> DEFINE n == Len(pattern)
           one == One(pattern, p, c, nocase)
<1>1. OneMeans(pattern, n, p, c, nocase, one)
  BY OneCases
<1>2. n \in Nat
  BY StringLength
<1>3. At(pattern, n + 1) = NUL
  BY AtMeans
<1>4. ASSUME NEW q \in p + 1 .. n + 1
      PROVE  InClass(pattern, q, c, nocase)[n + 1].p \in p + 1 .. n + 1
  <2> DEFINE a == InClass(pattern, q, c, nocase)[n + 1]
  <2>1. q \in 1 .. n + 1 /\ n + 1 \in Nat
    BY <1>2
  <2>2. TurnsFrom(pattern, q, c, nocase, InClass(pattern, q, c, nocase))
    BY <2>1, ClassSteps
  <2>3. a \in ClassStates(pattern) /\ a.p >= q
    BY <2>1, <2>2, Zenon DEF TurnsFrom
  <2> HIDE DEF a
  <2>4. a.p \in 1 .. n + 1
    BY <2>3 DEF ClassStates
  <2>5. a.p \in p + 1 .. n + 1
    <3> HIDE DEF n
    <3> QED BY <1>2, <2>3, <2>4
  <2> QED BY <2>5 DEF a
<1>5. p \in 1 .. n
  OBVIOUS
<1> HIDE DEF n, one
<1>6. CASE pattern[p] = Question
  <2>1. one = [match |-> TRUE, p |-> p + 1]
    BY <1>1, <1>6, Zenon DEF OneMeans
  <2>2. one.p = p + 1 /\ p + 1 \in p + 1 .. n + 1
    BY <1>2, <1>5, <2>1
  <2> QED BY <2>2 DEF one, n
<1>7. CASE pattern[p] = LBracket /\ At(pattern, p + 1) = Caret
  <2>1. p + 1 # n + 1
    <3>1. NUL # Caret
      BY Marks
    <3> QED BY <1>3, <1>7, <3>1
  <2>2. p + 2 \in p + 1 .. n + 1
    BY <1>2, <1>5, <2>1
  <2>3. one.p = InClass(pattern, p + 2, c, nocase)[n + 1].p
    <3>1. one = [match |-> InClass(pattern, p + 2, c, nocase)[n + 1].match # TRUE,
                 p |-> InClass(pattern, p + 2, c, nocase)[n + 1].p]
      BY <1>1, <1>7, Zenon DEF OneMeans
    <3> QED BY <3>1
  <2> QED BY <1>4, <2>2, <2>3 DEF one, n
<1>8. CASE pattern[p] = LBracket /\ At(pattern, p + 1) # Caret
  <2>1. p + 1 \in p + 1 .. n + 1
    BY <1>2, <1>5
  <2>2. one.p = InClass(pattern, p + 1, c, nocase)[n + 1].p
    <3>1. one = [match |-> InClass(pattern, p + 1, c, nocase)[n + 1].match # FALSE,
                 p |-> InClass(pattern, p + 1, c, nocase)[n + 1].p]
      BY <1>1, <1>8, Zenon DEF OneMeans
    <3> QED BY <3>1
  <2> QED BY <1>4, <2>1, <2>2 DEF one, n
<1>9. CASE pattern[p] = Backslash /\ p < n
  <2>1. one = [match |-> Same(pattern[p + 1], c, nocase), p |-> (p + 1) + 1]
    BY <1>1, <1>9, Zenon DEF OneMeans
  <2>2. one.p = (p + 1) + 1 /\ (p + 1) + 1 \in p + 1 .. n + 1
    BY <1>2, <1>5, <1>9, <2>1
  <2> QED BY <2>2 DEF one, n
<1>10. CASE pattern[p] \notin {Question, LBracket} /\ ~(pattern[p] = Backslash /\ p < n)
  <2>1. one = [match |-> Same(pattern[p], c, nocase), p |-> p + 1]
    BY <1>1, <1>10, Zenon DEF OneMeans
  <2>2. one.p = p + 1 /\ p + 1 \in p + 1 .. n + 1
    BY <1>2, <1>5, <2>1
  <2> QED BY <2>2 DEF one, n
<1> QED BY <1>6, <1>7, <1>8, <1>9, <1>10

(* The first place without a star.                                           *)
IsAfter(pattern, p, q) ==
  /\ q \in p .. Len(pattern) + 1
  /\ At(pattern, q) # Star /\ \A i \in p .. q - 1 : pattern[i] = Star

(* The stars end somewhere, at the latest with the pattern.                  *)
LEMMA StarsEnd ==
  ASSUME NEW pattern \in ByteStrings, NEW p \in 1 .. Len(pattern) + 1
  PROVE  IsAfter(pattern, p, AfterStars(pattern, p))
<1> DEFINE n == Len(pattern)
           T == {q \in p .. n + 1 : At(pattern, q) # Star}
           after == AfterStars(pattern, p)
<1>1. n \in Nat /\ p \in 1 .. n + 1
  BY StringLength
<1>2. At(pattern, n + 1) # Star /\ \A i \in 1 .. n : At(pattern, i) = pattern[i]
  BY AtMeans, Marks
<1>3. after = CHOOSE q \in p .. n + 1 : At(pattern, q) # Star /\ \A i \in p .. q - 1 : pattern[i] = Star
  BY Zenon DEF AfterStars
<1> HIDE DEF n, after
<1>4. T \subseteq Nat /\ T # {}
  BY <1>1, <1>2
<1>5. PICK m \in T : \A k \in T : m <= k
  <2> HIDE DEF T
  <2> QED BY <1>4, LeastNumber
<1>6. \A i \in p .. m - 1 : pattern[i] = Star
  <2> TAKE i \in p .. m - 1
  <2>1. i \in p .. n + 1 /\ i \in 1 .. n /\ ~(m <= i)
    BY <1>1, <1>5
  <2>2. i \notin T
    BY <1>5, <2>1
  <2>3. At(pattern, i) = Star
    BY <2>1, <2>2
  <2> QED BY <1>2, <2>1, <2>3
<1>7. after \in p .. n + 1 /\ At(pattern, after) # Star /\ \A i \in p .. after - 1 : pattern[i] = Star
  BY <1>3, <1>5, <1>6
<1> QED BY <1>7 DEF IsAfter, n, after

(* There is only one such place.                                             *)
LEMMA StarsEndOnce ==
  ASSUME NEW pattern \in ByteStrings, NEW p \in 1 .. Len(pattern) + 1, NEW q, NEW r,
         IsAfter(pattern, p, q), IsAfter(pattern, p, r)
  PROVE  q = r
<1> DEFINE n == Len(pattern)
<1>1. n \in Nat /\ p \in 1 .. n + 1
  BY StringLength
<1>2. \A i \in 1 .. n : At(pattern, i) = pattern[i]
  BY AtMeans
<1>3. /\ q \in p .. n + 1 /\ At(pattern, q) # Star /\ \A i \in p .. q - 1 : pattern[i] = Star
      /\ r \in p .. n + 1 /\ At(pattern, r) # Star /\ \A i \in p .. r - 1 : pattern[i] = Star
  BY DEF IsAfter
<1> HIDE DEF n
<1>4. ~(q < r)
  <2> SUFFICES ASSUME q < r PROVE FALSE
    OBVIOUS
  <2>1. q \in p .. r - 1 /\ q \in 1 .. n
    BY <1>1, <1>3
  <2> QED BY <1>2, <1>3, <2>1
<1>5. ~(r < q)
  <2> SUFFICES ASSUME r < q PROVE FALSE
    OBVIOUS
  <2>1. r \in p .. q - 1 /\ r \in 1 .. n
    BY <1>1, <1>3
  <2> QED BY <1>2, <1>3, <2>1
<1> QED BY <1>1, <1>3, <1>4, <1>5

(* One star is skipped after the other.                                      *)
LEMMA StarsSkipped ==
  ASSUME NEW pattern \in ByteStrings, NEW p \in 1 .. Len(pattern) + 1
  PROVE  /\ AfterStars(pattern, p) \in p .. Len(pattern) + 1
         /\ At(pattern, p) # Star => AfterStars(pattern, p) = p
         /\ At(pattern, p) = Star =>
              /\ p \in 1 .. Len(pattern)
              /\ AfterStars(pattern, p) = AfterStars(pattern, p + 1)
              /\ AfterStars(pattern, p) \in p + 1 .. Len(pattern) + 1
<1> DEFINE n == Len(pattern)
           after == AfterStars(pattern, p)
<1>1. n \in Nat /\ p \in 1 .. n + 1
  BY StringLength
<1>2. IsAfter(pattern, p, after)
  BY StarsEnd
<1>3. after \in p .. n + 1 /\ At(pattern, after) # Star /\ \A i \in p .. after - 1 : pattern[i] = Star
  BY <1>2 DEF IsAfter
<1>4. At(pattern, n + 1) # Star /\ \A i \in 1 .. n : At(pattern, i) = pattern[i]
  BY AtMeans, Marks
<1> HIDE DEF n, after
<1>5. ASSUME At(pattern, p) # Star PROVE after = p
  <2>1. p \in p .. n + 1 /\ \A i \in p .. p - 1 : FALSE
    BY <1>1
  <2>2. IsAfter(pattern, p, p)
    BY <1>5, <2>1 DEF IsAfter, n
  <2> QED BY <1>2, <2>2, StarsEndOnce
<1>6. ASSUME At(pattern, p) = Star
      PROVE  p \in 1 .. n /\ after = AfterStars(pattern, p + 1) /\ after \in p + 1 .. n + 1
  <2>1. p \in 1 .. n /\ p + 1 \in 1 .. n + 1
    BY <1>1, <1>4, <1>6
  <2>2. after # p
    BY <1>3, <1>6
  <2>3. after \in p + 1 .. n + 1 /\ \A i \in p + 1 .. after - 1 : i \in p .. after - 1
    BY <1>1, <1>3, <2>2
  <2>4. IsAfter(pattern, p + 1, after)
    BY <1>3, <2>3 DEF IsAfter, n
  <2>5. IsAfter(pattern, p + 1, AfterStars(pattern, p + 1)) /\ p + 1 \in 1 .. Len(pattern) + 1
    BY <2>1, StarsEnd DEF n
  <2>6. after = AfterStars(pattern, p + 1)
    BY <2>4, <2>5, StarsEndOnce
  <2> QED BY <2>1, <2>3, <2>6
<1> QED BY <1>3, <1>5, <1>6 DEF n, after

-----------------------------------------------------------------------------
(* A function of 0 .. n each value of which looks back on those before it.   *)
Rows(S, n) == [0 .. n -> S]
RowMakers(S, n) == [0 .. n -> [Rows(S, n) -> S]]
LooksBack(S, n, d) ==
  \A m \in 0 .. n : \A f, g \in Rows(S, n) : (\A i \in 0 .. m - 1 : f[i] = g[i]) => d[m][f] = d[m][g]

(* There is such a function.                                                 *)
LEMMA CourseOfValues ==
  ASSUME NEW n \in Nat, NEW S, S # {}, NEW d \in RowMakers(S, n), LooksBack(S, n, d)
  PROVE  \E f \in Rows(S, n) : \A m \in 0 .. n : f[m] = d[m][f]
<1> DEFINE R == Rows(S, n)
           e == [k \in 1 .. n + 1 |-> [f \in R |-> [f EXCEPT ![k - 1] = d[k - 1][f]]]]
<1>1. PICK x : x \in S
  OBVIOUS
<1> DEFINE start == [i \in 0 .. n |-> x]
<1>2. start \in R
  BY <1>1 DEF Rows
<1>3. ASSUME NEW k \in 1 .. n + 1, NEW f \in R
      PROVE  /\ [f EXCEPT ![k - 1] = d[k - 1][f]] \in R
             /\ [f EXCEPT ![k - 1] = d[k - 1][f]][k - 1] = d[k - 1][f]
             /\ \A i \in 0 .. n : i # k - 1 => [f EXCEPT ![k - 1] = d[k - 1][f]][i] = f[i]
  <2>1. k - 1 \in 0 .. n
    OBVIOUS
  <2>2. d[k - 1][f] \in S
    BY <2>1 DEF RowMakers
  <2> DEFINE j == k - 1
             y == d[k - 1][f]
  <2> HIDE DEF j, y
  <2>3. [f EXCEPT ![j] = y] \in R /\ [f EXCEPT ![j] = y][j] = y
        /\ \A i \in 0 .. n : i # j => [f EXCEPT ![j] = y][i] = f[i]
    BY <2>1, <2>2 DEF Rows, j, y
  <2> QED BY <2>3 DEF j, y
<1> HIDE DEF R, start
<1>4. /\ e \in StepsTo(R, n + 1)
      /\ \A k \in 1 .. n + 1 : \A f \in R : e[k][f] = [f EXCEPT ![k - 1] = d[k - 1][f]]
  BY <1>3 DEF StepsTo
<1> HIDE DEF e
<1>5. PICK t : FollowsTo(t, R, start, e, n + 1)
  BY <1>2, <1>4, BoundedRecursion
<1>6. t \in [0 .. n + 1 -> R] /\ \A k \in 1 .. n + 1 : t[k] = e[k][t[k - 1]]
  BY <1>5 DEF FollowsTo
<1>7. ASSUME NEW m \in 0 .. n
      PROVE  /\ t[m] \in R /\ t[m + 1] \in R /\ t[m + 1][m] = d[m][t[m]]
             /\ \A i \in 0 .. n : i # m => t[m + 1][i] = t[m][i]
  <2> DEFINE k == m + 1
             f == t[m]
  <2>1. k \in 1 .. n + 1 /\ k - 1 = m /\ k \in 0 .. n + 1 /\ m \in 0 .. n + 1
    OBVIOUS
  <2>2. f \in R /\ t[k] \in R
    BY <1>6, <2>1
  <2> HIDE DEF k, f
  <2>3. t[k] = e[k][f]
    BY <1>6, <2>1 DEF f
  <2>4. t[k] = [f EXCEPT ![k - 1] = d[k - 1][f]]
    BY <1>4, <2>1, <2>2, <2>3
  <2>5. t[k][k - 1] = d[k - 1][f] /\ \A i \in 0 .. n : i # k - 1 => t[k][i] = f[i]
    BY <1>3, <2>1, <2>2, <2>4
  <2> QED BY <2>1, <2>2, <2>5 DEF k, f
<1> DEFINE T == {k \in Nat : k <= n + 1 => \A i \in 0 .. k - 1 : t[k][i] = t[i + 1][i]}
<1>8. 0 \in T
  OBVIOUS
<1>9. ASSUME NEW k \in Nat, k \in T PROVE k + 1 \in T
  <2> SUFFICES ASSUME k + 1 <= n + 1, NEW i \in 0 .. (k + 1) - 1 PROVE t[k + 1][i] = t[i + 1][i]
    OBVIOUS
  <2>1. k \in 0 .. n /\ i \in 0 .. n
    OBVIOUS
  <2>2. CASE i = k
    BY <2>2
  <2>3. CASE i # k
    <3>1. i \in 0 .. k - 1
      BY <2>3
    <3>2. t[k][i] = t[i + 1][i]
      BY <1>9, <2>1, <3>1
    <3>3. t[k + 1][i] = t[k][i]
      BY <1>7, <2>1, <2>3
    <3> QED BY <3>2, <3>3
  <2> QED BY <2>2, <2>3
<1>10. Nat \subseteq T
  <2> HIDE DEF T
  <2> QED BY <1>8, <1>9, SetInduction
<1> DEFINE f == t[n + 1]
<1>11. f \in R
  BY <1>6
<1>12. ASSUME NEW m \in 0 .. n PROVE f[m] = d[m][f]
  <2>1. f[m] = t[m + 1][m]
    BY <1>10
  <2>2. \A i \in 0 .. m - 1 : t[m][i] = f[i]
    <3> TAKE i \in 0 .. m - 1
    <3>1. i \in 0 .. n /\ m \in T /\ n + 1 \in T
      BY <1>10
    <3>2. t[m][i] = t[i + 1][i]
      BY <3>1
    <3>3. f[i] = t[i + 1][i]
      BY <3>1
    <3> QED BY <3>2, <3>3
  <2>3. t[m] \in R /\ t[m + 1][m] = d[m][t[m]]
    BY <1>7
  <2> HIDE DEF f
  <2>4. d[m][t[m]] = d[m][f]
    BY <1>11, <2>2, <2>3 DEF LooksBack, R
  <2> QED BY <2>1, <2>3, <2>4
<1> HIDE DEF f
<1> QED BY <1>11, <1>12 DEF R

-----------------------------------------------------------------------------
(* A row of the matches, on the rows of shorter ends of the pattern.         *)
MatchRow(pattern, string, nocase, match, m) ==
  LET n == Len(pattern)
      k == Len(string)
      p == n + 1 - m
      after == AfterStars(pattern, p)
      one(j) == One(pattern, p, string[k + 1 - j], nocase)
  IN  {j \in 0 .. k :
         IF m = 0 \/ j = 0 THEN m = j
         ELSE IF pattern[p] = Star
         THEN after = n + 1 \/ \E i \in 1 .. j : i \in match[n + 1 - after]
         ELSE /\ one(j).match
              /\ IF j = 1 THEN AfterStars(pattern, one(j).p) = n + 1
                 ELSE j - 1 \in match[n + 1 - one(j).p]}

(* Rows that are the same for the shorter ends give the same row.            *)
LEMMA RowLooksBack ==
  ASSUME NEW pattern \in ByteStrings, NEW string, NEW nocase, NEW m \in 0 .. Len(pattern),
         NEW f, NEW g, \A i \in 0 .. m - 1 : f[i] = g[i]
  PROVE  MatchRow(pattern, string, nocase, f, m) = MatchRow(pattern, string, nocase, g, m)
<1> DEFINE n == Len(pattern)
           k == Len(string)
           p == n + 1 - m
           after == AfterStars(pattern, p)
           one(j) == One(pattern, p, string[k + 1 - j], nocase)
           In(h, j) == IF m = 0 \/ j = 0 THEN m = j
                       ELSE IF pattern[p] = Star
                       THEN after = n + 1 \/ \E i \in 1 .. j : i \in h[n + 1 - after]
                       ELSE /\ one(j).match
                            /\ IF j = 1 THEN AfterStars(pattern, one(j).p) = n + 1
                               ELSE j - 1 \in h[n + 1 - one(j).p]
<1>1. n \in Nat
  BY StringLength
<1>2. MatchRow(pattern, string, nocase, f, m) = {j \in 0 .. k : In(f, j)}
  BY Zenon DEF MatchRow
<1>3. MatchRow(pattern, string, nocase, g, m) = {j \in 0 .. k : In(g, j)}
  BY Zenon DEF MatchRow
<1>4. p \in 1 .. n + 1 /\ (m # 0 => p \in 1 .. n)
  <2> HIDE DEF n
  <2>1. m \in 0 .. n
    BY DEF n
  <2> QED BY <1>1, <2>1
<1>5. m # 0 /\ pattern[p] = Star => f[n + 1 - after] = g[n + 1 - after]
  <2> SUFFICES ASSUME m # 0, pattern[p] = Star PROVE f[n + 1 - after] = g[n + 1 - after]
    OBVIOUS
  <2>1. At(pattern, p) = Star
    BY <1>4, AtMeans
  <2>2. after \in p + 1 .. n + 1
    BY <1>4, <2>1, StarsSkipped
  <2> HIDE DEF n, after
  <2>3. m \in 0 .. n
    BY DEF n
  <2>4. n + 1 - after \in 0 .. m - 1
    BY <1>1, <2>2, <2>3
  <2> QED BY <2>4
<1>6. m # 0 => \A j : f[n + 1 - one(j).p] = g[n + 1 - one(j).p]
  <2> SUFFICES ASSUME m # 0, NEW j PROVE f[n + 1 - one(j).p] = g[n + 1 - one(j).p]
    OBVIOUS
  <2> DEFINE q == one(j).p
  <2>1. q \in p + 1 .. n + 1
    BY <1>4, OneForward
  <2> HIDE DEF n, q, one
  <2>2. m \in 0 .. n
    BY DEF n
  <2>3. n + 1 - q \in 0 .. m - 1
    BY <1>1, <2>1, <2>2
  <2>4. f[n + 1 - q] = g[n + 1 - q]
    BY <2>3
  <2> QED BY <2>4 DEF q
<1> HIDE DEF n, k, p, after, one
<1>7. \A j : In(f, j) <=> In(g, j)
  <2> TAKE j
  <2>1. CASE m = 0 \/ j = 0
    BY <2>1, Zenon
  <2>2. CASE ~(m = 0 \/ j = 0) /\ pattern[p] = Star
    <3>1. f[n + 1 - after] = g[n + 1 - after]
      BY <1>5, <2>2
    <3> QED BY <2>2, <3>1, Zenon
  <2>3. CASE ~(m = 0 \/ j = 0) /\ pattern[p] # Star
    <3>1. f[n + 1 - one(j).p] = g[n + 1 - one(j).p]
      BY <1>6, <2>3
    <3> QED BY <2>3, <3>1, Zenon
  <2> QED BY <2>1, <2>2, <2>3, Zenon
<1> HIDE DEF In
<1>8. {j \in 0 .. k : In(f, j)} = {j \in 0 .. k : In(g, j)}
  BY <1>7, Zenon
<1> QED BY <1>2, <1>3, <1>8, Zenon

(* The rows of Matches are these.                                            *)
LEMMA MatchesRows ==
  ASSUME NEW pattern \in ByteStrings, NEW string, NEW nocase
  PROVE  \A m \in 0 .. Len(pattern) :
           Matches(pattern, string, nocase)[m]
             = MatchRow(pattern, string, nocase, Matches(pattern, string, nocase), m)
<1> DEFINE n == Len(pattern)
           k == Len(string)
           S == SUBSET (0 .. k)
           Row(f, m) == MatchRow(pattern, string, nocase, f, m)
           match == CHOOSE f : f = [m \in 0 .. n |-> Row(f, m)]
           d == [m \in 0 .. n |-> [f \in Rows(S, n) |-> Row(f, m)]]
<1>1. Matches(pattern, string, nocase) = match
  BY Zenon DEF Matches, MatchRow
<1>2. n \in Nat
  BY StringLength
<1>3. \A f, m : Row(f, m) \in S
  BY DEF MatchRow
<1>4. \A m \in 0 .. n : \A f, g : (\A i \in 0 .. m - 1 : f[i] = g[i]) => Row(f, m) = Row(g, m)
  BY RowLooksBack
<1> HIDE DEF Row, n, S
<1>5. d \in RowMakers(S, n) /\ \A m \in 0 .. n : \A f \in Rows(S, n) : d[m][f] = Row(f, m)
  BY <1>3 DEF RowMakers
<1> HIDE DEF d
<1>6. LooksBack(S, n, d)
  <2> SUFFICES ASSUME NEW m \in 0 .. n, NEW f \in Rows(S, n), NEW g \in Rows(S, n),
                      \A i \in 0 .. m - 1 : f[i] = g[i]
               PROVE  d[m][f] = d[m][g]
    BY Zenon DEF LooksBack
  <2>1. Row(f, m) = Row(g, m)
    BY <1>4
  <2> QED BY <1>5, <2>1, Zenon
<1>7. S # {}
  BY <1>3
<1>8. PICK g \in Rows(S, n) : \A m \in 0 .. n : g[m] = d[m][g]
  BY <1>2, <1>5, <1>6, <1>7, CourseOfValues
<1>9. \A m \in 0 .. n : g[m] = Row(g, m)
  BY <1>5, <1>8
<1>10. g = [m \in 0 .. n |-> Row(g, m)]
  BY <1>9 DEF Rows
<1>11. match = [m \in 0 .. n |-> Row(match, m)]
  BY <1>10
<1> HIDE DEF match
<1>12. \A m \in 0 .. n : match[m] = Row(match, m)
  BY <1>11
<1> QED BY <1>1, <1>12, Zenon DEF Row, n

(* What it is for a rest of the text to be in a row.                         *)
InMatchRow(pattern, n, k, p, string, nocase, match, m, j, row) ==
  /\ m = 0 \/ j = 0 => (j \in row <=> m = j)
  /\ m # 0 /\ j # 0 /\ pattern[p] = Star =>
       (j \in row <=> \/ AfterStars(pattern, p) = n + 1
                      \/ \E i \in 1 .. j : i \in match[n + 1 - AfterStars(pattern, p)])
  /\ m # 0 /\ j # 0 /\ pattern[p] # Star =>
       (j \in row <=> /\ One(pattern, p, string[k + 1 - j], nocase).match
                      /\ IF j = 1
                         THEN AfterStars(pattern, One(pattern, p, string[k + 1 - j], nocase).p) = n + 1
                         ELSE j - 1 \in match[n + 1 - One(pattern, p, string[k + 1 - j], nocase).p])

(* A row holds just these.                                                   *)
LEMMA MatchRowMeans ==
  ASSUME NEW pattern, NEW string, NEW nocase, NEW match, NEW m, NEW j \in 0 .. Len(string)
  PROVE  InMatchRow(pattern, Len(pattern), Len(string), Len(pattern) + 1 - m, string, nocase, match, m, j,
                    MatchRow(pattern, string, nocase, match, m))
<1> DEFINE n == Len(pattern)
           k == Len(string)
           p == n + 1 - m
           after == AfterStars(pattern, p)
           one(i) == One(pattern, p, string[k + 1 - i], nocase)
           In(i) == IF m = 0 \/ i = 0 THEN m = i
                    ELSE IF pattern[p] = Star
                    THEN after = n + 1 \/ \E q \in 1 .. i : q \in match[n + 1 - after]
                    ELSE /\ one(i).match
                         /\ IF i = 1 THEN AfterStars(pattern, one(i).p) = n + 1
                            ELSE i - 1 \in match[n + 1 - one(i).p]
           row == MatchRow(pattern, string, nocase, match, m)
<1>1. row = {i \in 0 .. k : In(i)}
  BY Zenon DEF MatchRow
<1> HIDE DEF row, In
<1>2. j \in row <=> In(j)
  BY <1>1
<1> USE DEF In
<1> HIDE DEF n, k, p, after, one
<1>3. m = 0 \/ j = 0 => (j \in row <=> m = j)
  BY <1>2, Zenon
<1>4. m # 0 /\ j # 0 /\ pattern[p] = Star =>
        (j \in row <=> after = n + 1 \/ \E i \in 1 .. j : i \in match[n + 1 - after])
  BY <1>2, Zenon
<1>5. m # 0 /\ j # 0 /\ pattern[p] # Star =>
        (j \in row <=> /\ one(j).match
                       /\ IF j = 1 THEN AfterStars(pattern, one(j).p) = n + 1
                          ELSE j - 1 \in match[n + 1 - one(j).p])
  BY <1>2, Zenon
<1>6. InMatchRow(pattern, n, k, p, string, nocase, match, m, j, row)
  BY <1>3, <1>4, <1>5, Zenon DEF InMatchRow, after, one
<1> QED BY <1>6, Zenon DEF n, k, p, row

-----------------------------------------------------------------------------
(* What the last m items stand for.                                          *)
StandRow(items, text, nocase, stands, m) ==
  LET n == Len(items)
      k == Len(text)
      item == items[n + 1 - m]
  IN  {j \in 0 .. k :
         IF m = 0 THEN j = 0
         ELSE IF item.kind = "star" THEN \E i \in 0 .. j : i \in stands[m - 1]
         ELSE j > 0 /\ Denotes(item, text[k + 1 - j], nocase) /\ j - 1 \in stands[m - 1]}

StandRows(items, text, nocase, stands) ==
  \A m \in 0 .. Len(items) : stands[m] = StandRow(items, text, nocase, stands, m)

(* The rows of StandsFor are these.                                          *)
LEMMA StandsRows ==
  ASSUME NEW items, Len(items) \in Nat, NEW text, NEW nocase
  PROVE  \E stands : /\ StandRows(items, text, nocase, stands)
                     /\ StandsFor(items, text, nocase) = (Len(text) \in stands[Len(items)])
<1> DEFINE n == Len(items)
           k == Len(text)
           S == SUBSET (0 .. k)
           Row(f, m) == StandRow(items, text, nocase, f, m)
           stands == CHOOSE f : f = [m \in 0 .. n |-> Row(f, m)]
           d == [m \in 0 .. n |-> [f \in Rows(S, n) |-> Row(f, m)]]
<1>1. StandsFor(items, text, nocase) = (k \in stands[n])
  BY Zenon DEF StandsFor, StandRow
<1>2. n \in Nat
  OBVIOUS
<1>3. \A f, m : Row(f, m) \in S
  BY DEF StandRow
<1> HIDE DEF n, k, S
<1>4. ASSUME NEW m \in 0 .. n, NEW f, NEW g, \A i \in 0 .. m - 1 : f[i] = g[i]
      PROVE  Row(f, m) = Row(g, m)
  <2>1. CASE m = 0
    BY <2>1, Zenon DEF StandRow
  <2>2. CASE m # 0
    <3>1. m - 1 \in 0 .. m - 1
      BY <1>2, <2>2
    <3>2. f[m - 1] = g[m - 1]
      BY <1>4, <3>1
    <3> QED BY <3>2, Zenon DEF StandRow
  <2> QED BY <2>1, <2>2
<1> HIDE DEF Row
<1>5. d \in RowMakers(S, n) /\ \A m \in 0 .. n : \A f \in Rows(S, n) : d[m][f] = Row(f, m)
  BY <1>3 DEF RowMakers
<1> HIDE DEF d
<1>6. LooksBack(S, n, d)
  <2> SUFFICES ASSUME NEW m \in 0 .. n, NEW f \in Rows(S, n), NEW g \in Rows(S, n),
                      \A i \in 0 .. m - 1 : f[i] = g[i]
               PROVE  d[m][f] = d[m][g]
    BY Zenon DEF LooksBack
  <2>1. Row(f, m) = Row(g, m)
    BY <1>4
  <2> QED BY <1>5, <2>1, Zenon
<1>7. S # {}
  BY <1>3
<1>8. PICK g \in Rows(S, n) : \A m \in 0 .. n : g[m] = d[m][g]
  BY <1>2, <1>5, <1>6, <1>7, CourseOfValues
<1>9. \A m \in 0 .. n : g[m] = Row(g, m)
  BY <1>5, <1>8
<1>10. g = [m \in 0 .. n |-> Row(g, m)]
  BY <1>9 DEF Rows
<1>11. stands = [m \in 0 .. n |-> Row(stands, m)]
  BY <1>10
<1> HIDE DEF stands
<1>12. \A m \in 0 .. n : stands[m] = Row(stands, m)
  BY <1>11
<1>13. StandRows(items, text, nocase, stands)
  BY <1>12, Zenon DEF StandRows, Row, n
<1> QED BY <1>1, <1>13, Zenon DEF n, k

InStandRow(item, c, nocase, row, before, j) ==
  /\ item.kind = "star" => (j \in row <=> \E i \in 0 .. j : i \in before)
  /\ item.kind # "star" => (j \in row <=> j > 0 /\ Denotes(item, c, nocase) /\ j - 1 \in before)

(* What it is for a rest of the text to be in one of them.                   *)
LEMMA StandRowMeans ==
  ASSUME NEW items, NEW text, NEW nocase, NEW stands, NEW m, NEW j \in 0 .. Len(text)
  PROVE  /\ m = 0 => (j \in StandRow(items, text, nocase, stands, m) <=> j = 0)
         /\ m # 0 => InStandRow(items[Len(items) + 1 - m], text[Len(text) + 1 - j], nocase,
                                StandRow(items, text, nocase, stands, m), stands[m - 1], j)
<1> DEFINE n == Len(items)
           k == Len(text)
           item == items[n + 1 - m]
           In(i) == IF m = 0 THEN i = 0
                    ELSE IF item.kind = "star" THEN \E q \in 0 .. i : q \in stands[m - 1]
                    ELSE i > 0 /\ Denotes(item, text[k + 1 - i], nocase) /\ i - 1 \in stands[m - 1]
           row == StandRow(items, text, nocase, stands, m)
<1>1. row = {i \in 0 .. k : In(i)}
  BY Zenon DEF StandRow
<1> HIDE DEF row, In
<1>2. j \in row <=> In(j)
  BY <1>1
<1> USE DEF In
<1> HIDE DEF item
<1>3. m = 0 => (j \in row <=> j = 0)
  BY <1>2, Zenon
<1>4. m # 0 => InStandRow(item, text[k + 1 - j], nocase, row, stands[m - 1], j)
  BY <1>2, Zenon DEF InStandRow
<1> QED BY <1>3, <1>4, Zenon DEF n, k, item, row

-----------------------------------------------------------------------------
(* The items of a pattern, one after the other.                              *)
ItemLists == Seq(PatternItems)

(* A list of items has a length.                                             *)
LEMMA ListOfItems ==
  ASSUME NEW items \in ItemLists
  PROVE  Len(items) \in Nat /\ DOMAIN items = 1 .. Len(items)
         /\ \A i \in 1 .. Len(items) : items[i] \in PatternItems
BY LenProperties, ElementOfSeq DEF ItemLists

(* An item is written as at least one character.                             *)
LEMMA ItemText ==
  ASSUME NEW item \in PatternItems
  PROVE  WriteItem(item) \in ByteStrings /\ Len(WriteItem(item)) \in Nat \ {0}
<1>1. item.kind \in {"star", "any", "one", "class"}
  BY ItemFields
<1>2. CASE item.kind = "star"
  BY <1>2, ItemWritten, Marks, CharacterString
<1>3. CASE item.kind = "any"
  BY <1>3, ItemWritten, Marks, CharacterString
<1>4. CASE item.kind = "one"
  <2> DEFINE e == item.elements[1]
  <2>1. e \in Elements /\ WriteItem(item) = WriteElement(e)
    BY <1>4, ItemFields, ItemWritten
  <2> HIDE DEF e
  <2>2. WriteElement(e) \in ByteStrings /\ Len(WriteElement(e)) \in {1, 2, 3}
    BY <2>1, ElementWritten, ElementFields
  <2> QED BY <2>1, <2>2
<1>5. CASE item.kind = "class"
  <2> DEFINE text == WriteItem(item)
             l == Len(WriteElements(item.elements))
             h == IF item.not THEN 2 ELSE 1
  <2>1. ClassText(text, item.not, h, item.elements)
    BY <1>5, ClassWritten, Zenon
  <2>2. text \in ByteStrings /\ Len(text) = h + l + 1
    BY <2>1 DEF ClassText
  <2>3. h \in Nat
    OBVIOUS
  <2>4. l \in Nat
    BY ItemFields, ElementsLaid, StringLength
  <2> HIDE DEF text, l, h
  <2>5. Len(text) \in Nat \ {0}
    BY <2>2, <2>3, <2>4
  <2> QED BY <2>2, <2>5 DEF text
<1> QED BY <1>1, <1>2, <1>3, <1>4, <1>5

ItemsAt(items, line, at) ==
  /\ \A i \in 1 .. Len(items) + 1 : at[i] \in Nat \ {0} /\ at[i] <= Len(line) + 1 /\ i <= at[i]
  /\ at[1] = 1 /\ at[Len(items) + 1] = Len(line) + 1
  /\ \A i \in 1 .. Len(items) : /\ at[i + 1] = at[i] + Len(WriteItem(items[i]))
                                /\ Written(line, at[i], WriteItem(items[i]))

(* The items lie one after the other in the pattern.                         *)
LEMMA ItemsLaid ==
  ASSUME NEW items \in ItemLists
  PROVE  WritePattern(items) \in ByteStrings /\ \E at : ItemsAt(items, WritePattern(items), at)
<1> DEFINE texts == [i \in DOMAIN items |-> WriteItem(items[i])]
           line == WritePattern(items)
           n == Len(items)
<1>1. n \in Nat /\ DOMAIN items = 1 .. n /\ \A i \in 1 .. n : items[i] \in PatternItems
  BY ListOfItems
<1>2. line = Concatenated(texts)
  BY DEF WritePattern
<1>3. \A i \in 1 .. n : WriteItem(items[i]) \in ByteStrings /\ WriteItem(items[i]) # << >>
  <2> TAKE i \in 1 .. n
  <2>1. WriteItem(items[i]) \in ByteStrings /\ Len(WriteItem(items[i])) # 0
    BY <1>1, ItemText
  <2> QED BY <2>1, EmptyString
<1> HIDE DEF n
<1>4. texts \in ByteLists /\ Len(texts) = n /\ \A i \in 1 .. n : texts[i] = WriteItem(items[i])
  <2>1. texts \in [1 .. n -> ByteStrings]
    BY <1>1, <1>3
  <2>2. \A i \in 1 .. n : texts[i] = WriteItem(items[i])
    BY <1>1
  <2> HIDE DEF texts
  <2>3. texts \in Seq(ByteStrings)
    BY <1>1, <2>1, IsASeq
  <2>4. Len(texts) = n
    BY <1>1, <2>1, <2>3
  <2> QED BY <2>2, <2>3, <2>4 DEF ByteLists
<1> HIDE DEF texts, line
<1>5. line \in ByteStrings /\ \E at : Laid(texts, line, at)
  BY <1>2, <1>4, ConcatenatedLaid
<1>6. PICK at : Laid(texts, line, at)
  BY <1>5
<1>7. /\ \A i \in 1 .. n + 1 : at[i] \in Nat \ {0} /\ at[i] <= Len(line) + 1
      /\ \A i \in 1 .. n + 1 : i <= at[i]
  <2>1. \A i \in 1 .. Len(texts) : texts[i] # << >>
    BY <1>3, <1>4
  <2> QED BY <1>4, <1>5, <1>6, <2>1, LaidBounds
<1>8. /\ at[1] = 1 /\ at[n + 1] = Len(line) + 1
      /\ \A i \in 1 .. n : /\ at[i + 1] = at[i] + Len(WriteItem(items[i]))
                           /\ Written(line, at[i], WriteItem(items[i]))
  BY <1>4, <1>6 DEF Laid
<1>9. ItemsAt(items, line, at)
  BY <1>7, <1>8 DEF ItemsAt, n
<1> QED BY <1>5, <1>9 DEF line

-----------------------------------------------------------------------------
(* The matches of what begins at place p of the pattern are the rests of the *)
(* text in S, where the empty rest is left to the stars that end a pattern.  *)
Agrees(pattern, match, k, p, S) ==
  /\ \A j \in 1 .. k : j \in match[Len(pattern) + 1 - p] <=> j \in S
  /\ AfterStars(pattern, p) = Len(pattern) + 1 <=> 0 \in S
  /\ At(pattern, p) = Star => \A j \in 0 .. k : (\E i \in 0 .. j : i \in S) <=> j \in S

MatchStep(pattern, string, nocase, match, p) ==
  match[Len(pattern) + 1 - p] = MatchRow(pattern, string, nocase, match, Len(pattern) + 1 - p)

StandStep(item, string, nocase, row, before) ==
  \A j \in 0 .. Len(string) : InStandRow(item, string[Len(string) + 1 - j], nocase, row, before, j)

(* A star: if matches and meaning agree on what follows it, they agree here. *)
LEMMA StarAgrees ==
  ASSUME NEW pattern \in ByteStrings, NEW string, Len(string) \in Nat, NEW nocase, NEW match,
         NEW p \in 1 .. Len(pattern), pattern[p] = Star,
         NEW item, item.kind = "star", NEW row, NEW before,
         MatchStep(pattern, string, nocase, match, p),
         MatchStep(pattern, string, nocase, match, p + 1),
         StandStep(item, string, nocase, row, before),
         Agrees(pattern, match, Len(string), p + 1, before)
  PROVE  Agrees(pattern, match, Len(string), p, row)
<1> DEFINE n == Len(pattern)
           k == Len(string)
           q == p + 1
           after == AfterStars(pattern, p)
           In(r, j) == r = n + 1 \/ \E i \in 1 .. j : i \in match[n + 1 - r]
<1>1. n \in Nat /\ k \in Nat /\ p \in 1 .. n /\ p \in 1 .. n + 1 /\ q \in 1 .. n + 1
  <2>1. n \in Nat
    BY StringLength
  <2> HIDE DEF n
  <2>2. p \in 1 .. n
    BY DEF n
  <2> QED BY <2>1, <2>2
<1>2. At(pattern, p) = Star
  BY <1>1, AtMeans
<1>3. after = AfterStars(pattern, q) /\ after \in q .. n + 1
      /\ (At(pattern, q) # Star => AfterStars(pattern, q) = q)
      /\ (At(pattern, q) = Star => q \in 1 .. n)
  BY <1>1, <1>2, StarsSkipped
<1>4. /\ \A j \in 1 .. k : j \in match[n + 1 - q] <=> j \in before
      /\ AfterStars(pattern, q) = n + 1 <=> 0 \in before
      /\ At(pattern, q) = Star => \A j \in 0 .. k : (\E i \in 0 .. j : i \in before) <=> j \in before
  BY Zenon DEF Agrees
<1>5. \A j \in 0 .. k : j \in row <=> \E i \in 0 .. j : i \in before
  <2> TAKE j \in 0 .. k
  <2>1. InStandRow(item, string[k + 1 - j], nocase, row, before, j)
    BY DEF StandStep
  <2> QED BY <2>1 DEF InStandRow
<1>6. ASSUME NEW r \in 1 .. n, pattern[r] = Star, MatchStep(pattern, string, nocase, match, r),
             NEW j \in 1 .. k
      PROVE  j \in match[n + 1 - r] <=> In(AfterStars(pattern, r), j)
  <2> DEFINE m == n + 1 - r
             R == MatchRow(pattern, string, nocase, match, m)
  <2>1. m # 0 /\ n + 1 - m = r /\ j \in 0 .. k /\ j # 0
    <3> HIDE DEF n, k
    <3> QED BY <1>1
  <2>2. InMatchRow(pattern, n, k, n + 1 - m, string, nocase, match, m, j, R)
    BY <2>1, MatchRowMeans
  <2>3. match[m] = R
    BY <1>6 DEF MatchStep
  <2> HIDE DEF m, R, n, k
  <2>4. InMatchRow(pattern, n, k, r, string, nocase, match, m, j, R)
    BY <2>1, <2>2, Zenon
  <2>5. j \in R <=> \/ AfterStars(pattern, r) = n + 1
                    \/ \E i \in 1 .. j : i \in match[n + 1 - AfterStars(pattern, r)]
    BY <1>6, <2>1, <2>4, Zenon DEF InMatchRow
  <2>6. j \in match[m] <=> In(AfterStars(pattern, r), j)
    BY <2>3, <2>5, Zenon
  <2> QED BY <2>6 DEF m
<1> HIDE DEF n, k, after
<1>7. ASSUME NEW j \in 1 .. k PROVE j \in match[n + 1 - p] <=> j \in row
  <2>1. j \in match[n + 1 - p] <=> In(after, j)
    BY <1>1, <1>6 DEF after
  <2>2. j \in 0 .. k
    BY <1>1
  <2>3. CASE At(pattern, q) # Star
    <3>1. after = q
      BY <1>3, <2>3
    <3>2. \A i \in 1 .. j : i \in match[n + 1 - q] <=> i \in before
      <4>1. \A i \in 1 .. j : i \in 1 .. k
        BY <1>1
      <4> QED BY <1>4, <4>1
    <3>3. In(after, j) <=> 0 \in before \/ \E i \in 1 .. j : i \in before
      <4>1. after = n + 1 <=> 0 \in before
        BY <1>3, <1>4
      <4>2. In(after, j) <=> after = n + 1 \/ \E i \in 1 .. j : i \in match[n + 1 - q]
        BY <3>1, Zenon
      <4> HIDE DEF In, q
      <4> QED BY <3>2, <4>1, <4>2, Zenon
    <3>4. (0 \in before \/ \E i \in 1 .. j : i \in before) <=> \E i \in 0 .. j : i \in before
      <4>1. \A i : i \in 0 .. j <=> i = 0 \/ i \in 1 .. j
        BY <1>1
      <4> QED BY <4>1, Zenon
    <3> HIDE DEF In
    <3> QED BY <1>5, <2>1, <2>2, <3>3, <3>4, Zenon
  <2>4. CASE At(pattern, q) = Star
    <3>1. q \in 1 .. n /\ pattern[q] = Star
      <4>1. q \in 1 .. n
        BY <1>3, <2>4
      <4> HIDE DEF q
      <4>2. At(pattern, q) = pattern[q]
        BY <4>1, AtMeans DEF n
      <4> QED BY <2>4, <4>1, <4>2
    <3>2. j \in match[n + 1 - q] <=> In(AfterStars(pattern, q), j)
      BY <1>6, <3>1
    <3>3. j \in match[n + 1 - q] <=> In(after, j)
      BY <1>3, <3>2, Zenon
    <3> HIDE DEF In, q
    <3>4. j \in before <=> j \in row
      BY <1>4, <1>5, <2>2, <2>4, Zenon
    <3>5. j \in match[n + 1 - q] <=> j \in before
      BY <1>4
    <3> QED BY <2>1, <3>3, <3>4, <3>5, Zenon
  <2> QED BY <2>3, <2>4
<1>8. after = n + 1 <=> 0 \in row
  <2>1. 0 \in 0 .. k /\ \A i : i \in 0 .. 0 <=> i = 0
    BY <1>1
  <2>2. 0 \in row <=> \E i \in 0 .. 0 : i \in before
    BY <1>5, <2>1
  <2>3. (\E i \in 0 .. 0 : i \in before) <=> 0 \in before
    BY <2>1, Zenon
  <2> QED BY <1>3, <1>4, <2>2, <2>3
<1>9. ASSUME NEW j \in 0 .. k PROVE (\E i \in 0 .. j : i \in row) <=> j \in row
  <2>1. j \in 0 .. j /\ \A i \in 0 .. j : i \in 0 .. k /\ \A x \in 0 .. i : x \in 0 .. j
    BY <1>1
  <2>2. ASSUME NEW i \in 0 .. j, i \in row PROVE j \in row
    <3>1. PICK x \in 0 .. i : x \in before
      BY <1>5, <2>1, <2>2
    <3>2. x \in 0 .. j
      BY <2>1
    <3> QED BY <1>5, <3>1, <3>2
  <2> QED BY <2>1, <2>2
<1>10. Agrees(pattern, match, k, p, row)
  BY <1>7, <1>8, <1>9, Zenon DEF Agrees, after, n
<1> QED BY <1>10 DEF k

(* So does an item that is not a star.                                       *)
LEMMA OtherAgrees ==
  ASSUME NEW pattern \in ByteStrings, NEW string, Len(string) \in Nat,
         \A i \in 1 .. Len(string) : string[i] \in Chars, NEW nocase \in BOOLEAN, NEW match,
         NEW p \in Nat \ {0}, NEW item \in PatternItems, item.kind # "star", NEW row, NEW before,
         NEW q \in Nat, q = p + Len(WriteItem(item)), q <= Len(pattern) + 1,
         Written(pattern, p, WriteItem(item)),
         MatchStep(pattern, string, nocase, match, p),
         StandStep(item, string, nocase, row, before),
         Agrees(pattern, match, Len(string), q, before)
  PROVE  Agrees(pattern, match, Len(string), p, row)
<1> DEFINE n == Len(pattern)
           k == Len(string)
           l == Len(WriteItem(item))
           m == n + 1 - p
           R == MatchRow(pattern, string, nocase, match, m)
<1>1. n \in Nat /\ k \in Nat /\ l \in Nat \ {0} /\ q = p + l /\ q <= n + 1 /\ p \in Nat \ {0}
  BY ItemText, StringLength
<1>2. p \in 1 .. n /\ p \in 1 .. n + 1 /\ p # n + 1 /\ m # 0 /\ n + 1 - m = p
  <2> HIDE DEF n, l
  <2> QED BY <1>1
<1>3. p + Len(WriteItem(item)) <= Len(pattern) + 1
  BY <1>1
<1>4. \A c \in Chars : One(pattern, p, c, nocase) = [match |-> Denotes(item, c, nocase), p |-> q]
  BY <1>3, ItemRead
<1>5. At(pattern, p) # Star
  <2>1. 0 \in Chars
    BY DEF Chars
  <2> QED BY <1>3, <2>1, ItemRead
<1>6. pattern[p] # Star
  BY <1>2, <1>5, AtMeans
<1>7. AfterStars(pattern, p) # n + 1
  BY <1>2, <1>5, StarsSkipped
<1>8. /\ \A j \in 1 .. k : j \in match[n + 1 - q] <=> j \in before
      /\ AfterStars(pattern, q) = n + 1 <=> 0 \in before
  BY Zenon DEF Agrees
<1>9. \A j \in 0 .. k : j \in row <=> j > 0 /\ Denotes(item, string[k + 1 - j], nocase) /\ j - 1 \in before
  <2> TAKE j \in 0 .. k
  <2>1. InStandRow(item, string[k + 1 - j], nocase, row, before, j)
    BY DEF StandStep
  <2> QED BY <2>1 DEF InStandRow
<1>10. 0 \notin row
  <2>1. 0 \in 0 .. k /\ ~(0 > 0)
    BY <1>1
  <2> QED BY <1>9, <2>1
<1>11. match[m] = R
  BY DEF MatchStep
<1>12. \A j \in 0 .. k : InMatchRow(pattern, n, k, n + 1 - m, string, nocase, match, m, j, R)
  BY MatchRowMeans
<1>13. \A j \in 1 .. k : string[k + 1 - j] \in Chars
  <2> TAKE j \in 1 .. k
  <2> HIDE DEF k
  <2>1. k + 1 - j \in 1 .. k
    BY <1>1
  <2> QED BY <2>1 DEF k
<1> HIDE DEF n, k, l, m, R
<1>14. ASSUME NEW j \in 1 .. k PROVE j \in match[m] <=> j \in row
  <2> DEFINE c == string[k + 1 - j]
             one == One(pattern, p, c, nocase)
  <2>1. j \in 0 .. k /\ j # 0 /\ j > 0
    BY <1>1
  <2>2. InMatchRow(pattern, n, k, p, string, nocase, match, m, j, R)
    BY <1>2, <1>12, <2>1, Zenon
  <2>3. j \in R <=> /\ one.match
                    /\ IF j = 1 THEN AfterStars(pattern, one.p) = n + 1
                       ELSE j - 1 \in match[n + 1 - one.p]
    BY <1>2, <1>6, <2>1, <2>2, Zenon DEF InMatchRow
  <2>4. c \in Chars
    BY <1>13
  <2> HIDE DEF c
  <2>5. one = [match |-> Denotes(item, c, nocase), p |-> q]
    BY <1>4, <2>4
  <2>6. one.match = Denotes(item, c, nocase) /\ one.p = q
    BY <2>5
  <2> HIDE DEF one
  <2>7. j \in R <=> /\ Denotes(item, c, nocase)
                    /\ IF j = 1 THEN AfterStars(pattern, q) = n + 1 ELSE j - 1 \in match[n + 1 - q]
    BY <2>3, <2>6, Zenon
  <2>8. (IF j = 1 THEN AfterStars(pattern, q) = n + 1 ELSE j - 1 \in match[n + 1 - q])
          <=> j - 1 \in before
    <3>1. CASE j = 1
      <4>1. j - 1 = 0
        BY <3>1
      <4> QED BY <1>8, <3>1, <4>1, Zenon
    <3>2. CASE j # 1
      <4>1. j - 1 \in 1 .. k
        BY <1>1, <3>2
      <4>2. j - 1 \in match[n + 1 - q] <=> j - 1 \in before
        BY <1>8, <4>1, Zenon
      <4> QED BY <3>2, <4>2, Zenon
    <3> QED BY <3>1, <3>2, Zenon
  <2>9. j \in row <=> Denotes(item, c, nocase) /\ j - 1 \in before
    BY <1>9, <2>1 DEF c
  <2> QED BY <1>11, <2>7, <2>8, <2>9, Zenon
<1>15. Agrees(pattern, match, k, p, row)
  BY <1>5, <1>7, <1>10, <1>14, Zenon DEF Agrees, m, n
<1> QED BY <1>15 DEF k

(* A pattern of at least one item matches the texts that its items stand for,*)
(* the empty text left aside.                                                *)
LEMMA PatternRead ==
  ASSUME NEW items \in ItemLists, NEW string, Len(string) \in Nat,
         \A i \in 1 .. Len(string) : string[i] \in Chars, NEW nocase \in BOOLEAN
  PROVE  /\ Len(string) # 0 => (strmatch(WritePattern(items), string, nocase)
                                  <=> StandsFor(items, string, nocase))
         /\ Len(string) = 0 => (strmatch(WritePattern(items), string, nocase) <=> Len(items) = 0)
<1> DEFINE pattern == WritePattern(items)
           n == Len(pattern)
           L == Len(items)
           k == Len(string)
           match == Matches(pattern, string, nocase)
<1>1. pattern \in ByteStrings /\ \E at : ItemsAt(items, pattern, at)
  BY ItemsLaid
<1>2. PICK at : ItemsAt(items, pattern, at)
  BY <1>1
<1>3. PICK stands : /\ StandRows(items, string, nocase, stands)
                    /\ StandsFor(items, string, nocase) = (k \in stands[L])
  BY ListOfItems, StandsRows
<1>4. n \in Nat /\ L \in Nat /\ k \in Nat /\ \A i \in 1 .. L : items[i] \in PatternItems
  BY <1>1, StringLength, ListOfItems
<1>5. /\ \A i \in 1 .. L + 1 : at[i] \in Nat \ {0} /\ at[i] <= n + 1 /\ i <= at[i]
      /\ at[1] = 1 /\ at[L + 1] = n + 1
      /\ \A i \in 1 .. L : /\ at[i + 1] = at[i] + Len(WriteItem(items[i]))
                           /\ Written(pattern, at[i], WriteItem(items[i]))
  BY <1>2 DEF ItemsAt
<1>6. strmatch(pattern, string, nocase) <=> k \in match[n]
  BY Zenon DEF strmatch
<1>7. \A m \in 0 .. n : match[m] = MatchRow(pattern, string, nocase, match, m)
  BY <1>1, MatchesRows
<1>8. \A m \in 0 .. L : stands[m] = StandRow(items, string, nocase, stands, m)
  BY <1>3 DEF StandRows
<1> HIDE DEF match, pattern
<1>9. ASSUME NEW i \in 1 .. L + 1 PROVE MatchStep(pattern, string, nocase, match, at[i])
  <2> DEFINE p == at[i]
             m == n + 1 - p
  <2>1. p \in Nat \ {0} /\ p <= n + 1
    BY <1>5
  <2>2. m \in 0 .. n
    <3> HIDE DEF n, p
    <3> QED BY <1>4, <2>1
  <2> HIDE DEF m, p
  <2>3. match[m] = MatchRow(pattern, string, nocase, match, m)
    BY <1>7, <2>2
  <2> QED BY <2>3 DEF MatchStep, m, p
<1>10. ASSUME NEW i \in 1 .. L
       PROVE  StandStep(items[i], string, nocase, stands[L + 1 - i], stands[L + 1 - (i + 1)])
  <2> DEFINE m == L + 1 - i
  <2>1. m \in 0 .. L /\ m # 0 /\ m - 1 = L + 1 - (i + 1) /\ L + 1 - m = i
    <3> HIDE DEF L
    <3> QED BY <1>4
  <2>2. stands[m] = StandRow(items, string, nocase, stands, m)
    BY <1>8, <2>1
  <2> HIDE DEF m
  <2>3. ASSUME NEW j \in 0 .. k
        PROVE  InStandRow(items[i], string[k + 1 - j], nocase, stands[m], stands[m - 1], j)
    <3>1. InStandRow(items[L + 1 - m], string[k + 1 - j], nocase,
                     StandRow(items, string, nocase, stands, m), stands[m - 1], j)
      BY <2>1, StandRowMeans
    <3> QED BY <2>1, <2>2, <3>1, Zenon
  <2>4. StandStep(items[i], string, nocase, stands[m], stands[m - 1])
    BY <2>3 DEF StandStep
  <2> QED BY <2>1, <2>4, Zenon DEF m
<1> HIDE DEF n, L, k
<1> DEFINE Fine(i) == Agrees(pattern, match, k, at[i], stands[L + 1 - i])
           T == {r \in Nat : r <= L => Fine(L + 1 - r)}
<1>11. 0 \in T
  <2>1. L + 1 - 0 = L + 1 /\ L + 1 - (L + 1) = 0 /\ n + 1 - (n + 1) = 0 /\ 0 \in 0 .. n /\ 0 \in 0 .. L
        /\ n + 1 \in 1 .. n + 1 /\ at[L + 1] = n + 1
    BY <1>4, <1>5
  <2>2. match[0] = MatchRow(pattern, string, nocase, match, 0)
    BY <1>7, <2>1
  <2>3. stands[0] = StandRow(items, string, nocase, stands, 0)
    BY <1>8, <2>1
  <2>4. ASSUME NEW j \in 0 .. k PROVE (j \in match[0] <=> j = 0) /\ (j \in stands[0] <=> j = 0)
    <3>1. InMatchRow(pattern, n, k, n + 1 - 0, string, nocase, match, 0, j, match[0])
      BY <2>2, MatchRowMeans DEF k, n
    <3>2. j \in match[0] <=> 0 = j
      BY <3>1, Zenon DEF InMatchRow
    <3>3. j \in stands[0] <=> j = 0
      BY <2>3, StandRowMeans DEF k
    <3> QED BY <3>2, <3>3
  <2>5. \A j \in 1 .. k : j \in match[0] <=> j \in stands[0]
    <3>1. \A j \in 1 .. k : j \in 0 .. k
      BY <1>4
    <3> QED BY <2>4, <3>1
  <2>6. At(pattern, n + 1) # Star
    BY <1>1, AtMeans, Marks DEF n
  <2>7. AfterStars(pattern, n + 1) = n + 1
    BY <1>1, <2>1, <2>6, StarsSkipped DEF n
  <2>8. 0 \in stands[0]
    <3>1. 0 \in 0 .. k
      BY <1>4
    <3> QED BY <2>4, <3>1
  <2>9. Agrees(pattern, match, k, n + 1, stands[0])
    <3>1. \A j \in 1 .. k : j \in match[n + 1 - (n + 1)] <=> j \in stands[0]
      BY <2>1, <2>5
    <3> QED BY <2>6, <2>7, <2>8, <3>1, Zenon DEF Agrees, n
  <2>10. Fine(L + 1)
    BY <2>1, <2>9, Zenon
  <2> HIDE DEF Fine
  <2> QED BY <2>1, <2>10
<1>12. ASSUME NEW r \in Nat, r \in T PROVE r + 1 \in T
  <2> SUFFICES ASSUME r + 1 <= L PROVE Fine(L + 1 - (r + 1))
    OBVIOUS
  <2> DEFINE i == L + 1 - (r + 1)
             p == at[i]
             q == at[i + 1]
             item == items[i]
             row == stands[L + 1 - i]
             before == stands[L + 1 - (i + 1)]
  <2>1. i \in 1 .. L /\ i \in 1 .. L + 1 /\ i + 1 \in 1 .. L + 1 /\ L + 1 - r = i + 1
    BY <1>4
  <2> HIDE DEF i
  <2>2. Agrees(pattern, match, k, q, before)
    <3>1. r <= L
      BY <1>4
    <3>2. Fine(L + 1 - r)
      BY <1>12, <3>1
    <3> QED BY <2>1, <3>2, Zenon
  <2>3. p \in Nat \ {0} /\ q \in Nat \ {0} /\ q <= n + 1 /\ q = p + Len(WriteItem(item))
        /\ Written(pattern, p, WriteItem(item)) /\ item \in PatternItems
    BY <1>4, <1>5, <2>1
  <2>4. MatchStep(pattern, string, nocase, match, p) /\ MatchStep(pattern, string, nocase, match, q)
        /\ StandStep(item, string, nocase, row, before)
    BY <1>9, <1>10, <2>1
  <2> HIDE DEF p, q, item, row, before
  <2>5. CASE item.kind = "star"
    <3>1. WriteItem(item) = << Star >> /\ Len(WriteItem(item)) = 1 /\ WriteItem(item)[1] = Star
      BY <2>3, <2>5, ItemWritten, Marks, CharacterString
    <3>2. q = p + 1 /\ p \in 1 .. n /\ p + Len(WriteItem(item)) <= Len(pattern) + 1
      <4>1. q = p + 1
        BY <2>3, <3>1
      <4> QED BY <1>4, <2>3, <4>1 DEF n
    <3>3. ReadsAt(pattern, p, WriteItem(item))
      <4>1. Len(WriteItem(item)) \in Nat
        BY <3>1
      <4> QED BY <1>1, <2>3, <3>2, <4>1, ReadAt
    <3>4. pattern[p] = Star
      <4>1. 1 \in 1 .. Len(WriteItem(item)) /\ p + 1 - 1 = p
        BY <2>3, <3>1
      <4>2. pattern[p + 1 - 1] = WriteItem(item)[1]
        BY <3>3, <4>1, Zenon DEF ReadsAt
      <4> QED BY <3>1, <4>1, <4>2
    <3>5. p \in 1 .. Len(pattern) /\ Len(string) \in Nat
      BY <1>4, <3>2 DEF n, k
    <3>6. Agrees(pattern, match, Len(string), p, row)
      BY <1>1, <2>2, <2>4, <2>5, <3>2, <3>4, <3>5, StarAgrees DEF k
    <3> QED BY <3>6 DEF k, p, row, i
  <2>6. CASE item.kind # "star"
    <3>1. q \in Nat /\ q <= Len(pattern) + 1
      BY <2>3 DEF n
    <3>2. Agrees(pattern, match, Len(string), p, row)
      BY <1>1, <2>2, <2>3, <2>4, <2>6, <3>1, OtherAgrees DEF k
    <3> QED BY <3>2 DEF k, p, row, i
  <2> QED BY <2>5, <2>6
<1>13. Nat \subseteq T
  <2> HIDE DEF T
  <2> QED BY <1>11, <1>12, SetInduction
<1>14. Agrees(pattern, match, k, 1, stands[L])
  <2>1. L \in T /\ L + 1 - L = 1 /\ L + 1 - 1 = L /\ at[1] = 1
    BY <1>4, <1>5, <1>13
  <2>2. Fine(1)
    <3> HIDE DEF Fine
    <3>1. Fine(L + 1 - L)
      BY <1>4, <2>1
    <3> QED BY <2>1, <3>1
  <2> QED BY <2>1, <2>2, Zenon
<1>15. k # 0 => (k \in match[n] <=> k \in stands[L])
  <2>1. n + 1 - 1 = n /\ (k # 0 => k \in 1 .. k)
    BY <1>4
  <2> QED BY <1>14, <2>1, Zenon DEF Agrees, n
<1>16. k = 0 => (k \in match[n] <=> L = 0)
  <2> SUFFICES ASSUME k = 0 PROVE 0 \in match[n] <=> L = 0
    BY Zenon
  <2>1. 0 \in 0 .. k /\ n \in 0 .. n /\ 0 \in 0 .. Len(string)
    BY <1>4 DEF k
  <2>2. InMatchRow(pattern, n, k, n + 1 - n, string, nocase, match, n, 0,
                   MatchRow(pattern, string, nocase, match, n))
    BY <2>1, MatchRowMeans, Zenon DEF k, n
  <2>3. 0 \in match[n] <=> n = 0
    <3>1. match[n] = MatchRow(pattern, string, nocase, match, n)
      BY <1>7, <2>1
    <3> QED BY <2>2, <3>1, Zenon DEF InMatchRow
  <2>4. n = 0 <=> L = 0
    <3>1. L + 1 \in 1 .. L + 1
      BY <1>4
    <3>2. L + 1 <= at[L + 1] /\ at[L + 1] = n + 1 /\ at[1] = 1
      BY <1>5, <3>1
    <3>3. L = 0 => n = 0
      <4>1. L = 0 => L + 1 = 1
        OBVIOUS
      <4> QED BY <1>4, <3>2, <4>1
    <3> QED BY <1>4, <3>2, <3>3
  <2> QED BY <2>3, <2>4
<1> QED BY <1>3, <1>6, <1>15, <1>16, Zenon DEF k, L, pattern

-----------------------------------------------------------------------------
(* The program.  What its constants are, in the words of the lemmas.         *)
LEMMA Inputs ==
  /\ \A s \in Lines \cup Separators : s \in Seq(Bytes) /\ s \in ByteStrings
  /\ \A sep \in Separators : Len(sep) # 0
  /\ \A words \in WordLists : words \in Seq(ByteStrings)
  /\ \A t \in Triples : t[1] \in Seq(Bytes) /\ t[2] \in Seq(Bytes) /\ t[3] \in Seq(Bytes)
  /\ \A items \in Patterns : items \in ItemLists
  /\ \A text \in Strings : /\ Len(text) \in Nat /\ (Len(text) = 0 <=> text = << >>)
                           /\ \A i \in 1 .. Len(text) : text[i] \in Chars
<1>1. \A s \in Lines \cup Separators : s \in Seq(Bytes) /\ s \in ByteStrings
  BY TextCallsAssumption DEF ByteStrings
<1>2. \A sep \in Separators : Len(sep) # 0
  <2> TAKE sep \in Separators
  <2>1. sep \in ByteStrings /\ sep # << >>
    BY <1>1, TextCallsAssumption
  <2> QED BY <2>1, StringLength
<1>3. \A words \in WordLists : words \in Seq(ByteStrings)
  BY TextCallsAssumption DEF ByteStrings
<1>4. \A t \in Triples : t[1] \in Seq(Bytes) /\ t[2] \in Seq(Bytes) /\ t[3] \in Seq(Bytes)
  BY TextCallsAssumption
<1>5. \A items \in Patterns : items \in ItemLists
  BY TextCallsAssumption DEF ItemLists
<1>6. \A text \in Strings : /\ Len(text) \in Nat /\ (Len(text) = 0 <=> text = << >>)
                            /\ \A i \in 1 .. Len(text) : text[i] \in Chars
  <2> TAKE text \in Strings
  <2>1. text \in Seq(Chars)
    BY TextCallsAssumption
  <2> QED BY <2>1, LenProperties, EmptySeq, ElementOfSeq
<1> QED BY <1>1, <1>2, <1>3, <1>4, <1>5, <1>6

(* A line that was quoted is known until it is read back.                    *)
QuotedLine ==
  call.fn = "sdscatrepr" =>
    \E words \in WordLists : /\ call = [fn |-> "sdscatrepr", words |-> words]
                             /\ answer = Quoted(words)[Len(words)]

(* Each of the calls answers what its property says.                         *)
LEMMA CompareAnswers ==
  ASSUME sdscmp_calls
  PROVE  CompareOrders' /\ call'.fn = "sdscmp"
<1>1. PICK t \in Triples : Call([fn |-> "sdscmp", texts |-> t],
                                [i \in 1 .. 3 |-> [j \in 1 .. 3 |-> sdscmp(t[i], t[j])]])
  BY DEF sdscmp_calls
<1>2. call' = [fn |-> "sdscmp", texts |-> t]
      /\ answer' = [i \in 1 .. 3 |-> [j \in 1 .. 3 |-> sdscmp(t[i], t[j])]]
  BY <1>1 DEF Call
<1>3. \A i \in 1 .. 3 : t[i] \in Seq(Bytes)
  BY Inputs
<1>4. \A i, j \in 1 .. 3 : answer'[i][j] = sdscmp(t[i], t[j])
  BY <1>2
<1>5. call'.texts = t /\ call'.fn = "sdscmp"
  BY <1>2
<1>6. ASSUME NEW i \in 1 .. 3, NEW j \in 1 .. 3
      PROVE  /\ sdscmp(t[i], t[j]) = -sdscmp(t[j], t[i])
             /\ (sdscmp(t[i], t[j]) = 0) = (t[i] = t[j])
             /\ \A k \in 1 .. 3 : sdscmp(t[i], t[j]) <= 0 /\ sdscmp(t[j], t[k]) <= 0
                                  => sdscmp(t[i], t[k]) <= 0
  BY <1>3, CompareIsOrder
<1> QED BY <1>4, <1>5, <1>6 DEF CompareOrders

(* A call of sdsfromlonglong() answers what NumberReadsBack says.            *)
LEMMA NumberAnswers ==
  ASSUME sdsfromlonglong_call
  PROVE  NumberReadsBack' /\ call'.fn = "sdsfromlonglong"
<1>1. PICK n \in Longs : call' = [fn |-> "sdsfromlonglong", number |-> n] /\ answer' = sdsll2str(n)
  BY DEF sdsfromlonglong_call, Call
<1>2. n \in -(LLONG_MAX + 1) .. LLONG_MAX
  BY TextCallsAssumption
<1> DEFINE text == answer'
           digits == IF text[1] = Minus THEN Tail(text) ELSE text
<1>3. /\ \A i \in DOMAIN digits : isdigit(digits[i])
      /\ ReadBack(digits) = IF text = digits THEN n ELSE -n
      /\ digits[1] # 48 \/ text = << 48 >>
      /\ Len(text) + 1 <= LLSTR_SIZE
  <2>1. text = sdsll2str(n) /\ digits = IF text[1] = Minus THEN Tail(text) ELSE text
    BY <1>1
  <2> HIDE DEF text, digits
  <2>2. Digital(n, text, digits)
    BY <1>2, <2>1, NumberIsReadBack
  <2> QED BY <2>2 DEF Digital
<1>4. call'.number = n /\ call'.fn = "sdsfromlonglong"
  BY <1>1
<1> QED BY <1>3, <1>4, Zenon DEF NumberReadsBack, ReadBack

(* A call of sdscatprintf() answers what PrintedWhole says.                  *)
LEMMA PrintAnswers ==
  ASSUME sdscatprintf_call
  PROVE  PrintedWhole' /\ call'.fn = "sdscatprintf"
<1>1. PICK s \in Lines, text \in Lines, fmtlen \in 1 .. StaticBuf :
        /\ call' = [fn |-> "sdscatprintf", text |-> s \o text]
        /\ answer' = sdscatvprintf(s, fmtlen, text)
  BY DEF sdscatprintf_call, Call
<1>2. sdscatvprintf(s, fmtlen, text) = s \o text
  <2>1. s \in Seq(Bytes) /\ text \in Seq(Bytes)
    BY Inputs
  <2>2. fmtlen \in Nat
    BY SdsTextAssumption
  <2> QED BY <2>1, <2>2, sdscatvprintfWhole
<1>3. call'.text = s \o text /\ call'.fn = "sdscatprintf"
  BY <1>1
<1> QED BY <1>1, <1>2, <1>3 DEF PrintedWhole

(* A call of sdssplitlen() answers what SplitJoin says.                      *)
LEMMA SplitAnswers ==
  ASSUME sdssplitlen_call
  PROVE  SplitJoin' /\ call'.fn = "sdssplitlen"
<1>1. PICK s \in Lines, sep \in Separators :
        call' = [fn |-> "sdssplitlen", text |-> s, sep |-> sep] /\ answer' = sdssplitlen(s, sep)
  BY DEF sdssplitlen_call, Call
<1>2. s \in ByteStrings /\ sep \in ByteStrings /\ Len(sep) # 0
  BY Inputs
<1> DEFINE result == answer'
<1>3. /\ sdsjoinsds(result.tokens, sep) = s
      /\ \A i \in DOMAIN result.tokens : ~Holds(result.tokens[i], sep)
      /\ Len(result.tokens) <= result.slots
  BY <1>1, <1>2, SplitIsJoined
<1>4. call'.text = s /\ call'.sep = sep /\ call'.fn = "sdssplitlen"
  BY <1>1
<1> HIDE DEF result
<1>5. \A i \in DOMAIN result.tokens :
        ~\E m \in 1 .. Len(result.tokens[i]) - Len(sep) + 1 :
           SubSeq(result.tokens[i], m, m + Len(sep) - 1) = sep
  BY <1>3, Zenon DEF Holds
<1> QED BY <1>3, <1>4, <1>5, Zenon DEF SplitJoin, result

(* The calls of sdscatrepr() leave the quoted line in the answer.            *)
LEMMA QuoteAnswers ==
  ASSUME sdscatrepr_calls
  PROVE  QuotedLine' /\ call'.fn = "sdscatrepr"
<1>1. PICK words \in WordLists : call' = [fn |-> "sdscatrepr", words |-> words]
                                 /\ answer' = Quoted(words)[Len(words)]
  BY DEF sdscatrepr_calls, Call
<1>2. call'.fn = "sdscatrepr"
  BY <1>1
<1> QED BY <1>1, <1>2 DEF QuotedLine

(* A call of sdssplitargs() answers what QuotingRoundTrips says.             *)
LEMMA ReadAnswers ==
  ASSUME QuotedLine, sdssplitargs_call
  PROVE  QuotingRoundTrips' /\ call'.fn = "sdssplitargs"
<1>1. /\ call.fn = "sdscatrepr" /\ call' = [call EXCEPT !.fn = "sdssplitargs"]
      /\ answer' = sdssplitargs(answer)
  BY DEF sdssplitargs_call, Call
<1>2. PICK words \in WordLists : call = [fn |-> "sdscatrepr", words |-> words]
                                 /\ answer = Quoted(words)[Len(words)]
  BY <1>1 DEF QuotedLine
<1>3. call' = [fn |-> "sdssplitargs", words |-> words]
  BY <1>1, <1>2
<1>4. answer' = [ok |-> TRUE, argv |-> words]
  <2>1. words \in Seq(ByteStrings)
    BY Inputs
  <2> QED BY <1>1, <1>2, <2>1, WordsRead
<1>5. call'.words = words /\ call'.fn = "sdssplitargs"
  BY <1>3
<1> QED BY <1>4, <1>5 DEF QuotingRoundTrips

(* A call of strmatch() answers what PatternMeaning says.                    *)
LEMMA MatchAnswers ==
  ASSUME strmatch_call
  PROVE  PatternMeaning' /\ call'.fn = "strmatch"
<1>1. PICK items \in Patterns, text \in Strings, nocase \in BOOLEAN :
        /\ call' = [fn |-> "strmatch", items |-> items, text |-> text, nocase |-> nocase]
        /\ answer' = strmatch(WritePattern(items), text, nocase)
  BY DEF strmatch_call, Call
<1>2. /\ call'.fn = "strmatch" /\ call'.items = items /\ call'.text = text
      /\ call'.nocase = nocase
  BY <1>1
<1>3. items \in ItemLists /\ Len(text) \in Nat /\ (Len(text) = 0 <=> text = << >>)
      /\ \A i \in 1 .. Len(text) : text[i] \in Chars
  BY Inputs
<1>4. Len(items) = 0 <=> items = << >>
  BY <1>3, EmptySeq DEF ItemLists
<1>5. /\ Len(text) # 0 => (strmatch(WritePattern(items), text, nocase) <=> StandsFor(items, text, nocase))
      /\ Len(text) = 0 => (strmatch(WritePattern(items), text, nocase) <=> Len(items) = 0)
  BY <1>3, PatternRead
<1>6. strmatch(WritePattern(items), text, nocase) \in BOOLEAN
      /\ StandsFor(items, text, nocase) \in BOOLEAN
  <2>1. PICK stands : StandsFor(items, text, nocase) = (Len(text) \in stands[Len(items)])
    BY <1>3, ListOfItems, StandsRows
  <2> QED BY <2>1 DEF strmatch
<1>7. text = << >> => answer' = (items = << >>)
  BY <1>1, <1>3, <1>4, <1>5, <1>6
<1>8. text # << >> => answer' = StandsFor(items, text, nocase)
  BY <1>1, <1>3, <1>5, <1>6
<1> QED BY <1>2, <1>7, <1>8, Zenon DEF PatternMeaning

(* Which call was made last.                                                 *)
LEMMA LastCall ==
  ASSUME QuotedLine, CallsNext
  PROVE  \/ sdscmp_calls /\ call'.fn = "sdscmp"
         \/ sdsfromlonglong_call /\ call'.fn = "sdsfromlonglong"
         \/ sdscatprintf_call /\ call'.fn = "sdscatprintf"
         \/ sdssplitlen_call /\ call'.fn = "sdssplitlen"
         \/ sdscatrepr_calls /\ call'.fn = "sdscatrepr"
         \/ sdssplitargs_call /\ call'.fn = "sdssplitargs"
         \/ strmatch_call /\ call'.fn = "strmatch"
         \/ Return /\ call'.fn = "none"
<1>1. Return => call'.fn = "none"
  BY DEF Return, Idle
<1> QED BY <1>1, CompareAnswers, NumberAnswers, PrintAnswers, SplitAnswers, QuoteAnswers,
           ReadAnswers, MatchAnswers DEF CallsNext

(* Between the calls that quote words and the one that reads them, the line  *)
(* is the words as sdscatrepr() quotes them.                                 *)
THEOREM SpecQuotedLine == CallsSpec => []QuotedLine
<1>1. TextInit => QuotedLine
  BY DEF TextInit, Idle, QuotedLine
<1>2. QuotedLine /\ [CallsNext]_text_vars => QuotedLine'
  <2> SUFFICES ASSUME QuotedLine, [CallsNext]_text_vars PROVE QuotedLine'
    OBVIOUS
  <2>1. CASE CallsNext
    <3>1. CASE sdscatrepr_calls
      BY <3>1, QuoteAnswers
    <3>2. CASE call'.fn # "sdscatrepr"
      BY <3>2 DEF QuotedLine
    <3> QED BY <2>1, <3>1, <3>2, LastCall
  <2>2. CASE UNCHANGED text_vars
    BY <2>2 DEF QuotedLine, text_vars
  <2> QED BY <2>1, <2>2
<1> QED BY <1>1, <1>2, PTL DEF CallsSpec

(* sdscmp() orders strings of any length: it answers the opposite when they  *)
(* change places, zero only for the same string, and never in a circle.      *)
THEOREM SpecCompareOrders == CallsSpec => []CompareOrders
<1>1. TextInit => CompareOrders
  BY DEF TextInit, Idle, CompareOrders
<1>2. QuotedLine /\ CompareOrders /\ [CallsNext]_text_vars => CompareOrders'
  <2> SUFFICES ASSUME QuotedLine, CompareOrders, [CallsNext]_text_vars PROVE CompareOrders'
    OBVIOUS
  <2>1. CASE CallsNext
    <3>1. CASE sdscmp_calls
      BY <3>1, CompareAnswers
    <3>2. CASE call'.fn # "sdscmp"
      BY <3>2 DEF CompareOrders
    <3> QED BY <2>1, <3>1, <3>2, LastCall
  <2>2. CASE UNCHANGED text_vars
    BY <2>2 DEF CompareOrders, text_vars
  <2> QED BY <2>1, <2>2
<1> QED BY <1>1, <1>2, SpecQuotedLine, PTL DEF CallsSpec

(* The digits that sdsfromlonglong() writes for any number of the width read *)
(* back as that number and fit its buffer.                                   *)
THEOREM SpecNumberReadsBack == CallsSpec => []NumberReadsBack
<1>1. TextInit => NumberReadsBack
  BY DEF TextInit, Idle, NumberReadsBack
<1>2. QuotedLine /\ NumberReadsBack /\ [CallsNext]_text_vars => NumberReadsBack'
  <2> SUFFICES ASSUME QuotedLine, NumberReadsBack, [CallsNext]_text_vars PROVE NumberReadsBack'
    OBVIOUS
  <2>1. CASE CallsNext
    <3>1. CASE sdsfromlonglong_call
      BY <3>1, NumberAnswers
    <3>2. CASE call'.fn # "sdsfromlonglong"
      BY <3>2 DEF NumberReadsBack
    <3> QED BY <2>1, <3>1, <3>2, LastCall
  <2>2. CASE UNCHANGED text_vars
    <3>1. call' = call /\ answer' = answer
      BY <2>2 DEF text_vars
    <3> DEFINE reads(c, a) ==
                 c.fn = "sdsfromlonglong" =>
                   LET digits == IF a[1] = Minus THEN Tail(a) ELSE a
                   IN  /\ \A i \in DOMAIN digits : isdigit(digits[i])
                       /\ ReadBack(digits) = IF a = digits THEN c.number ELSE -c.number
                       /\ digits[1] # 48 \/ a = << 48 >>
                       /\ Len(a) + 1 <= LLSTR_SIZE
    <3>2. NumberReadsBack <=> reads(call, answer)
      BY Zenon DEF NumberReadsBack, ReadBack
    <3>3. NumberReadsBack' <=> reads(call', answer')
      BY Zenon DEF NumberReadsBack, ReadBack
    <3> QED BY <3>1, <3>2, <3>3, Zenon
  <2> QED BY <2>1, <2>2
<1> QED BY <1>1, <1>2, SpecQuotedLine, PTL DEF CallsSpec

(* sdscatprintf() appends the whole text, whatever its length and that of the*)
(* format.                                                                   *)
THEOREM SpecPrintedWhole == CallsSpec => []PrintedWhole
<1>1. TextInit => PrintedWhole
  BY DEF TextInit, Idle, PrintedWhole
<1>2. QuotedLine /\ PrintedWhole /\ [CallsNext]_text_vars => PrintedWhole'
  <2> SUFFICES ASSUME QuotedLine, PrintedWhole, [CallsNext]_text_vars PROVE PrintedWhole'
    OBVIOUS
  <2>1. CASE CallsNext
    <3>1. CASE sdscatprintf_call
      BY <3>1, PrintAnswers
    <3>2. CASE call'.fn # "sdscatprintf"
      BY <3>2 DEF PrintedWhole
    <3> QED BY <2>1, <3>1, <3>2, LastCall
  <2>2. CASE UNCHANGED text_vars
    BY <2>2 DEF PrintedWhole, text_vars
  <2> QED BY <2>1, <2>2
<1> QED BY <1>1, <1>2, SpecQuotedLine, PTL DEF CallsSpec

(* The tokens of sdssplitlen() make up any string again, hold no separator   *)
(* and have slots in the array.                                              *)
THEOREM SpecSplitJoin == CallsSpec => []SplitJoin
<1>1. TextInit => SplitJoin
  BY DEF TextInit, Idle, SplitJoin
<1>2. QuotedLine /\ SplitJoin /\ [CallsNext]_text_vars => SplitJoin'
  <2> SUFFICES ASSUME QuotedLine, SplitJoin, [CallsNext]_text_vars PROVE SplitJoin'
    OBVIOUS
  <2>1. CASE CallsNext
    <3>1. CASE sdssplitlen_call
      BY <3>1, SplitAnswers
    <3>2. CASE call'.fn # "sdssplitlen"
      BY <3>2 DEF SplitJoin
    <3> QED BY <2>1, <3>1, <3>2, LastCall
  <2>2. CASE UNCHANGED text_vars
    BY <2>2 DEF SplitJoin, text_vars
  <2> QED BY <2>1, <2>2
<1> QED BY <1>1, <1>2, SpecQuotedLine, PTL DEF CallsSpec

(* sdssplitargs() reads back any list of words that sdscatrepr() quoted.      *)
THEOREM SpecQuotingRoundTrips == CallsSpec => []QuotingRoundTrips
<1>1. TextInit => QuotingRoundTrips
  BY DEF TextInit, Idle, QuotingRoundTrips
<1>2. QuotedLine /\ QuotingRoundTrips /\ [CallsNext]_text_vars => QuotingRoundTrips'
  <2> SUFFICES ASSUME QuotedLine, QuotingRoundTrips, [CallsNext]_text_vars
               PROVE  QuotingRoundTrips'
    OBVIOUS
  <2>1. CASE CallsNext
    <3>1. CASE sdssplitargs_call
      BY <3>1, ReadAnswers
    <3>2. CASE call'.fn # "sdssplitargs"
      BY <3>2 DEF QuotingRoundTrips
    <3> QED BY <2>1, <3>1, <3>2, LastCall
  <2>2. CASE UNCHANGED text_vars
    BY <2>2 DEF QuotingRoundTrips, text_vars
  <2> QED BY <2>1, <2>2
<1> QED BY <1>1, <1>2, SpecQuotedLine, PTL DEF CallsSpec

(* strmatch() accepts exactly the texts that a pattern of any length stands  *)
(* for, with and without regard to case, and an empty text only with an      *)
(* empty pattern.                                                            *)
THEOREM SpecPatternMeaning == CallsSpec => []PatternMeaning
<1>1. TextInit => PatternMeaning
  BY DEF TextInit, Idle, PatternMeaning
<1>2. QuotedLine /\ PatternMeaning /\ [CallsNext]_text_vars => PatternMeaning'
  <2> SUFFICES ASSUME QuotedLine, PatternMeaning, [CallsNext]_text_vars PROVE PatternMeaning'
    OBVIOUS
  <2>1. CASE CallsNext
    <3>1. CASE strmatch_call
      BY <3>1, MatchAnswers
    <3>2. CASE call'.fn # "strmatch"
      BY <3>2 DEF PatternMeaning
    <3> QED BY <2>1, <3>1, <3>2, LastCall
  <2>2. CASE UNCHANGED text_vars
    BY <2>2 DEF PatternMeaning, text_vars
  <2> QED BY <2>1, <2>2
<1> QED BY <1>1, <1>2, SpecQuotedLine, PTL DEF CallsSpec

=============================================================================
