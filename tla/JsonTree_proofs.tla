--------------------------- MODULE JsonTree_proofs ---------------------------

(***************************************************************************)
(* Proofs about JsonTree for any set of items.                             *)
(***************************************************************************)
EXTENDS JsonTree, FiniteSetTheorems, TLAPS

(* Induction over a set of numbers, from the least one that is not in it.    *)
LEMMA SetInduction ==
  ASSUME NEW T, 0 \in T, \A n \in Nat : n \in T => n + 1 \in T
  PROVE  Nat \subseteq T
<1> SUFFICES ASSUME Nat \ T # {} PROVE FALSE
  OBVIOUS
<1> DEFINE R == OpToRel(<, Nat)
<1>1. IsWellFoundedOn(R, Nat)
  BY NatLessThanWellFounded
<1> HIDE DEF R
<1>2. PICK n \in Nat \ T : \A k \in Nat \ T : ~(<<k, n>> \in R)
  BY <1>1, WFMin, Nat \ T \subseteq Nat, Zenon
<1>3. n \in Nat /\ n \notin T
  OBVIOUS
<1>4. n # 0
  BY <1>3
<1>5. n - 1 \in Nat /\ n - 1 < n /\ (n - 1) + 1 = n
  BY <1>3, <1>4
<1>6. <<n - 1, n>> \in R
  BY <1>3, <1>5 DEF R, OpToRel
<1>7. n - 1 \in T
  BY <1>2, <1>5, <1>6
<1> QED BY <1>3, <1>5, <1>7

(* A function that is given by its first value and a step from each value to *)
(* the next one.                                                             *)
Steps(S) == [Nat -> [S -> S]]
Follows(f, S, x, d) == f \in [Nat -> S] /\ f[0] = x /\ \A n \in Nat : f[n + 1] = d[n][f[n]]

(* A first value and a step for each number give such a function.            *)
LEMMA RecursionExists ==
  ASSUME NEW S, NEW x \in S, NEW d \in Steps(S)
  PROVE  \E f : Follows(f, S, x, d)
<1> USE DEF Steps
<1> DEFINE Upto(n) == {g \in [0 .. n -> S] : g[0] = x /\ \A k \in 0 .. n - 1 : g[k + 1] = d[k][g[k]]}
           T == {n \in Nat : Upto(n) # {}}
<1>1. 0 \in T
  <2>1. [k \in 0 .. 0 |-> x] \in Upto(0)
    OBVIOUS
  <2> QED BY <2>1
<1>2. ASSUME NEW n \in Nat, n \in T PROVE n + 1 \in T
  <2>1. PICK g \in Upto(n) : TRUE
    BY <1>2
  <2> DEFINE e == [k \in 0 .. n + 1 |-> IF k <= n THEN g[k] ELSE d[n][g[n]]]
  <2>2. g[n] \in S /\ d[n][g[n]] \in S /\ \A k \in 0 .. n : g[k] \in S
    BY <2>1
  <2>3. e \in [0 .. n + 1 -> S]
    BY <2>2
  <2>4. e[0] = x
    BY <2>1
  <2>5. \A k \in 0 .. n : e[k + 1] = d[k][e[k]]
    BY <2>1
  <2>6. (n + 1) - 1 = n /\ n + 1 \in Nat
    OBVIOUS
  <2>7. e \in Upto(n + 1)
    <3> HIDE DEF e
    <3> QED BY <2>3, <2>4, <2>5, <2>6
  <2> HIDE DEF Upto
  <2> QED BY <2>6, <2>7
<1>3. \A n \in Nat : Upto(n) # {}
  <2> HIDE DEF Upto
  <2> QED BY <1>1, <1>2, SetInduction
<1> DEFINE G == [n \in Nat |-> CHOOSE g : g \in Upto(n)]
           f == [n \in Nat |-> G[n][n]]
<1>4. \A n \in Nat : G[n] \in Upto(n)
  BY <1>3
<1> HIDE DEF G
<1>5. \A n \in Nat : /\ G[n] \in [0 .. n -> S] /\ G[n][0] = x
                    /\ \A k \in 0 .. n - 1 : G[n][k + 1] = d[k][G[n][k]]
  BY <1>4
<1> HIDE DEF Upto
<1>6. ASSUME NEW n \in Nat
      PROVE  G[n][n] = G[n + 1][n]
  <2> DEFINE V == {k \in Nat : k <= n => G[n][k] = G[n + 1][k]}
  <2>1. 0 \in V
    BY <1>5
  <2>2. ASSUME NEW k \in Nat, k \in V PROVE k + 1 \in V
    <3> SUFFICES ASSUME k + 1 <= n PROVE G[n][k + 1] = G[n + 1][k + 1]
      OBVIOUS
    <3>1. k \in 0 .. n - 1 /\ k \in 0 .. (n + 1) - 1 /\ n + 1 \in Nat
      OBVIOUS
    <3>2. G[n][k] = G[n + 1][k]
      BY <2>2
    <3> QED BY <1>5, <3>1, <3>2
  <2>3. n \in V
    <3> HIDE DEF V
    <3> QED BY <2>1, <2>2, SetInduction
  <2> QED BY <2>3
<1>7. f \in [Nat -> S]
  BY <1>5
<1>8. f[0] = x
  BY <1>5
<1>9. ASSUME NEW n \in Nat PROVE f[n + 1] = d[n][f[n]]
  <2>1. n + 1 \in Nat /\ n \in 0 .. (n + 1) - 1
    OBVIOUS
  <2>2. G[n + 1][n + 1] = d[n][G[n + 1][n]]
    BY <1>5, <2>1
  <2> QED BY <1>6, <2>1, <2>2
<1> QED BY <1>7, <1>8, <1>9 DEF Follows

(* Walking along a list.                                                     *)
LEMMA get_array_item_steps ==
  ASSUME m.child \in [Items -> Pointer], m.next \in [Items -> Pointer], NEW p \in Items
  PROVE  /\ get_array_item(p, 0) = m.child[p]
         /\ \A k \in Nat :
              get_array_item(p, k + 1) = IF get_array_item(p, k) = NULL THEN NULL
                                         ELSE m.next[get_array_item(p, k)]
         /\ \A k \in Nat : get_array_item(p, k) \in Pointer
<1> DEFINE Def(f, k) == IF k = 0 THEN m.child[p] ELSE IF f[k - 1] = NULL THEN NULL ELSE m.next[f[k - 1]]
           at == CHOOSE f : f = [k \in Nat |-> Def(f, k)]
           step == [x \in Pointer |-> IF x = NULL THEN NULL ELSE m.next[x]]
           d == [n \in Nat |-> step]
<1>1. \A k : get_array_item(p, k) = at[k]
  BY DEF get_array_item
<1>2. step \in [Pointer -> Pointer] /\ NULL \in Pointer
  BY DEF Pointer
<1>3. PICK f \in [Nat -> Pointer] : f[0] = m.child[p] /\ \A n \in Nat : f[n + 1] = step[f[n]]
  <2> HIDE DEF step
  <2>1. d \in [Nat -> [Pointer -> Pointer]] /\ m.child[p] \in Pointer
    BY <1>2
  <2>2. \A n \in Nat : d[n] = step
    OBVIOUS
  <2> HIDE DEF d
  <2>3. \E f : Follows(f, Pointer, m.child[p], d)
    BY ONLY <2>1, RecursionExists DEF Steps
  <2> QED BY <2>2, <2>3 DEF Follows
<1>4. f = [k \in Nat |-> Def(f, k)]
  <2>1. \A k \in Nat : f[k] = Def(f, k)
    <3> SUFFICES ASSUME NEW k \in Nat PROVE f[k] = Def(f, k)
      OBVIOUS
    <3>1. CASE k = 0
      BY <1>3, <3>1
    <3>2. CASE k # 0
      <4>1. k - 1 \in Nat /\ (k - 1) + 1 = k
        BY <3>2
      <4>2. f[k] = step[f[k - 1]] /\ f[k - 1] \in Pointer
        BY <1>3, <4>1
      <4> QED BY <3>2, <4>2
    <3> QED BY <3>1, <3>2
  <2> QED BY <2>1, <1>3
<1>5. at = [k \in Nat |-> Def(at, k)]
  <2>1. \E g : g = [k \in Nat |-> Def(g, k)]
    BY <1>4
  <2> QED BY <2>1, Zenon
<1> HIDE DEF at
<1>6. at[0] = m.child[p]
  BY <1>5
<1>7. \A k \in Nat : at[k + 1] = IF at[k] = NULL THEN NULL ELSE m.next[at[k]]
  <2> SUFFICES ASSUME NEW k \in Nat
               PROVE  at[k + 1] = IF at[k] = NULL THEN NULL ELSE m.next[at[k]]
    OBVIOUS
  <2>1. k + 1 \in Nat /\ k + 1 # 0 /\ (k + 1) - 1 = k
    OBVIOUS
  <2> QED BY <1>5, <2>1
<1>8. \A k \in Nat : at[k] \in Pointer
  <2> DEFINE V == {k \in Nat : at[k] \in Pointer}
  <2>1. 0 \in V
    BY <1>6
  <2>2. \A k \in Nat : k \in V => k + 1 \in V
    BY <1>7 DEF Pointer
  <2>3. Nat \subseteq V
    <3> HIDE DEF V
    <3> QED BY <2>1, <2>2, SetInduction
  <2> QED BY <2>3
<1> QED BY <1>1, <1>6, <1>7, <1>8
-----------------------------------------------------------------------------

(* Sets that are reached by taking a step as often as there are items.       *)
Grows(X, d) == d \in [SUBSET X -> SUBSET X] /\ \A S \in SUBSET X : S \subseteq d[S]
Least(A, X, x, d) ==
  /\ A \in SUBSET X /\ x \subseteq A /\ d[A] = A
  /\ \A C \in SUBSET X : x \subseteq C /\ (\A S \in SUBSET C : d[S] \subseteq C) => A \subseteq C

Reaches(f, X, x, d) == f[0] = x /\ \A n \in Nat : f[n] \in SUBSET X => f[n + 1] = d[f[n]]

(* Cardinality(X) steps reach the least set that the step leaves as it is.   *)
LEMMA ReachedIsLeast ==
  ASSUME NEW X, IsFiniteSet(X), NEW x \in SUBSET X, NEW d, Grows(X, d),
         NEW f, Reaches(f, X, x, d)
  PROVE  Least(f[Cardinality(X)], X, x, d)
<1> USE DEF Grows, Reaches
<1> DEFINE N == Cardinality(X)
<1>1. N \in Nat
  BY FS_CardinalityType
<1>2. \A n \in Nat : f[n] \in SUBSET X
  <2> DEFINE T == {n \in Nat : f[n] \in SUBSET X}
  <2>1. 0 \in T /\ \A n \in Nat : n \in T => n + 1 \in T
    OBVIOUS
  <2>2. Nat \subseteq T
    <3> HIDE DEF T
    <3> QED BY <2>1, SetInduction
  <2> QED BY <2>2
<1>3. \A n \in Nat : f[n + 1] = d[f[n]] /\ f[n] \subseteq f[n + 1] /\ f[n + 1] \in SUBSET X
  BY <1>2
<1>4. f[N + 1] = f[N]
  <2> DEFINE T == {n \in Nat : n <= Cardinality(f[n]) \/ f[n + 1] = f[n]}
  <2>1. \A n \in Nat : IsFiniteSet(f[n]) /\ Cardinality(f[n]) \in Nat
    BY <1>2, FS_Subset, FS_CardinalityType
  <2>2. 0 \in T
    BY <2>1
  <2>3. ASSUME NEW n \in Nat, n \in T PROVE n + 1 \in T
    <3>1. CASE f[n + 1] = f[n]
      <4>1. n + 1 \in Nat /\ (n + 1) + 1 \in Nat
        OBVIOUS
      <4>2. f[(n + 1) + 1] = d[f[n + 1]] /\ f[n + 1] = d[f[n]]
        BY <1>3, <4>1
      <4> QED BY <3>1, <4>1, <4>2
    <3>2. CASE f[n + 1] # f[n]
      <4>1. n <= Cardinality(f[n])
        BY <2>3, <3>2
      <4>2. /\ IsFiniteSet(f[n + 1]) /\ f[n] \in SUBSET f[n + 1]
            /\ Cardinality(f[n]) \in Nat /\ Cardinality(f[n + 1]) \in Nat
        BY <1>3, <2>1
      <4>3. Cardinality(f[n]) <= Cardinality(f[n + 1]) /\ Cardinality(f[n]) # Cardinality(f[n + 1])
        BY <3>2, <4>2, FS_Subset
      <4>4. n + 1 <= Cardinality(f[n + 1])
        BY <4>1, <4>2, <4>3
      <4> QED BY <4>4
    <3> QED BY <3>1, <3>2
  <2>4. N \in T
    <3> HIDE DEF T
    <3> QED BY <1>1, <2>2, <2>3, SetInduction
  <2>5. CASE f[N + 1] = f[N]
    BY <2>5
  <2>6. CASE N <= Cardinality(f[N])
    <3>1. f[N] \in SUBSET X /\ f[N + 1] \in SUBSET X /\ f[N] \subseteq f[N + 1]
      BY <1>1, <1>2, <1>3
    <3>2. Cardinality(f[N]) <= Cardinality(X) /\ (Cardinality(X) = Cardinality(f[N]) => X = f[N])
      BY <3>1, FS_Subset
    <3>3. Cardinality(f[N]) = Cardinality(X)
      BY <1>1, <2>1, <2>6, <3>2
    <3> QED BY <3>1, <3>2, <3>3
  <2> QED BY <2>4, <2>5, <2>6
<1>5. \A n \in Nat : x \subseteq f[n]
  <2> DEFINE T == {n \in Nat : x \subseteq f[n]}
  <2>1. 0 \in T /\ \A n \in Nat : n \in T => n + 1 \in T
    BY <1>3
  <2>2. Nat \subseteq T
    <3> HIDE DEF T
    <3> QED BY <2>1, SetInduction
  <2> QED BY <2>2
<1>6. ASSUME NEW C \in SUBSET X, x \subseteq C, \A S \in SUBSET C : d[S] \subseteq C
      PROVE  \A n \in Nat : f[n] \subseteq C
  <2> DEFINE T == {n \in Nat : f[n] \subseteq C}
  <2>1. 0 \in T /\ \A n \in Nat : n \in T => n + 1 \in T
    BY <1>3, <1>6
  <2>2. Nat \subseteq T
    <3> HIDE DEF T
    <3> QED BY <2>1, SetInduction
  <2> QED BY <2>2
<1>7. d[f[N]] = f[N] /\ f[N] \in SUBSET X /\ x \subseteq f[N]
  BY <1>1, <1>2, <1>3, <1>4, <1>5
<1> QED BY <1>1, <1>6, <1>7 DEF Least

(* What a root means: itself and, from each item, its children.              *)
KidsStep(K) == [S \in SUBSET Items |-> S \cup UNION {Elements_(K[i]) : i \in S}]

(* Meant is the least set that holds an item's children with the item.       *)
LEMMA MeantIsLeast ==
  ASSUME kids \in [Items -> Seq(Items)], NEW item \in Items
  PROVE  Least(Meant(item), Items, {item}, KidsStep(kids))
<1> DEFINE Def(f, k) == IF k = 0 THEN {item}
                        ELSE f[k - 1] \cup UNION {Elements_(kids[i]) : i \in f[k - 1]}
           reached == CHOOSE f : f = [k \in Nat |-> Def(f, k)]
           d == [n \in Nat |-> KidsStep(kids)]
<1>1. Meant(item) = reached[Cardinality(Items)]
  BY DEF Meant
<1>2. Grows(Items, KidsStep(kids))
  BY DEF Grows, KidsStep, Elements_
<1>3. \E f : Follows(f, SUBSET Items, {item}, d)
  <2>1. d \in Steps(SUBSET Items)
    BY <1>2 DEF Grows, Steps
  <2>2. {item} \in SUBSET Items
    OBVIOUS
  <2> HIDE DEF d
  <2> QED BY ONLY <2>1, <2>2, RecursionExists
<1>4. PICK f : /\ f \in [Nat -> SUBSET Items] /\ f[0] = {item}
               /\ \A n \in Nat : f[n + 1] = KidsStep(kids)[f[n]]
  BY <1>3 DEF Follows
<1>5. f = [k \in Nat |-> Def(f, k)]
  <2>1. \A k \in Nat : f[k] = Def(f, k)
    <3> SUFFICES ASSUME NEW k \in Nat PROVE f[k] = Def(f, k)
      OBVIOUS
    <3>1. CASE k = 0
      BY <1>4, <3>1
    <3>2. CASE k # 0
      <4>1. k - 1 \in Nat /\ (k - 1) + 1 = k
        BY <3>2
      <4>2. f[k] = KidsStep(kids)[f[k - 1]] /\ f[k - 1] \in SUBSET Items
        BY <1>4, <4>1
      <4> QED BY <3>2, <4>2 DEF KidsStep
    <3> QED BY <3>1, <3>2
  <2> QED BY <2>1, <1>4
<1>6. reached = [k \in Nat |-> Def(reached, k)]
  <2>1. \E g : g = [k \in Nat |-> Def(g, k)]
    BY <1>5
  <2> QED BY <2>1
<1> HIDE DEF reached
<1>7. reached[0] = {item}
  BY <1>6
<1>8. \A n \in Nat : reached[n] \in SUBSET Items => reached[n + 1] = KidsStep(kids)[reached[n]]
  <2> SUFFICES ASSUME NEW n \in Nat, reached[n] \in SUBSET Items
               PROVE  reached[n + 1] = KidsStep(kids)[reached[n]]
    OBVIOUS
  <2>1. n + 1 \in Nat /\ n + 1 # 0 /\ (n + 1) - 1 = n
    OBVIOUS
  <2>2. reached[n + 1] = reached[n] \cup UNION {Elements_(kids[i]) : i \in reached[n]}
    BY <1>6, <2>1
  <2> QED BY <2>2 DEF KidsStep
<1>9. Reaches(reached, Items, {item}, KidsStep(kids))
  BY <1>7, <1>8 DEF Reaches
<1>10. {item} \in SUBSET Items /\ IsFiniteSet(Items)
  BY ItemsAssumption
<1>11. Least(reached[Cardinality(Items)], Items, {item}, KidsStep(kids))
  BY ONLY <1>2, <1>9, <1>10, ReachedIsLeast
<1> QED BY <1>1, <1>11

(* What is read from an item: its chain, and the chain of each item read.    *)
Chain(i) == {get_array_item(i, k) : k \in Many} \ {NULL}
ReadStep == [S \in SUBSET Items |-> S \cup UNION {Chain(i) : i \in S}]

(* Within is the least set closed under reading, through references too.     *)
LEMMA WithinIsLeast ==
  ASSUME \A i \in Items : Chain(i) \subseteq Items, NEW item \in Items
  PROVE  Least(Within(item), Items, {item}, ReadStep)
<1> DEFINE Def(f, k) == IF k = 0 THEN {item}
                        ELSE f[k - 1] \cup UNION {Chain(i) : i \in f[k - 1]}
           reached == CHOOSE f : f = [k \in Nat |-> Def(f, k)]
           d == [n \in Nat |-> ReadStep]
<1>1. Within(item) = reached[Cardinality(Items)]
  BY DEF Within, Chain
<1>2. Grows(Items, ReadStep)
  BY DEF Grows, ReadStep
<1>3. \E f : Follows(f, SUBSET Items, {item}, d)
  <2>1. d \in Steps(SUBSET Items)
    BY <1>2 DEF Grows, Steps
  <2>2. {item} \in SUBSET Items
    OBVIOUS
  <2> HIDE DEF d
  <2> QED BY ONLY <2>1, <2>2, RecursionExists
<1>4. PICK f : /\ f \in [Nat -> SUBSET Items] /\ f[0] = {item}
               /\ \A n \in Nat : f[n + 1] = ReadStep[f[n]]
  BY <1>3 DEF Follows
<1>5. f = [k \in Nat |-> Def(f, k)]
  <2>1. \A k \in Nat : f[k] = Def(f, k)
    <3> SUFFICES ASSUME NEW k \in Nat PROVE f[k] = Def(f, k)
      OBVIOUS
    <3>1. CASE k = 0
      BY <1>4, <3>1
    <3>2. CASE k # 0
      <4>1. k - 1 \in Nat /\ (k - 1) + 1 = k
        BY <3>2
      <4>2. f[k] = ReadStep[f[k - 1]] /\ f[k - 1] \in SUBSET Items
        BY <1>4, <4>1
      <4> QED BY <3>2, <4>2 DEF ReadStep
    <3> QED BY <3>1, <3>2
  <2> QED BY <2>1, <1>4
<1>6. reached = [k \in Nat |-> Def(reached, k)]
  <2>1. \E g : g = [k \in Nat |-> Def(g, k)]
    BY <1>5
  <2> QED BY <2>1
<1> HIDE DEF reached
<1>7. reached[0] = {item}
  BY <1>6
<1>8. \A n \in Nat : reached[n] \in SUBSET Items => reached[n + 1] = ReadStep[reached[n]]
  <2> SUFFICES ASSUME NEW n \in Nat, reached[n] \in SUBSET Items
               PROVE  reached[n + 1] = ReadStep[reached[n]]
    OBVIOUS
  <2>1. n + 1 \in Nat /\ n + 1 # 0 /\ (n + 1) - 1 = n
    OBVIOUS
  <2>2. reached[n + 1] = reached[n] \cup UNION {Chain(i) : i \in reached[n]}
    BY <1>6, <2>1
  <2> QED BY <2>2 DEF ReadStep
<1>9. Reaches(reached, Items, {item}, ReadStep)
  BY <1>7, <1>8 DEF Reaches
<1>10. {item} \in SUBSET Items /\ IsFiniteSet(Items)
  BY ItemsAssumption
<1>11. Least(reached[Cardinality(Items)], Items, {item}, ReadStep)
  BY ONLY <1>2, <1>9, <1>10, ReachedIsLeast
<1> QED BY <1>1, <1>11

(* What is freed with an item: what its pointers lead to.                    *)
FreeStep(h) ==
  [S \in SUBSET Items |-> S \cup ({h.next[i] : i \in S} \ {NULL})
                            \cup ({h.child[i] : i \in S \ ref} \ {NULL})]

(* Freed is the least set closed under what cJSON_Delete() goes on to.       *)
LEMMA FreedIsLeast ==
  ASSUME NEW h, h.child \in [Items -> Pointer], h.next \in [Items -> Pointer], NEW item \in Items
  PROVE  Least(Freed(h, item), Items, {item}, FreeStep(h))
<1> DEFINE Def(f, k) == IF k = 0 THEN {item}
                        ELSE f[k - 1] \cup ({h.next[i] : i \in f[k - 1]} \ {NULL})
                             \cup ({h.child[i] : i \in f[k - 1] \ ref} \ {NULL})
           reached == CHOOSE f : f = [k \in Nat |-> Def(f, k)]
           d == [n \in Nat |-> FreeStep(h)]
<1>1. Freed(h, item) = reached[Cardinality(Items)]
  BY DEF Freed
<1>2. Grows(Items, FreeStep(h))
  BY DEF Grows, FreeStep, Pointer
<1>3. \E f : Follows(f, SUBSET Items, {item}, d)
  <2>1. d \in Steps(SUBSET Items)
    BY <1>2 DEF Grows, Steps
  <2>2. {item} \in SUBSET Items
    OBVIOUS
  <2> HIDE DEF d
  <2> QED BY ONLY <2>1, <2>2, RecursionExists
<1>4. PICK f : /\ f \in [Nat -> SUBSET Items] /\ f[0] = {item}
               /\ \A n \in Nat : f[n + 1] = FreeStep(h)[f[n]]
  BY <1>3 DEF Follows
<1>5. f = [k \in Nat |-> Def(f, k)]
  <2>1. \A k \in Nat : f[k] = Def(f, k)
    <3> SUFFICES ASSUME NEW k \in Nat PROVE f[k] = Def(f, k)
      OBVIOUS
    <3>1. CASE k = 0
      BY <1>4, <3>1
    <3>2. CASE k # 0
      <4>1. k - 1 \in Nat /\ (k - 1) + 1 = k
        BY <3>2
      <4>2. f[k] = FreeStep(h)[f[k - 1]] /\ f[k - 1] \in SUBSET Items
        BY <1>4, <4>1
      <4> QED BY <3>2, <4>2 DEF FreeStep
    <3> QED BY <3>1, <3>2
  <2> QED BY <2>1, <1>4
<1>6. reached = [k \in Nat |-> Def(reached, k)]
  <2>1. \E g : g = [k \in Nat |-> Def(g, k)]
    BY <1>5
  <2> QED BY <2>1
<1> HIDE DEF reached
<1>7. reached[0] = {item}
  BY <1>6
<1>8. \A n \in Nat : reached[n] \in SUBSET Items => reached[n + 1] = FreeStep(h)[reached[n]]
  <2> SUFFICES ASSUME NEW n \in Nat, reached[n] \in SUBSET Items
               PROVE  reached[n + 1] = FreeStep(h)[reached[n]]
    OBVIOUS
  <2>1. n + 1 \in Nat /\ n + 1 # 0 /\ (n + 1) - 1 = n
    OBVIOUS
  <2>2. reached[n + 1] = reached[n] \cup ({h.next[i] : i \in reached[n]} \ {NULL})
                             \cup ({h.child[i] : i \in reached[n] \ ref} \ {NULL})
    BY <1>6, <2>1
  <2> QED BY <2>2 DEF FreeStep
<1>9. Reaches(reached, Items, {item}, FreeStep(h))
  BY <1>7, <1>8 DEF Reaches
<1>10. {item} \in SUBSET Items /\ IsFiniteSet(Items)
  BY ItemsAssumption
<1>11. Least(reached[Cardinality(Items)], Items, {item}, FreeStep(h))
  BY ONLY <1>2, <1>9, <1>10, ReachedIsLeast
<1> QED BY <1>1, <1>11

-----------------------------------------------------------------------------

(* The lists as they are meant, K, of the allocated items L, of which the    *)
(* caller holds H and R are references: every item that is not held is in one*)
(* list at one place, and no item is among its own descendants.              *)
Closed(K, A) == \A x \in A : Elements_(K[x]) \subseteq A
Distinct(s) == \A i, j \in DOMAIN s : s[i] = s[j] => i = j

ForestTypeOK(K, L, H, R) ==
  K \in [Items -> Seq(Items)] /\ L \subseteq Items /\ H \subseteq L /\ R \subseteq L
OthersEmpty(K, L, R) == \A x \in Items \ (L \ R) : K[x] = <<>>
ChildrenOwned(K, L, H) == \A x \in Items : Elements_(K[x]) \subseteq L \ H
OnePlace(K) ==
  \A x, y \in Items : \A i \in DOMAIN K[x], j \in DOMAIN K[y] :
    K[x][i] = K[y][j] => x = y /\ i = j
AllPlaced(K, L, H) == \A z \in L \ H : \E x \in Items : z \in Elements_(K[x])
Acyclic(K) ==
  \A S \in SUBSET Items : S # {} => \E x \in S : Elements_(K[x]) \cap S = {}

Forest(K, L, H, R) ==
  /\ ForestTypeOK(K, L, H, R) /\ OthersEmpty(K, L, R) /\ ChildrenOwned(K, L, H)
  /\ OnePlace(K) /\ AllPlaced(K, L, H) /\ Acyclic(K)

(* What is reached from a root.                                              *)
Spans(A, K, item) ==
  /\ item \in A /\ A \subseteq Items /\ Closed(K, A)
  /\ \A C \in SUBSET Items : item \in C /\ Closed(K, C) => A \subseteq C

(* Such a least set is what is reached from the item.                        *)
LEMMA LeastSpans ==
  ASSUME NEW K \in [Items -> Seq(Items)], NEW item \in Items, NEW A,
         Least(A, Items, {item}, KidsStep(K))
  PROVE  Spans(A, K, item)
<1>1. item \in A /\ A \in SUBSET Items /\ KidsStep(K)[A] = A
  BY DEF Least
<1>2. Closed(K, A)
  BY <1>1 DEF Closed, KidsStep
<1>3. ASSUME NEW C \in SUBSET Items, item \in C, Closed(K, C)
      PROVE  A \subseteq C
  <2>1. \A S \in SUBSET C : KidsStep(K)[S] \subseteq C
    BY <1>3 DEF KidsStep, Closed
  <2> QED BY <1>3, <2>1 DEF Least
<1> QED BY <1>1, <1>2, <1>3 DEF Spans

(* So is Meant.                                                              *)
LEMMA MeantSpans ==
  ASSUME kids \in [Items -> Seq(Items)], NEW item \in Items
  PROVE  Spans(Meant(item), kids, item)
BY MeantIsLeast, LeastSpans

(* Giving items to a list, or taking them from it.  Those that are given do  *)
(* not lead back to the list.                                                *)
LEMMA SetList ==
  ASSUME NEW K, NEW L, NEW H, NEW R, Forest(K, L, H, R),
         NEW p \in L \ R, NEW s \in Seq(Items), Distinct(s),
         Elements_(s) \subseteq Elements_(K[p]) \cup H,
         NEW A \in SUBSET Items, Closed(K, A), p \notin A,
         Elements_(s) \ Elements_(K[p]) \subseteq A
  PROVE  Forest([K EXCEPT ![p] = s], L, (H \cup Elements_(K[p])) \ Elements_(s), R)
<1> DEFINE K1 == [K EXCEPT ![p] = s]
           H1 == (H \cup Elements_(K[p])) \ Elements_(s)
<1> USE DEF Forest
<1>1. p \in Items /\ K \in [Items -> Seq(Items)]
  BY DEF ForestTypeOK
<1>2. K1[p] = s /\ \A x \in Items : x # p => K1[x] = K[x]
  BY <1>1
<1>3. \A x \in Items : Elements_(K[x]) \subseteq L \ H
  BY DEF ChildrenOwned
<1>4. \A x, y \in Items : \A z : z \in Elements_(K[x]) /\ z \in Elements_(K[y]) => x = y
  BY DEF OnePlace, Elements_
<1>5. ForestTypeOK(K1, L, H1, R)
  BY <1>1, <1>3 DEF ForestTypeOK
<1> HIDE DEF K1
<1>6. OthersEmpty(K1, L, R)
  BY <1>2 DEF OthersEmpty
<1>7. ChildrenOwned(K1, L, H1)
  BY <1>1, <1>2, <1>3, <1>4 DEF ChildrenOwned, ForestTypeOK
<1>8. OnePlace(K1)
  <2>1. ASSUME NEW x \in Items, NEW y \in Items, NEW i \in DOMAIN K1[x], NEW j \in DOMAIN K1[y],
               K1[x][i] = K1[y][j]
        PROVE  x = y /\ i = j
    <3>1. CASE x # p /\ y # p
      BY <1>2, <2>1, <3>1 DEF OnePlace
    <3>2. CASE x = p /\ y = p
      BY <1>2, <2>1, <3>2 DEF Distinct
    <3>3. ASSUME NEW u \in Items, NEW z, u # p, z \in Elements_(K[u]), z \in Elements_(s)
          PROVE  FALSE
      BY <1>1, <1>3, <1>4, <3>3
    <3>4. K1[x][i] \in Elements_(K1[x]) /\ K1[y][j] \in Elements_(K1[y])
      BY DEF Elements_
    <3> QED BY <1>2, <2>1, <3>1, <3>2, <3>3, <3>4
  <2> QED BY <2>1 DEF OnePlace
<1>9. AllPlaced(K1, L, H1)
  <2> SUFFICES ASSUME NEW z \in L \ H1 PROVE \E x \in Items : z \in Elements_(K1[x])
    BY DEF AllPlaced
  <2>1. CASE z \in Elements_(s)
    BY <1>1, <1>2, <2>1
  <2>2. CASE z \notin Elements_(s)
    <3>1. z \in L \ H /\ z \notin Elements_(K[p])
      BY <2>2
    <3> QED BY <1>2, <3>1 DEF AllPlaced
  <2> QED BY <2>1, <2>2
<1>10. Acyclic(K1)
  <2> SUFFICES ASSUME NEW S \in SUBSET Items, S # {}
               PROVE  \E x \in S : Elements_(K1[x]) \cap S = {}
    BY DEF Acyclic
  <2>1. CASE S \cap A # {}
    <3>1. PICK x \in S \cap A : Elements_(K[x]) \cap (S \cap A) = {}
      BY <2>1 DEF Acyclic
    <3>2. Elements_(K[x]) \subseteq A /\ x # p
      BY DEF Closed
    <3> QED BY <1>2, <3>1, <3>2
  <2>2. CASE S \cap A = {}
    <3>1. PICK x \in S : Elements_(K[x]) \cap S = {}
      BY DEF Acyclic
    <3> QED BY <1>2, <2>2, <3>1
  <2> QED BY <2>1, <2>2
<1> QED BY <1>5, <1>6, <1>7, <1>8, <1>9, <1>10 DEF K1

(* An item is not among its own descendants.                                 *)
LEMMA ParentOutside ==
  ASSUME NEW K \in [Items -> Seq(Items)], Acyclic(K), NEW p \in Items,
         NEW item \in Elements_(K[p]), NEW A, Spans(A, K, item)
  PROVE  p \notin A
<1> SUFFICES ASSUME p \in A PROVE FALSE
  OBVIOUS
<1> DEFINE D == {x \in Items : \A C \in SUBSET Items : x \in C /\ Closed(K, C) => p \in C}
           Avoid == {C \in SUBSET Items : Closed(K, C) /\ p \notin C}
<1>1. item \in Items /\ item \in D
  BY DEF Spans, Elements_
<1>2. PICK x \in D : Elements_(K[x]) \cap D = {}
  <2>1. D \in SUBSET Items /\ D # {}
    BY <1>1
  <2> HIDE DEF D
  <2> QED BY <2>1 DEF Acyclic
<1>3. x # p
  BY <1>1, <1>2
<1>4. Elements_(K[x]) \subseteq Items
  BY <1>2 DEF Elements_
<1>5. \A y \in Elements_(K[x]) : \E C \in Avoid : y \in C
  BY <1>2, <1>4
<1> DEFINE B == {x} \cup UNION Avoid
<1>6. B \in SUBSET Items /\ x \in B /\ p \notin B
  BY <1>3
<1>7. Closed(K, B)
  BY <1>5 DEF Closed
<1>8. x \in Items /\ \A C \in SUBSET Items : x \in C /\ Closed(K, C) => p \in C
  BY <1>2
<1> HIDE DEF B, D, Avoid
<1> QED BY <1>6, <1>7, <1>8

(* What a root means does not depend on a list outside of it.                *)
LEMMA SpansKept ==
  ASSUME NEW K \in [Items -> Seq(Items)], NEW p \in Items, NEW s, NEW item,
         NEW A, Spans(A, K, item), p \notin A
  PROVE  Spans(A, [K EXCEPT ![p] = s], item)
<1> DEFINE K1 == [K EXCEPT ![p] = s]
<1>1. \A x \in A : K1[x] = K[x]
  BY DEF Spans
<1>2. item \in A /\ A \subseteq Items
  BY DEF Spans
<1> HIDE DEF K1
<1>3. Closed(K1, A)
  BY <1>1 DEF Spans, Closed
<1>4. ASSUME NEW C \in SUBSET Items, item \in C, Closed(K1, C) PROVE A \subseteq C
  <2>1. C \cap A \in SUBSET Items /\ item \in C \cap A
    BY <1>2, <1>4
  <2>2. Closed(K, C \cap A)
    BY <1>1, <1>4 DEF Spans, Closed
  <2> QED BY <2>1, <2>2 DEF Spans
<1>5. Spans(A, K1, item)
  BY <1>2, <1>3, <1>4 DEF Spans
<1> QED BY <1>5 DEF K1

(* Who is reached from a root, but is not the root, is in a list of an item  *)
(* that is reached.                                                          *)
LEMMA ReachedByParent ==
  ASSUME NEW K \in [Items -> Seq(Items)], NEW item, NEW A, Spans(A, K, item),
         NEW y \in A, y # item
  PROVE  \E x \in A : y \in Elements_(K[x])
<1> DEFINE C == {z \in A : z = item \/ \E x \in A : z \in Elements_(K[x])}
<1>1. C \in SUBSET Items /\ item \in C
  BY DEF Spans
<1>2. Closed(K, C)
  BY DEF Spans, Closed
<1>3. A \subseteq C
  BY <1>1, <1>2 DEF Spans
<1> QED BY <1>3

(* Freeing a root with its descendants.                                      *)
Emptied(K, A) == [i \in Items |-> IF i \in A THEN <<>> ELSE K[i]]

(* Nothing outside of A leads into it.                                       *)
CutOff(K, A) == \A x \in Items \ A : Elements_(K[x]) \cap A = {}
OneRoot(A, H, item) == A \cap H = {item}

(* What is reached from a held root can be freed, and a forest is left.      *)
LEMMA FreeRoot ==
  ASSUME NEW K, NEW L, NEW H, NEW R, Forest(K, L, H, R), NEW item \in H,
         NEW A, Spans(A, K, item)
  PROVE  /\ A \subseteq L /\ OneRoot(A, H, item) /\ CutOff(K, A)
         /\ Forest(Emptied(K, A), L \ A, H \ {item}, R \ A)
<1> DEFINE K1 == Emptied(K, A)
<1> USE DEF Forest
<1>1. K \in [Items -> Seq(Items)] /\ L \subseteq Items /\ H \subseteq L /\ R \subseteq L
  BY DEF ForestTypeOK
<1>2. \A x \in Items : Elements_(K[x]) \subseteq L \ H
  BY DEF ChildrenOwned
<1>3. \A x, y \in Items : \A z : z \in Elements_(K[x]) /\ z \in Elements_(K[y]) => x = y
  BY DEF OnePlace, Elements_
<1>4. A \subseteq L
  <2>1. L \in SUBSET Items /\ item \in L /\ Closed(K, L)
    BY <1>1, <1>2 DEF Closed
  <2> QED BY <2>1 DEF Spans
<1>5. \A y \in A : y # item => y \notin H /\ \E x \in A : y \in Elements_(K[x])
  <2> SUFFICES ASSUME NEW y \in A, y # item
               PROVE  y \notin H /\ \E x \in A : y \in Elements_(K[x])
    OBVIOUS
  <2>1. PICK x \in A : y \in Elements_(K[x])
    BY <1>1, ReachedByParent
  <2>2. x \in Items
    BY <1>1, <1>4
  <2> QED BY <1>2, <2>1, <2>2
<1>6. A \cap H = {item}
  BY <1>5 DEF Spans
<1>7. \A x \in Items \ A : Elements_(K[x]) \cap A = {}
  BY <1>1, <1>2, <1>3, <1>4, <1>5
<1>8. K1 \in [Items -> Seq(Items)]
  BY <1>1 DEF Emptied
<1>9. \A x \in Items : K1[x] = IF x \in A THEN <<>> ELSE K[x]
  BY DEF Emptied
<1>10. Elements_(<<>>) = {} /\ DOMAIN <<>> = {}
  BY DEF Elements_
<1> HIDE DEF K1
<1>11. ForestTypeOK(K1, L \ A, H \ {item}, R \ A)
  BY <1>1, <1>6, <1>8 DEF ForestTypeOK
<1>12. OthersEmpty(K1, L \ A, R \ A)
  BY <1>9 DEF OthersEmpty
<1>13. ChildrenOwned(K1, L \ A, H \ {item})
  BY <1>2, <1>7, <1>9, <1>10 DEF ChildrenOwned
<1>14. OnePlace(K1)
  BY <1>9, <1>10 DEF OnePlace
<1>15. AllPlaced(K1, L \ A, H \ {item})
  <2> SUFFICES ASSUME NEW z \in (L \ A) \ (H \ {item}) PROVE \E x \in Items : z \in Elements_(K1[x])
    BY DEF AllPlaced
  <2>1. z \in L \ H /\ z \notin A
    BY <1>6
  <2>2. PICK x \in Items : z \in Elements_(K[x])
    BY <2>1 DEF AllPlaced
  <2>3. x \notin A
    BY <2>1, <2>2 DEF Spans, Closed
  <2> QED BY <1>9, <2>2, <2>3
<1>16. Acyclic(K1)
  <2>1. \A x \in Items : Elements_(K1[x]) \subseteq Elements_(K[x])
    BY <1>9, <1>10
  <2> QED BY <2>1 DEF Acyclic
<1>17. Forest(K1, L \ A, H \ {item}, R \ A)
  BY <1>11, <1>12, <1>13, <1>14, <1>15, <1>16
<1> QED BY <1>4, <1>6, <1>7, <1>17 DEF K1, CutOff, OneRoot

(* A new root N with its descendants.                                        *)
NewNodes(K, K1, N, item) ==
  /\ K1 \in [Items -> Seq(Items)] /\ \A x \in Items \ N : K1[x] = K[x]
  /\ \A x \in N : Elements_(K1[x]) \subseteq N \ {item}
  /\ \A x, y \in N : \A i \in DOMAIN K1[x], j \in DOMAIN K1[y] :
       K1[x][i] = K1[y][j] => x = y /\ i = j
  /\ \A z \in N \ {item} : \E x \in N : z \in Elements_(K1[x])
  /\ \A S \in SUBSET N : S # {} => \E x \in S : Elements_(K1[x]) \cap S = {}

(* New items in lists of their own, under a new root, keep it a forest.      *)
LEMMA NewRoot ==
  ASSUME NEW K, NEW L, NEW H, NEW R, Forest(K, L, H, R),
         NEW N \in SUBSET (Items \ L), NEW item \in N, NEW K1, NewNodes(K, K1, N, item)
  PROVE  Forest(K1, L \cup N, H \cup {item}, R)
<1> USE DEF NewNodes
<1> USE DEF Forest
<1>1. K \in [Items -> Seq(Items)] /\ L \subseteq Items /\ H \subseteq L /\ R \subseteq L
  BY DEF ForestTypeOK
<1>2. \A x \in Items \ N : Elements_(K1[x]) \subseteq L \ H
  BY DEF ChildrenOwned
<1>3. ForestTypeOK(K1, L \cup N, H \cup {item}, R)
  BY <1>1 DEF ForestTypeOK
<1>4. OthersEmpty(K1, L \cup N, R)
  BY <1>1 DEF OthersEmpty
<1>5. ChildrenOwned(K1, L \cup N, H \cup {item})
  <2> SUFFICES ASSUME NEW x \in Items
               PROVE  Elements_(K1[x]) \subseteq (L \cup N) \ (H \cup {item})
    BY DEF ChildrenOwned
  <2>1. CASE x \in N
    BY <1>1, <2>1
  <2>2. CASE x \notin N
    BY <1>1, <1>2, <2>2
  <2> QED BY <2>1, <2>2
<1>6. OnePlace(K1)
  <2>1. ASSUME NEW x \in Items, NEW y \in Items, NEW i \in DOMAIN K1[x], NEW j \in DOMAIN K1[y],
               K1[x][i] = K1[y][j]
        PROVE  x = y /\ i = j
    <3>1. K1[x][i] \in Elements_(K1[x]) /\ K1[y][j] \in Elements_(K1[y])
      BY DEF Elements_
    <3>2. CASE x \in N /\ y \in N
      BY <2>1, <3>2
    <3>3. CASE x \notin N /\ y \notin N
      <4>1. K1[x] = K[x] /\ K1[y] = K[y]
        BY <3>3
      <4> QED BY <2>1, <4>1 DEF OnePlace
    <3>4. CASE x \in N /\ y \notin N
      <4>1. Elements_(K1[x]) \subseteq N /\ Elements_(K1[y]) \subseteq L
        BY <1>2, <3>4
      <4> QED BY <2>1, <3>1, <4>1
    <3>5. CASE x \notin N /\ y \in N
      <4>1. Elements_(K1[y]) \subseteq N /\ Elements_(K1[x]) \subseteq L
        BY <1>2, <3>5
      <4> QED BY <2>1, <3>1, <4>1
    <3> QED BY <3>2, <3>3, <3>4, <3>5
  <2> QED BY <2>1 DEF OnePlace
<1>7. AllPlaced(K1, L \cup N, H \cup {item})
  <2> SUFFICES ASSUME NEW z \in (L \cup N) \ (H \cup {item}) PROVE \E x \in Items : z \in Elements_(K1[x])
    BY DEF AllPlaced
  <2>1. CASE z \in N
    BY <2>1
  <2>2. CASE z \notin N
    <3>1. PICK x \in Items : z \in Elements_(K[x])
      BY <2>2 DEF AllPlaced
    <3>2. x \notin N
      BY <3>1 DEF OthersEmpty, Elements_
    <3> QED BY <3>1, <3>2
  <2> QED BY <2>1, <2>2
<1>8. Acyclic(K1)
  <2> SUFFICES ASSUME NEW S \in SUBSET Items, S # {}
               PROVE  \E x \in S : Elements_(K1[x]) \cap S = {}
    BY DEF Acyclic
  <2>1. CASE S \cap N # {}
    <3>1. PICK x \in S \cap N : Elements_(K1[x]) \cap (S \cap N) = {}
      BY <2>1
    <3> QED BY <3>1
  <2>2. CASE S \cap N = {}
    <3>1. PICK x \in S : Elements_(K[x]) \cap S = {}
      BY DEF Acyclic
    <3> QED BY <2>2, <3>1
  <2> QED BY <2>1, <2>2
<1> QED BY <1>3, <1>4, <1>5, <1>6, <1>7, <1>8

(* A new reference has no list of its own.                                   *)
LEMMA NewReference ==
  ASSUME NEW K, NEW L, NEW H, NEW R, Forest(K, L, H, R), NEW r \in Items \ L
  PROVE  Forest(K, L \cup {r}, H \cup {r}, R \cup {r})
<1> USE DEF Forest, ForestTypeOK
<1>1. OthersEmpty(K, L \cup {r}, R \cup {r})
  BY DEF OthersEmpty
<1>2. ChildrenOwned(K, L \cup {r}, H \cup {r})
  BY DEF ChildrenOwned
<1>3. AllPlaced(K, L \cup {r}, H \cup {r})
  BY DEF AllPlaced
<1> QED BY <1>1, <1>2, <1>3
-----------------------------------------------------------------------------

(* Lists with an item more, an item less, or another item.                   *)
LEMMA ConcatAt ==
  ASSUME NEW T, NEW a \in Seq(T), NEW b \in Seq(T)
  PROVE  /\ a \o b \in Seq(T) /\ Len(a \o b) = Len(a) + Len(b)
         /\ \A i \in 1 .. Len(a) + Len(b) :
              (a \o b)[i] = IF i <= Len(a) THEN a[i] ELSE b[i - Len(a)]
OBVIOUS

(* A sequence without its jth element, element by element.                   *)
LEMMA WithoutIs ==
  ASSUME NEW s \in Seq(Items), NEW j \in DOMAIN s
  PROVE  /\ Without(s, j) \in Seq(Items) /\ Len(Without(s, j)) = Len(s) - 1
         /\ \A i \in 1 .. Len(s) - 1 : Without(s, j)[i] = IF i < j THEN s[i] ELSE s[i + 1]
<1> DEFINE a == SubSeq(s, 1, j - 1)
           b == SubSeq(s, j + 1, Len(s))
<1>1. j \in 1 .. Len(s) /\ Len(s) \in Nat
  OBVIOUS
<1>2. a \in Seq(Items) /\ Len(a) = j - 1 /\ \A i \in 1 .. j - 1 : a[i] = s[i]
  BY <1>1
<1>3. b \in Seq(Items) /\ Len(b) = Len(s) - j /\ \A i \in 1 .. Len(s) - j : b[i] = s[i + j]
  BY <1>1
<1>4. Without(s, j) = a \o b
  BY DEF Without
<1> HIDE DEF a, b
<1>5. /\ a \o b \in Seq(Items) /\ Len(a \o b) = Len(s) - 1
      /\ \A i \in 1 .. Len(s) - 1 :
           (a \o b)[i] = IF i <= j - 1 THEN a[i] ELSE b[i - (j - 1)]
  <2>1. /\ a \o b \in Seq(Items) /\ Len(a \o b) = Len(a) + Len(b)
        /\ \A i \in 1 .. Len(a) + Len(b) :
             (a \o b)[i] = IF i <= Len(a) THEN a[i] ELSE b[i - Len(a)]
    BY <1>2, <1>3, ConcatAt
  <2>2. Len(a) + Len(b) = Len(s) - 1
    BY <1>1, <1>2, <1>3
  <2> QED BY <1>2, <2>1, <2>2
<1>6. \A i \in 1 .. Len(s) - 1 : (a \o b)[i] = IF i < j THEN s[i] ELSE s[i + 1]
  <2> SUFFICES ASSUME NEW i \in 1 .. Len(s) - 1
               PROVE  (a \o b)[i] = IF i < j THEN s[i] ELSE s[i + 1]
    OBVIOUS
  <2>1. CASE i < j
    BY <1>1, <1>2, <1>5, <2>1
  <2>2. CASE ~(i < j)
    <3>1. (a \o b)[i] = b[i - (j - 1)] /\ i - (j - 1) \in 1 .. Len(s) - j
      BY <1>1, <1>5, <2>2
    <3>2. b[i - (j - 1)] = s[(i - (j - 1)) + j]
      BY <1>3, <3>1
    <3>3. (i - (j - 1)) + j = i + 1
      BY <1>1
    <3> QED BY <2>2, <3>1, <3>2, <3>3
  <2> QED BY <2>1, <2>2
<1> QED BY <1>4, <1>5, <1>6

WithAt(w, s, j, x) ==
  /\ w \in Seq(Items) /\ Len(w) = Len(s) + 1 /\ DOMAIN w = 1 .. Len(s) + 1
  /\ \A i \in 1 .. Len(s) + 1 :
       w[i] = IF i < j THEN s[i] ELSE IF i = j THEN x ELSE s[i - 1]

(* A sequence with one more element before its jth, element by element.      *)
LEMMA WithIs ==
  ASSUME NEW s \in Seq(Items), NEW j \in 1 .. Len(s) + 1, NEW x \in Items
  PROVE  WithAt(With(s, j, x), s, j, x)
<1> DEFINE a == SubSeq(s, 1, j - 1)
           b == SubSeq(s, j, Len(s))
           c == a \o <<x>>
<1>1. j \in Nat /\ j >= 1 /\ j <= Len(s) + 1 /\ Len(s) \in Nat
  OBVIOUS
<1>2. a \in Seq(Items) /\ Len(a) = j - 1 /\ \A i \in 1 .. j - 1 : a[i] = s[i]
  BY <1>1
<1>3. b \in Seq(Items) /\ Len(b) = Len(s) - (j - 1)
      /\ \A i \in 1 .. Len(s) - (j - 1) : b[i] = s[i + (j - 1)]
  BY <1>1
<1>4. With(s, j, x) = c \o b
  BY DEF With
<1> HIDE DEF a, b
<1>5. c \in Seq(Items) /\ Len(c) = j
  BY <1>1, <1>2
<1>6. c[j] = x /\ \A i \in 1 .. j - 1 : c[i] = s[i]
  BY <1>1, <1>2
<1> HIDE DEF c
<1>7. c \o b \in Seq(Items) /\ Len(c \o b) = Len(s) + 1
  BY <1>1, <1>3, <1>5
<1>8. \A i \in 1 .. Len(s) + 1 :
        (c \o b)[i] = IF i < j THEN s[i] ELSE IF i = j THEN x ELSE s[i - 1]
  <2> SUFFICES ASSUME NEW i \in 1 .. Len(s) + 1
               PROVE  (c \o b)[i] = IF i < j THEN s[i] ELSE IF i = j THEN x ELSE s[i - 1]
    OBVIOUS
  <2>1. CASE i <= j
    BY <1>1, <1>3, <1>5, <1>6, <2>1
  <2>2. CASE ~(i <= j)
    <3>1. (c \o b)[i] = b[i - j] /\ i - j \in 1 .. Len(s) - (j - 1)
      BY <1>1, <1>3, <1>5, <2>2
    <3>2. b[i - j] = s[(i - j) + (j - 1)] /\ (i - j) + (j - 1) = i - 1
      BY <1>1, <1>3, <3>1
    <3> QED BY <1>1, <2>2, <3>1, <3>2
  <2> QED BY <2>1, <2>2
<1> QED BY <1>4, <1>7, <1>8 DEF WithAt

(* ... they hold the items of the list and that one, or all but that one.    *)
LEMMA WithoutElements ==
  ASSUME NEW s \in Seq(Items), Distinct(s), NEW j \in DOMAIN s
  PROVE  Distinct(Without(s, j)) /\ Elements_(Without(s, j)) = Elements_(s) \ {s[j]}
<1> DEFINE w == Without(s, j)
<1>1. w \in Seq(Items) /\ Len(w) = Len(s) - 1 /\ DOMAIN w = 1 .. Len(s) - 1
      /\ \A i \in 1 .. Len(s) - 1 : w[i] = IF i < j THEN s[i] ELSE s[i + 1]
  BY WithoutIs
<1>2. DOMAIN s = 1 .. Len(s) /\ Len(s) \in Nat
  OBVIOUS
<1> HIDE DEF w
<1>3. Distinct(w)
  <2> SUFFICES ASSUME NEW i \in DOMAIN w, NEW k \in DOMAIN w, w[i] = w[k]
               PROVE  i = k
    BY DEF Distinct
  <2>1. \A a, b \in 1 .. Len(s) : s[a] = s[b] => a = b
    BY <1>2 DEF Distinct
  <2>2. ASSUME NEW c \in DOMAIN w
        PROVE  \E a \in 1 .. Len(s) : a = (IF c < j THEN c ELSE c + 1) /\ w[c] = s[a]
    <3>1. c \in 1 .. Len(s) - 1 /\ w[c] = IF c < j THEN s[c] ELSE s[c + 1]
      BY <1>1
    <3>2. c \in 1 .. Len(s) /\ c + 1 \in 1 .. Len(s)
      BY <1>2, <3>1
    <3> QED BY <3>1, <3>2
  <2>3. PICK a \in 1 .. Len(s) : a = (IF i < j THEN i ELSE i + 1) /\ w[i] = s[a]
    BY <2>2
  <2>4. PICK b \in 1 .. Len(s) : b = (IF k < j THEN k ELSE k + 1) /\ w[k] = s[b]
    BY <2>2
  <2>5. s[a] = s[b]
    BY <2>3, <2>4
  <2>6. a = b
    BY <2>1, <2>5
  <2>7. i \in Nat /\ k \in Nat /\ j \in Nat
    BY <1>1, <1>2
  <2> QED BY <2>3, <2>4, <2>6, <2>7
<1>4. \A i \in DOMAIN w : w[i] \in Elements_(s) \ {s[j]}
  BY <1>1, <1>2 DEF Distinct, Elements_
<1>5. ASSUME NEW i \in DOMAIN s, i # j PROVE \E k \in DOMAIN w : w[k] = s[i]
  <2>1. CASE i < j
    BY <1>1, <1>2, <2>1
  <2>2. CASE i > j
    <3>1. i - 1 \in DOMAIN w /\ w[i - 1] = s[(i - 1) + 1] /\ (i - 1) + 1 = i
      BY <1>1, <1>2, <2>2
    <3> QED BY <3>1
  <2> QED BY <1>2, <1>5, <2>1, <2>2
<1>6. Elements_(w) = Elements_(s) \ {s[j]}
  BY <1>4, <1>5 DEF Elements_
<1> QED BY <1>3, <1>6 DEF w

(* The element put in is the only one more.                                  *)
LEMMA WithElements ==
  ASSUME NEW s \in Seq(Items), Distinct(s), NEW j \in 1 .. Len(s) + 1,
         NEW x \in Items \ Elements_(s)
  PROVE  Distinct(With(s, j, x)) /\ Elements_(With(s, j, x)) = Elements_(s) \cup {x}
<1> DEFINE w == With(s, j, x)
<1>1. w \in Seq(Items) /\ Len(w) = Len(s) + 1 /\ DOMAIN w = 1 .. Len(s) + 1
      /\ \A i \in 1 .. Len(s) + 1 : w[i] = IF i < j THEN s[i] ELSE IF i = j THEN x ELSE s[i - 1]
  BY WithIs DEF WithAt
<1>2. DOMAIN s = 1 .. Len(s) /\ Len(s) \in Nat /\ \A i \in DOMAIN s : s[i] # x
  BY DEF Elements_
<1> DEFINE Old(i) == IF i < j THEN i ELSE i - 1
<1> HIDE DEF w
<1>0. ASSUME NEW i \in DOMAIN w
      PROVE  IF i = j THEN w[i] = x ELSE Old(i) \in DOMAIN s /\ w[i] = s[Old(i)] /\ w[i] # x
  <2>1. CASE i = j
    BY <1>1, <2>1
  <2>2. CASE i # j
    <3>1. Old(i) \in DOMAIN s /\ w[i] = s[Old(i)]
      BY <1>1, <1>2, <2>2
    <3> QED BY <1>2, <2>2, <3>1
  <2> QED BY <2>1, <2>2
<1>3. Distinct(w)
  <2> SUFFICES ASSUME NEW i \in DOMAIN w, NEW k \in DOMAIN w, w[i] = w[k] PROVE i = k
    BY DEF Distinct
  <2>1. CASE i # j /\ k # j
    <3>1. Old(i) = Old(k)
      BY <1>0, <2>1 DEF Distinct
    <3> QED BY <1>1, <2>1, <3>1
  <2> QED BY <1>0, <2>1
<1>4. \A i \in DOMAIN w : w[i] \in Elements_(s) \cup {x}
  BY <1>0 DEF Elements_
<1>5. ASSUME NEW i \in DOMAIN s PROVE \E k \in DOMAIN w : w[k] = s[i]
  <2>1. CASE i < j
    BY <1>1, <1>2, <2>1
  <2>2. CASE i >= j
    <3>1. i + 1 \in DOMAIN w /\ w[i + 1] = s[(i + 1) - 1] /\ (i + 1) - 1 = i
      BY <1>1, <1>2, <2>2
    <3> QED BY <3>1
  <2> QED BY <1>2, <2>1, <2>2
<1>6. \E k \in DOMAIN w : w[k] = x
  BY <1>1
<1>7. Elements_(w) = Elements_(s) \cup {x}
  BY <1>4, <1>5, <1>6 DEF Elements_
<1> QED BY <1>3, <1>7 DEF w

(* So for one put at the end.                                                *)
LEMMA AppendElements ==
  ASSUME NEW s \in Seq(Items), Distinct(s), NEW x \in Items \ Elements_(s)
  PROVE  /\ Append(s, x) \in Seq(Items) /\ Distinct(Append(s, x))
         /\ Elements_(Append(s, x)) = Elements_(s) \cup {x}
<1> DEFINE w == Append(s, x)
<1>1. /\ w \in Seq(Items) /\ DOMAIN w = 1 .. Len(s) + 1 /\ w[Len(s) + 1] = x
      /\ \A i \in 1 .. Len(s) : w[i] = s[i]
  OBVIOUS
<1>2. DOMAIN s = 1 .. Len(s) /\ Len(s) \in Nat /\ \A i \in DOMAIN s : s[i] # x
  BY DEF Elements_
<1> HIDE DEF w
<1>3. Distinct(w)
  BY <1>1, <1>2 DEF Distinct
<1>4. Elements_(w) = Elements_(s) \cup {x}
  BY <1>1, <1>2 DEF Elements_
<1> QED BY <1>1, <1>3, <1>4 DEF w

Put(s, j, x) == [s EXCEPT ![j] = x]

(* An element that is replaced leaves, the new one comes.                    *)
LEMMA ExceptElements ==
  ASSUME NEW s \in Seq(Items), Distinct(s), NEW j \in DOMAIN s,
         NEW x \in Items \ Elements_(s)
  PROVE  /\ Put(s, j, x) \in Seq(Items) /\ Distinct(Put(s, j, x))
         /\ Elements_(Put(s, j, x)) = (Elements_(s) \ {s[j]}) \cup {x}
<1> DEFINE w == [s EXCEPT ![j] = x]
<1>1. w \in Seq(Items) /\ DOMAIN w = DOMAIN s /\ \A i \in DOMAIN s : w[i] = IF i = j THEN x ELSE s[i]
  OBVIOUS
<1>2. \A i \in DOMAIN s : s[i] # x
  BY DEF Elements_
<1> HIDE DEF w
<1>3. Distinct(w)
  BY <1>1, <1>2 DEF Distinct
<1>4. Elements_(w) = (Elements_(s) \ {s[j]}) \cup {x}
  BY <1>1, <1>2 DEF Elements_, Distinct
<1> QED BY <1>1, <1>3, <1>4 DEF w, Put
-----------------------------------------------------------------------------

(* The pointers h of a list s of the item p.                                 *)
Heap == [child : [Items -> Pointer], next : [Items -> Pointer], prev : [Items -> Pointer]]

Linked(h, p, s) ==
  /\ h.child[p] = IF s = <<>> THEN NULL ELSE s[1]
  /\ \A i \in DOMAIN s : /\ h.next[s[i]] = IF i = Len(s) THEN NULL ELSE s[i + 1]
                         /\ h.prev[s[i]] = IF i = 1 THEN s[Len(s)] ELSE s[i - 1]

(* From h to h1 no list changes but that of p, and no item's place but of S. *)
Elsewhere(h, h1, p, S) ==
  /\ \A q \in Items \ {p} : h1.child[q] = h.child[q]
  /\ \A x \in Items \ S : h1.next[x] = h.next[x] /\ h1.prev[x] = h.prev[x]

(* Nobody is before or after it.                                             *)
Alone(h, item) == h.next[item] = NULL /\ h.prev[item] = NULL

(* add_item_to_array() links the list with the item at its end.              *)
LEMMA AppendLinks ==
  ASSUME NEW h \in Heap, NEW p \in Items, NEW s \in Seq(Items), Distinct(s),
         Linked(h, p, s), NEW item \in Items \ Elements_(s), Alone(h, item)
  PROVE  LET h1 == add_item_to_array(h, p, item)
         IN  /\ h1 \in Heap /\ Linked(h1, p, Append(s, item))
             /\ Elsewhere(h, h1, p, Elements_(s) \cup {item})
<1> DEFINE h1 == add_item_to_array(h, p, item)
           w == Append(s, item)
           n == Len(s)
<1> USE ItemsAssumption
<1>1. n \in Nat /\ DOMAIN s = 1 .. n /\ (s = <<>> <=> n = 0) /\ \A i \in 1 .. n : s[i] \in Items
  OBVIOUS
<1>2. /\ Len(w) = n + 1 /\ DOMAIN w = 1 .. n + 1 /\ w # <<>> /\ w[n + 1] = item
      /\ \A i \in 1 .. n : w[i] = s[i]
  OBVIOUS
<1>3. \A i \in 1 .. n : s[i] # item
  BY <1>1 DEF Elements_
<1>4. CASE n = 0
  <2>1. h.child[p] = NULL
    BY <1>1, <1>4 DEF Linked
  <2>2. /\ h1 \in Heap /\ h1.child = [h.child EXCEPT ![p] = item]
        /\ h1.prev = [h.prev EXCEPT ![item] = item] /\ h1.next = [h.next EXCEPT ![item] = NULL]
    BY <2>1 DEF add_item_to_array, Heap, Pointer
  <2> HIDE DEF h1, w
  <2>3. Linked(h1, p, w)
    BY <1>2, <1>4, <2>2 DEF Linked, Heap
  <2>4. Elsewhere(h, h1, p, Elements_(s) \cup {item})
    BY <2>2 DEF Elsewhere, Heap
  <2> QED BY <2>2, <2>3, <2>4 DEF h1, w
<1>5. CASE n # 0
  <2>1. h.child[p] = s[1] /\ s[1] # NULL /\ s[1] \in Items
    BY <1>1, <1>5 DEF Linked
  <2>2. h.prev[s[1]] = s[n] /\ s[n] # NULL /\ s[n] \in Items
    BY <1>1, <1>5 DEF Linked
  <2>3. /\ h1 \in Heap /\ h1.child = h.child /\ h1.next = [h.next EXCEPT ![s[n]] = item]
        /\ h1.prev = [h.prev EXCEPT ![item] = s[n], ![s[1]] = item]
    BY <2>1, <2>2 DEF add_item_to_array, suffix_object, Heap, Pointer
  <2>31. \A x \in Items :
           /\ h1.next[x] = IF x = s[n] THEN item ELSE h.next[x]
           /\ h1.prev[x] = IF x = s[1] THEN item ELSE IF x = item THEN s[n] ELSE h.prev[x]
    BY <2>1, <2>2, <2>3 DEF Heap
  <2>4. \A i, j \in 1 .. n : s[i] = s[j] => i = j
    BY <1>1 DEF Distinct
  <2>5. s[1] \in Elements_(s) /\ s[n] \in Elements_(s)
    BY <1>1, <1>5 DEF Elements_
  <2> HIDE DEF h1, w
  <2>6. \A i \in 1 .. n : /\ h1.next[s[i]] = IF i = n THEN item ELSE s[i + 1]
                          /\ h1.prev[s[i]] = IF i = 1 THEN item ELSE s[i - 1]
    <3> SUFFICES ASSUME NEW i \in 1 .. n
                 PROVE  /\ h1.next[s[i]] = IF i = n THEN item ELSE s[i + 1]
                        /\ h1.prev[s[i]] = IF i = 1 THEN item ELSE s[i - 1]
      OBVIOUS
    <3>1. /\ h.next[s[i]] = IF i = n THEN NULL ELSE s[i + 1]
          /\ h.prev[s[i]] = IF i = 1 THEN s[n] ELSE s[i - 1]
      BY <1>1 DEF Linked
    <3>2. s[i] \in Items /\ s[i] # item
      BY <1>1, <1>3
    <3>3. 1 \in 1 .. n /\ n \in 1 .. n
      BY <1>1, <1>5
    <3>4. (i # n => s[i] # s[n]) /\ (i # 1 => s[i] # s[1])
      BY <2>4, <3>3
    <3> QED BY <2>31, <3>1, <3>2, <3>4
  <2>7. h1.next[item] = NULL /\ h1.prev[item] = s[n]
    BY <1>1, <1>3, <1>5, <2>1, <2>2, <2>3 DEF Heap, Alone
  <2>8. Linked(h1, p, w)
    <3>1. h1.child[p] = w[1]
      BY <1>2, <1>5, <2>1, <2>3, <1>1
    <3>2. ASSUME NEW i \in 1 .. n + 1
          PROVE  /\ h1.next[w[i]] = IF i = n + 1 THEN NULL ELSE w[i + 1]
                 /\ h1.prev[w[i]] = IF i = 1 THEN w[n + 1] ELSE w[i - 1]
      <4>1. CASE i = n + 1
        BY <1>1, <1>2, <1>5, <2>7, <4>1
      <4>2. CASE i # n + 1
        <5>1. i \in 1 .. n /\ w[i] = s[i] /\ w[i + 1] = IF i = n THEN item ELSE s[i + 1]
          <6>1. i \in 1 .. n /\ (i # n => i + 1 \in 1 .. n)
            <7>1. n \in Nat
              OBVIOUS
            <7> HIDE DEF n
            <7> QED BY ONLY <7>1, <4>2, i \in 1 .. n + 1
          <6>2. w[i] = s[i] /\ (i # n => w[i + 1] = s[i + 1])
            BY <1>2, <6>1
          <6>3. i = n => w[i + 1] = item
            BY <1>2
          <6> QED BY <6>1, <6>2, <6>3
        <5>2. i # 1 => i - 1 \in 1 .. n /\ w[i - 1] = s[i - 1]
          BY <1>1, <1>2, <4>2
        <5> QED BY <1>2, <2>6, <4>2, <5>1, <5>2
      <4> QED BY <4>1, <4>2
    <3> QED BY <1>2, <3>1, <3>2 DEF Linked
  <2>9. Elsewhere(h, h1, p, Elements_(s) \cup {item})
    BY <2>1, <2>2, <2>3, <2>5 DEF Elsewhere, Heap
  <2> QED BY <2>3, <2>8, <2>9 DEF h1, w
<1> QED BY <1>1, <1>4, <1>5

(* What a list says of the pointers, at each place.                          *)
Linked_(h, p, s, n) ==
  /\ n = Len(s) /\ n >= 1 /\ DOMAIN s = 1 .. n
  /\ h.child[p] = s[1]
  /\ \A i \in 1 .. n : /\ s[i] \in Items /\ s[i] # NULL
                       /\ h.next[s[i]] = IF i = n THEN NULL ELSE s[i + 1]
                       /\ h.prev[s[i]] = IF i = 1 THEN s[n] ELSE s[i - 1]
  /\ \A i, k \in 1 .. n : i # k => s[i] # s[k]

(* The same, with the length as a number of its own.                         *)
LEMMA LinkedFacts ==
  ASSUME NEW h, NEW p \in Items, NEW s \in Seq(Items), Distinct(s), s # <<>>,
         Linked(h, p, s)
  PROVE  \E n \in Nat : Linked_(h, p, s, n)
<1>1. PICK n \in Nat : n = Len(s)
  OBVIOUS
<1>2. n >= 1 /\ DOMAIN s = 1 .. n /\ \A i \in 1 .. n : s[i] \in Items
  BY <1>1
<1>3. h.child[p] = s[1]
  BY DEF Linked
<1>4. \A i \in 1 .. n : /\ h.next[s[i]] = IF i = n THEN NULL ELSE s[i + 1]
                        /\ h.prev[s[i]] = IF i = 1 THEN s[n] ELSE s[i - 1]
  BY <1>1, <1>2 DEF Linked
<1>5. \A i, k \in 1 .. n : i # k => s[i] # s[k]
  BY <1>2 DEF Distinct
<1>6. \A i \in 1 .. n : s[i] # NULL
  BY <1>2, ItemsAssumption
<1> QED BY <1>1, <1>2, <1>3, <1>4, <1>5, <1>6 DEF Linked_

(* cJSON_DetachItemViaPointer() links the list without the item.             *)
LEMMA DetachLinks ==
  ASSUME NEW h \in Heap, NEW p \in Items, NEW s \in Seq(Items), Distinct(s),
         Linked(h, p, s), NEW j \in DOMAIN s
  PROVE  LET h1 == DetachItemViaPointer(h, p, s[j])
         IN  /\ h1 \in Heap /\ Linked(h1, p, Without(s, j)) /\ Alone(h1, s[j])
             /\ Elsewhere(h, h1, p, Elements_(s))
<1>0. PICK n \in Nat : Linked_(h, p, s, n)
  BY LinkedFacts
<1>1. /\ n = Len(s) /\ n >= 1 /\ DOMAIN s = 1 .. n
      /\ h.child[p] = s[1]
      /\ \A i \in 1 .. n : /\ s[i] \in Items /\ s[i] # NULL
                           /\ h.next[s[i]] = IF i = n THEN NULL ELSE s[i + 1]
                           /\ h.prev[s[i]] = IF i = 1 THEN s[n] ELSE s[i - 1]
      /\ \A i, k \in 1 .. n : i # k => s[i] # s[k]
  BY <1>0 DEF Linked_
<1>2. PICK item \in Items : item = s[j]
  BY <1>1
<1>3. PICK w \in Seq(Items) :
        /\ w = Without(s, j) /\ Len(w) = n - 1 /\ DOMAIN w = 1 .. n - 1
        /\ \A i \in 1 .. n - 1 : w[i] = IF i < j THEN s[i] ELSE s[i + 1]
  <2>1. /\ Without(s, j) \in Seq(Items) /\ Len(Without(s, j)) = n - 1
        /\ \A i \in 1 .. n - 1 : Without(s, j)[i] = IF i < j THEN s[i] ELSE s[i + 1]
    <3>1. /\ Without(s, j) \in Seq(Items) /\ Len(Without(s, j)) = Len(s) - 1
          /\ \A i \in 1 .. Len(s) - 1 : Without(s, j)[i] = IF i < j THEN s[i] ELSE s[i + 1]
      BY WithoutIs
    <3>2. Len(s) - 1 = n - 1
      BY <1>1
    <3> HIDE DEF Without
    <3> QED BY <3>1, <3>2
  <2> QED BY <2>1
<1>4. PICK h1 : h1 = DetachItemViaPointer(h, p, item)
  OBVIOUS
<1>5. /\ j \in 1 .. n /\ item # NULL
      /\ h.next[item] = IF j = n THEN NULL ELSE s[j + 1]
      /\ h.prev[item] = IF j = 1 THEN s[n] ELSE s[j - 1]
      /\ (item = s[1] <=> j = 1)
  BY <1>1, <1>2
<1>18. \A i, k \in 1 .. n : i # k => s[i] # s[k]
  BY <1>1
<1>6. j # n => s[j + 1] \in Items /\ s[j + 1] # NULL /\ s[j + 1] # item
  BY <1>1, <1>2, <1>5
<1>7. j # 1 => s[j - 1] \in Items /\ s[j - 1] # item
  BY <1>1, <1>2, <1>5
<1>8. s[1] \in Items
  BY <1>1
<1>9. /\ h1 \in Heap
      /\ \A q \in Items : h1.child[q] = IF q = p /\ j = 1 THEN h.next[item] ELSE h.child[q]
      /\ \A x \in Items :
           h1.next[x] = IF x = item THEN NULL
                        ELSE IF j # 1 /\ x = s[j - 1] THEN h.next[item] ELSE h.next[x]
      /\ \A x \in Items :
           h1.prev[x] = IF x = item THEN NULL
                        ELSE IF j # n /\ x = s[j + 1] THEN h.prev[item]
                        ELSE IF j = n /\ j # 1 /\ x = s[1] THEN h.prev[item] ELSE h.prev[x]
  <2>1. CASE j = 1 /\ j = n
    <3>1. h1 = [h EXCEPT !.child[p] = NULL, !.prev[item] = NULL, !.next[item] = NULL]
      BY <1>1, <1>4, <1>5, <2>1 DEF DetachItemViaPointer, Heap
    <3> QED BY <1>5, <2>1, <3>1 DEF Heap, Pointer
  <2>2. CASE j = 1 /\ j # n
    <3>1. h1 = [h EXCEPT !.prev[s[j + 1]] = h.prev[item], !.child[p] = s[j + 1],
                         !.prev[item] = NULL, !.next[item] = NULL]
      BY <1>1, <1>4, <1>5, <1>6, <2>2 DEF DetachItemViaPointer, Heap
    <3> QED BY <1>5, <1>6, <2>2, <3>1 DEF Heap, Pointer
  <2>3. CASE j # 1 /\ j # n
    <3>1. h1 = [h EXCEPT !.next[s[j - 1]] = s[j + 1], !.prev[s[j + 1]] = s[j - 1],
                         !.prev[item] = NULL, !.next[item] = NULL]
      BY <1>1, <1>4, <1>5, <1>6, <1>7, <2>3 DEF DetachItemViaPointer, Heap
    <3> QED BY <1>5, <1>6, <1>7, <2>3, <3>1 DEF Heap, Pointer
  <2>4. CASE j # 1 /\ j = n
    <3>1. h1 = [h EXCEPT !.next[s[j - 1]] = NULL, !.prev[s[1]] = s[j - 1],
                         !.prev[item] = NULL, !.next[item] = NULL]
      BY <1>1, <1>4, <1>5, <1>7, <1>8, <2>4 DEF DetachItemViaPointer, Heap
    <3> QED BY <1>5, <1>7, <1>8, <2>4, <3>1 DEF Heap, Pointer
  <2> QED BY <2>1, <2>2, <2>3, <2>4
<1>10. ASSUME NEW k \in 1 .. n, s[k] # item, j # 1 => s[k] # s[j - 1]
       PROVE  h1.next[s[k]] = IF k = n THEN NULL ELSE s[k + 1]
  <2>1. PICK x \in Items : x = s[k]
    BY <1>1
  <2>2. h.next[x] = IF k = n THEN NULL ELSE s[k + 1]
    BY <1>1, <2>1
  <2>3. h1.next[x] = h.next[x]
    BY <1>9, <1>10, <2>1
  <2> QED BY <2>1, <2>2, <2>3
<1>11. ASSUME NEW k \in 1 .. n, s[k] # item, k # 1, j # n => s[k] # s[j + 1]
       PROVE  h1.prev[s[k]] = s[k - 1]
  <2>1. PICK x \in Items : x = s[k] /\ x # s[1]
    BY <1>1, <1>11
  <2>2. h.prev[x] = s[k - 1]
    BY <1>1, <1>11, <2>1
  <2>3. h1.prev[x] = h.prev[x]
    BY <1>9, <1>11, <2>1
  <2> QED BY <2>1, <2>2, <2>3
<1>12. Alone(h1, item)
  BY <1>9 DEF Alone
<1>13. Elsewhere(h, h1, p, Elements_(s))
  <2>1. \A i \in 1 .. n : s[i] \in Elements_(s)
    BY <1>1 DEF Elements_
  <2>2. \A x \in Items \ Elements_(s) : x # item /\ (j # 1 => x # s[j - 1])
                                        /\ (j # n => x # s[j + 1]) /\ x # s[1]
    <3>1. j \in 1 .. n /\ 1 \in 1 .. n /\ (j # 1 => j - 1 \in 1 .. n)
          /\ (j # n => j + 1 \in 1 .. n)
      BY <1>1, <1>5
    <3> QED BY <1>2, <2>1, <3>1
  <2> QED BY <1>9, <2>2 DEF Elsewhere
<1>14. h1.child[p] = IF w = <<>> THEN NULL ELSE w[1]
  <2>1. CASE n = 1
    <3>1. w = <<>> /\ j = 1 /\ j = n
      BY <1>3, <1>5, <2>1
    <3> QED BY <1>5, <1>9, <3>1
  <2>2. CASE n # 1
    <3>1. w # <<>> /\ w[1] = IF 1 < j THEN s[1] ELSE s[1 + 1]
      BY <1>1, <1>3, <2>2
    <3> QED BY <1>1, <1>5, <1>9, <2>2, <3>1
  <2> QED BY <2>1, <2>2
<1>15. ASSUME NEW i \in 1 .. n - 1
       PROVE  h1.next[w[i]] = IF i = Len(w) THEN NULL ELSE w[i + 1]
  <2>1. CASE i < j
    <3>1. w[i] = s[i] /\ i \in 1 .. n /\ i # j
      BY <1>1, <1>3, <2>1
    <3>2. CASE i = j - 1
      <4>1. h1.next[w[i]] = h.next[item]
        BY <1>1, <1>2, <1>5, <1>9, <3>1, <3>2
      <4>2. j # n => w[i + 1] = s[j + 1]
        BY <1>3, <1>5, <3>2
      <4>3. j = n <=> i = Len(w)
        BY <1>3, <3>2
      <4> QED BY <1>5, <4>1, <4>2, <4>3
    <3>3. CASE i # j - 1
      <4>1. j # 1 => s[i] # s[j - 1]
        <5>1. j # 1 => j - 1 \in 1 .. n
          BY <1>5
        <5> QED BY <1>18, <3>1, <3>3, <5>1
      <4>0. s[i] \in Items /\ s[i] # item /\ i # n
        BY <1>1, <1>2, <1>5, <2>1, <3>1
      <4>2. h1.next[w[i]] = s[i + 1]
        BY <1>10, <3>1, <4>0, <4>1
      <4>3. i + 1 \in 1 .. n - 1 /\ i + 1 < j
        BY <1>5, <2>1, <3>3
      <4> QED BY <1>3, <4>2, <4>3
    <3> QED BY <3>2, <3>3
  <2>2. CASE ~(i < j)
    <3>1. w[i] = s[i + 1] /\ i + 1 \in 1 .. n /\ i + 1 # j /\ i + 1 # j - 1
      BY <1>1, <1>3, <1>5, <2>2
    <3>2. s[i + 1] # item /\ (j # 1 => s[i + 1] # s[j - 1])
      BY <1>1, <1>2, <1>5, <3>1
    <3>3. h1.next[w[i]] = IF i + 1 = n THEN NULL ELSE s[(i + 1) + 1]
      BY <1>10, <3>1, <3>2
    <3>4. i + 1 # n => w[i + 1] = s[(i + 1) + 1]
      BY <1>3, <1>5, <2>2
    <3> QED BY <1>3, <3>3, <3>4
  <2> QED BY <1>5, <2>1, <2>2
<1>16. ASSUME NEW i \in 1 .. n - 1
       PROVE  h1.prev[w[i]] = IF i = 1 THEN w[Len(w)] ELSE w[i - 1]
  <2>0. w[n - 1] = (IF j = n THEN s[n - 1] ELSE s[n]) /\ n # 1 /\ n - 1 \in 1 .. n
    BY <1>1, <1>3, <1>5
  <2>1. CASE i < j
    <3>1. w[i] = s[i] /\ i \in 1 .. n /\ i # j /\ j # 1
      BY <1>1, <1>3, <1>5, <2>1
    <3>2. s[i] # item /\ (j # n => s[i] # s[j + 1])
      BY <1>1, <1>2, <1>5, <2>1, <3>1
    <3>3. CASE i = 1
      <4>1. s[1] \in Items /\ s[1] # item /\ (j # n => s[1] # s[j + 1]) /\ w[1] = s[1]
        BY <1>8, <3>1, <3>2, <3>3
      <4>2. h1.prev[s[1]] = IF j = n THEN h.prev[item] ELSE h.prev[s[1]]
        BY <1>9, <3>1, <4>1
      <4>3. h.prev[s[1]] = s[n] /\ h.prev[item] = s[j - 1]
        BY <1>1, <1>5, <3>1
      <4> QED BY <1>3, <2>0, <3>3, <4>1, <4>2, <4>3
    <3>4. CASE i # 1
      <4>2. h1.prev[w[i]] = s[i - 1]
        BY <1>11, <3>1, <3>2, <3>4
      <4>3. i - 1 \in 1 .. n - 1 /\ i - 1 < j
        BY <1>5, <2>1, <3>4
      <4> QED BY <1>3, <3>4, <4>2, <4>3
    <3> QED BY <3>3, <3>4
  <2>2. CASE i = j
    <3>1. w[i] = s[j + 1] /\ j # n
      BY <1>1, <1>3, <1>5, <2>2
    <3>2. h1.prev[w[i]] = h.prev[item]
      BY <1>6, <1>9, <3>1
    <3>3. j # 1 => w[i - 1] = s[j - 1]
      BY <1>3, <1>5, <2>2
    <3> QED BY <1>3, <1>5, <2>0, <2>2, <3>1, <3>2, <3>3
  <2>3. CASE i > j
    <3>1. w[i] = s[i + 1] /\ i + 1 \in 1 .. n /\ i + 1 # j /\ i + 1 # j + 1 /\ i # 1 /\ i + 1 # 1
      BY <1>1, <1>3, <1>5, <2>3
    <3>2. s[i + 1] # item /\ (j # n => s[i + 1] # s[j + 1])
      BY <1>1, <1>2, <1>5, <3>1
    <3>3. h1.prev[w[i]] = s[(i + 1) - 1]
      BY <1>11, <3>1, <3>2
    <3>4. w[i - 1] = s[(i - 1) + 1] /\ (i - 1) + 1 = (i + 1) - 1
      BY <1>3, <1>5, <2>3
    <3> QED BY <3>1, <3>3, <3>4
  <2> QED BY <1>5, <2>1, <2>2, <2>3
<1>17. Linked(h1, p, w)
  BY <1>3, <1>14, <1>15, <1>16 DEF Linked
<1> QED BY <1>2, <1>3, <1>4, <1>9, <1>12, <1>13, <1>17

(* cJSON_InsertItemInArray() links the list with the item before another.    *)
LEMMA InsertLinks ==
  ASSUME NEW h \in Heap, NEW p \in Items, NEW s \in Seq(Items), Distinct(s),
         Linked(h, p, s), NEW j \in DOMAIN s, NEW item \in Items \ Elements_(s)
  PROVE  LET h1 == InsertBefore(h, p, s[j], item)
         IN  /\ h1 \in Heap /\ Linked(h1, p, With(s, j, item))
             /\ Elsewhere(h, h1, p, Elements_(s) \cup {item})
<1>0. PICK n \in Nat : Linked_(h, p, s, n)
  BY LinkedFacts
<1>1. /\ n = Len(s) /\ n >= 1 /\ DOMAIN s = 1 .. n
      /\ h.child[p] = s[1]
      /\ \A i \in 1 .. n : /\ s[i] \in Items /\ s[i] # NULL
                           /\ h.next[s[i]] = IF i = n THEN NULL ELSE s[i + 1]
                           /\ h.prev[s[i]] = IF i = 1 THEN s[n] ELSE s[i - 1]
      /\ \A i, k \in 1 .. n : i # k => s[i] # s[k]
  BY <1>0 DEF Linked_
<1>2. PICK after \in Items : after = s[j]
  BY <1>1
<1>3. PICK w \in Seq(Items) :
        /\ w = With(s, j, item) /\ Len(w) = n + 1 /\ DOMAIN w = 1 .. n + 1
        /\ \A i \in 1 .. n + 1 : w[i] = IF i < j THEN s[i] ELSE IF i = j THEN item ELSE s[i - 1]
  <2>1. j \in 1 .. Len(s) + 1
    BY <1>1
  <2>2. WithAt(With(s, j, item), s, j, item)
    BY <2>1, WithIs
  <2> QED BY <1>1, <2>2 DEF WithAt
<1>4. PICK h1 : h1 = InsertBefore(h, p, after, item)
  OBVIOUS
<1>5. /\ j \in 1 .. n /\ item # after
      /\ h.prev[after] = (IF j = 1 THEN s[n] ELSE s[j - 1]) /\ h.prev[after] \in Items
      /\ (after = s[1] <=> j = 1)
  BY <1>1, <1>2 DEF Elements_
<1>6. \A i \in 1 .. n : s[i] # item
  BY <1>1 DEF Elements_
<1>7. j # 1 => s[j - 1] \in Items /\ s[j - 1] # item /\ s[j - 1] # after
  BY <1>1, <1>2, <1>5, <1>6
<1>8. /\ h1 \in Heap
      /\ \A q \in Items : h1.child[q] = IF q = p /\ j = 1 THEN item ELSE h.child[q]
      /\ \A x \in Items :
           h1.next[x] = IF x = item THEN after
                        ELSE IF j # 1 /\ x = s[j - 1] THEN item ELSE h.next[x]
      /\ \A x \in Items :
           h1.prev[x] = IF x = after THEN item
                        ELSE IF x = item THEN h.prev[after] ELSE h.prev[x]
  <2>1. CASE j = 1
    <3>1. h1 = [h EXCEPT !.next[item] = after, !.prev[item] = h.prev[after],
                         !.prev[after] = item, !.child[p] = item]
      BY <1>1, <1>4, <1>5, <2>1 DEF InsertBefore, Heap
    <3> QED BY <1>5, <2>1, <3>1 DEF Heap, Pointer
  <2>2. CASE j # 1
    <3>1. h1 = [h EXCEPT !.next[item] = after, !.prev[item] = h.prev[after],
                         !.prev[after] = item, !.next[s[j - 1]] = item]
      BY <1>1, <1>4, <1>5, <1>7, <2>2 DEF InsertBefore, Heap
    <3> QED BY <1>5, <1>7, <2>2, <3>1 DEF Heap, Pointer
  <2> QED BY <2>1, <2>2
<1>9. Elsewhere(h, h1, p, Elements_(s) \cup {item})
  <2>1. \A i \in 1 .. n : s[i] \in Elements_(s)
    BY <1>1 DEF Elements_
  <2>2. \A x \in Items \ (Elements_(s) \cup {item}) :
          x # item /\ x # after /\ (j # 1 => x # s[j - 1])
    BY <1>1, <1>2, <1>5, <2>1
  <2> QED BY <1>8, <2>2 DEF Elsewhere
<1>10. w # <<>> /\ h1.child[p] = w[1]
  BY <1>1, <1>3, <1>5, <1>8
<1>11. ASSUME NEW i \in 1 .. n + 1
       PROVE  h1.next[w[i]] = IF i = Len(w) THEN NULL ELSE w[i + 1]
  <2>1. CASE i < j
    <3>1. w[i] = s[i] /\ i \in 1 .. n /\ i # n /\ s[i] # item /\ i + 1 \in 1 .. n + 1
      BY <1>3, <1>5, <1>6, <2>1
    <3>2. CASE i = j - 1
      <4>1. h1.next[w[i]] = item
        BY <1>1, <1>5, <1>8, <3>1, <3>2
      <4>2. w[i + 1] = item
        BY <1>3, <1>5, <3>1, <3>2
      <4> QED BY <1>3, <3>1, <4>1, <4>2
    <3>3. CASE i # j - 1
      <4>1. j # 1 => s[i] # s[j - 1]
        BY <1>1, <1>5, <3>1, <3>3
      <4>2. h1.next[w[i]] = s[i + 1]
        <5>1. PICK x \in Items : x = s[i] /\ x # item /\ (j # 1 => x # s[j - 1])
          BY <1>1, <3>1, <4>1
        <5>2. h.next[x] = s[i + 1]
          BY <1>1, <3>1, <5>1
        <5>3. h1.next[x] = h.next[x]
          BY <1>8, <5>1
        <5> QED BY <3>1, <5>1, <5>2, <5>3
      <4>3. w[i + 1] = s[i + 1]
        BY <1>3, <1>5, <2>1, <3>1, <3>3
      <4> QED BY <1>3, <3>1, <4>2, <4>3
    <3> QED BY <3>2, <3>3
  <2>2. CASE i = j
    BY <1>2, <1>3, <1>5, <1>8, <2>2
  <2>3. CASE i > j
    <3>1. w[i] = s[i - 1] /\ i - 1 \in 1 .. n /\ i - 1 # j - 1
      BY <1>3, <1>5, <2>3
    <3>2. j # 1 => s[i - 1] # s[j - 1]
      BY <1>1, <1>5, <3>1
    <3>21. s[i - 1] # item /\ s[i - 1] \in Items
           /\ h.next[s[i - 1]] = IF i - 1 = n THEN NULL ELSE s[(i - 1) + 1]
      BY <1>1, <1>6, <3>1
    <3>3. h1.next[w[i]] = IF i - 1 = n THEN NULL ELSE s[(i - 1) + 1]
      BY <1>8, <3>1, <3>2, <3>21
    <3>4. i # n + 1 => w[i + 1] = s[(i + 1) - 1]
      BY <1>3, <1>5, <2>3
    <3>5. (i - 1) + 1 = i /\ (i + 1) - 1 = i /\ (i - 1 = n <=> i = n + 1)
      OBVIOUS
    <3>6. h1.next[w[i]] = IF i = n + 1 THEN NULL ELSE s[i]
      BY <3>3, <3>5, Zenon
    <3>7. i # n + 1 => w[i + 1] = s[i]
      BY <3>4, <3>5, Zenon
    <3>8. Len(w) = n + 1
      BY <1>3
    <3> QED BY <3>6, <3>7, <3>8, Zenon
  <2> QED BY <1>5, <2>1, <2>2, <2>3
<1>12. ASSUME NEW i \in 1 .. n + 1
       PROVE  h1.prev[w[i]] = IF i = 1 THEN w[Len(w)] ELSE w[i - 1]
  <2>0. w[n + 1] = s[n]
    BY <1>1, <1>3, <1>5
  <2>1. CASE i < j
    <3>1. w[i] = s[i] /\ i \in 1 .. n /\ s[i] # item /\ s[i] # after
      BY <1>1, <1>2, <1>3, <1>5, <1>6, <2>1
    <3>11. s[i] \in Items /\ h.prev[s[i]] = IF i = 1 THEN s[n] ELSE s[i - 1]
      BY <1>1, <3>1
    <3>2. h1.prev[w[i]] = IF i = 1 THEN s[n] ELSE s[i - 1]
      BY <1>8, <3>1, <3>11
    <3>3. i # 1 => w[i - 1] = s[i - 1]
      BY <1>3, <1>5, <2>1
    <3> QED BY <1>3, <2>0, <3>2, <3>3
  <2>2. CASE i = j
    <3>1. w[i] = item /\ h1.prev[item] = h.prev[after]
      BY <1>3, <1>5, <1>8, <2>2
    <3>2. j # 1 => w[i - 1] = s[j - 1]
      BY <1>3, <1>5, <2>2
    <3> QED BY <1>3, <1>5, <2>0, <2>2, <3>1, <3>2
  <2>3. CASE i = j + 1
    <3>1. w[i] = s[j] /\ w[i - 1] = item /\ i # 1
      BY <1>3, <1>5, <2>3
    <3> QED BY <1>2, <1>8, <3>1
  <2>4. CASE i > j + 1
    <3>1. w[i] = s[i - 1] /\ i - 1 \in 1 .. n /\ i - 1 # j /\ i - 1 # 1 /\ i # 1
      BY <1>3, <1>5, <2>4
    <3>2. s[i - 1] # after /\ s[i - 1] # item
      BY <1>1, <1>2, <1>5, <1>6, <3>1
    <3>3. h1.prev[w[i]] = s[(i - 1) - 1]
      <4>1. PICK x \in Items : x = s[i - 1] /\ x # after /\ x # item
        BY <1>1, <3>1, <3>2
      <4>2. h.prev[x] = s[(i - 1) - 1]
        BY <1>1, <3>1, <4>1
      <4>3. h1.prev[x] = h.prev[x]
        BY <1>8, <4>1
      <4> QED BY <3>1, <4>1, <4>2, <4>3
    <3>4. w[i - 1] = s[(i - 1) - 1]
      BY <1>3, <1>5, <2>4
    <3> QED BY <3>1, <3>3, <3>4
  <2> QED BY <1>5, <2>1, <2>2, <2>3, <2>4
<1>13. Linked(h1, p, w)
  BY <1>3, <1>10, <1>11, <1>12 DEF Linked
<1> QED BY <1>2, <1>3, <1>4, <1>8, <1>9, <1>13

(* cJSON_ReplaceItemViaPointer() links the list with the new item in its place. *)
LEMMA ReplaceLinks ==
  ASSUME NEW h \in Heap, NEW p \in Items, NEW s \in Seq(Items), Distinct(s),
         Linked(h, p, s), NEW j \in DOMAIN s, NEW new \in Items \ Elements_(s)
  PROVE  LET h1 == ReplaceItemViaPointer(h, p, s[j], new)
         IN  /\ h1 \in Heap /\ Linked(h1, p, Put(s, j, new)) /\ Alone(h1, s[j])
             /\ Elsewhere(h, h1, p, Elements_(s) \cup {new})
<1>0. PICK n \in Nat : Linked_(h, p, s, n)
  BY LinkedFacts
<1>1. /\ n = Len(s) /\ n >= 1 /\ DOMAIN s = 1 .. n
      /\ h.child[p] = s[1]
      /\ \A i \in 1 .. n : /\ s[i] \in Items /\ s[i] # NULL
                           /\ h.next[s[i]] = IF i = n THEN NULL ELSE s[i + 1]
                           /\ h.prev[s[i]] = IF i = 1 THEN s[n] ELSE s[i - 1]
      /\ \A i, k \in 1 .. n : i # k => s[i] # s[k]
  BY <1>0 DEF Linked_
<1>2. PICK item \in Items : item = s[j]
  BY <1>1
<1>3. PICK w \in Seq(Items) :
        /\ w = Put(s, j, new) /\ Len(w) = n /\ DOMAIN w = 1 .. n
        /\ \A i \in 1 .. n : w[i] = IF i = j THEN new ELSE s[i]
  <2>1. /\ Put(s, j, new) \in Seq(Items) /\ Len(Put(s, j, new)) = Len(s)
        /\ \A i \in DOMAIN s : Put(s, j, new)[i] = IF i = j THEN new ELSE s[i]
    BY DEF Put
  <2>2. n = Len(s) /\ DOMAIN s = 1 .. n
    BY <1>1
  <2> QED BY <2>1, <2>2
<1>4. PICK h1 : h1 = ReplaceItemViaPointer(h, p, item, new)
  OBVIOUS
<1>5. /\ j \in 1 .. n /\ item # new /\ item # NULL
      /\ h.next[item] = (IF j = n THEN NULL ELSE s[j + 1])
      /\ h.prev[item] = (IF j = 1 THEN s[n] ELSE s[j - 1])
      /\ h.prev[item] \in Items
      /\ (item = s[1] <=> j = 1) /\ (item = s[n] <=> j = n)
  BY <1>1, <1>2 DEF Elements_
<1>6. \A i \in 1 .. n : s[i] # new
  BY <1>1 DEF Elements_
<1>7. j # 1 => s[j - 1] \in Items /\ s[j - 1] # item /\ s[j - 1] # new /\ s[j - 1] # NULL
  BY <1>1, <1>2, <1>5, <1>6
<1>8. j # n => s[j + 1] \in Items /\ s[j + 1] # item /\ s[j + 1] # new /\ s[j + 1] # NULL
  BY <1>1, <1>2, <1>5, <1>6
<1>9. s[1] \in Items /\ s[1] # new
  BY <1>1, <1>6
<1>10. /\ h1 \in Heap
       /\ \A q \in Items : h1.child[q] = IF q = p /\ j = 1 THEN new ELSE h.child[q]
       /\ \A x \in Items :
            h1.next[x] = IF x = item THEN NULL ELSE IF x = new THEN h.next[item]
                         ELSE IF j # 1 /\ x = s[j - 1] THEN new ELSE h.next[x]
       /\ \A x \in Items :
            h1.prev[x] = IF x = item THEN NULL
                         ELSE IF x = new THEN IF n = 1 THEN new ELSE h.prev[item]
                         ELSE IF j # n /\ x = s[j + 1] THEN new
                         ELSE IF j # 1 /\ j = n /\ x = s[1] THEN new ELSE h.prev[x]
  <2> DEFINE a == [h EXCEPT !.next[new] = h.next[item], !.prev[new] = h.prev[item]]
             b == IF h.next[item] # NULL THEN [a EXCEPT !.prev[h.next[item]] = new] ELSE a
             d == IF b.prev[new] # NULL THEN [b EXCEPT !.next[b.prev[new]] = new] ELSE b
             c == IF b.child[p] = item
                  THEN [b EXCEPT !.child[p] = new,
                          !.prev[new] = IF b.prev[b.child[p]] = b.child[p] THEN new ELSE @]
                  ELSE IF h.next[item] = NULL THEN [d EXCEPT !.prev[b.child[p]] = new] ELSE d
  <2>1. h1 = [c EXCEPT !.next[item] = NULL, !.prev[item] = NULL]
    BY ONLY <1>4 DEF ReplaceItemViaPointer
  <2>2. a = [h EXCEPT !.next[new] = h.next[item], !.prev[new] = h.prev[item]]
    OBVIOUS
  <2> HIDE DEF a
  <2>3. b = IF h.next[item] # NULL THEN [a EXCEPT !.prev[h.next[item]] = new] ELSE a
    OBVIOUS
  <2> HIDE DEF b
  <2>4. c = IF b.child[p] = item
            THEN [b EXCEPT !.child[p] = new,
                    !.prev[new] = IF b.prev[b.child[p]] = b.child[p] THEN new ELSE @]
            ELSE IF h.next[item] = NULL THEN [d EXCEPT !.prev[b.child[p]] = new] ELSE d
    OBVIOUS
  <2> HIDE DEF c
  <2>5. /\ a \in Heap /\ a.child = h.child
        /\ \A x \in Items : /\ a.next[x] = IF x = new THEN h.next[item] ELSE h.next[x]
                            /\ a.prev[x] = IF x = new THEN h.prev[item] ELSE h.prev[x]
    BY <2>2 DEF Heap
  <2>6. /\ b \in Heap /\ b.child = h.child /\ b.next = a.next
        /\ \A x \in Items : b.prev[x] = IF j # n /\ x = s[j + 1] THEN new ELSE a.prev[x]
    <3>1. CASE j = n
      BY <1>5, <2>3, <2>5, <3>1
    <3>2. CASE j # n
      <4>1. b = [a EXCEPT !.prev[s[j + 1]] = new] /\ s[j + 1] \in Items
        BY <1>5, <1>8, <2>3, <3>2
      <4> QED BY <2>5, <3>2, <4>1 DEF Heap, Pointer
    <3> QED BY <3>1, <3>2
  <2>7. /\ c \in Heap
        /\ \A q \in Items : c.child[q] = IF q = p /\ j = 1 THEN new ELSE h.child[q]
        /\ \A x \in Items :
             /\ c.next[x] = IF j # 1 /\ x = s[j - 1] THEN new ELSE b.next[x]
             /\ c.prev[x] = IF j = 1 /\ j = n /\ x = new THEN new
                           ELSE IF j # 1 /\ j = n /\ x = s[1] THEN new ELSE b.prev[x]
    <3>1. CASE j = 1
      <4>1. b.child[p] = item /\ b.prev[item] = s[n]
        BY <1>1, <1>5, <1>8, <2>5, <2>6, <3>1
      <4>2. c = [b EXCEPT !.child[p] = new, !.prev[new] = IF j = n THEN new ELSE b.prev[new]]
        <5>1. c = [b EXCEPT !.child[p] = new, !.prev[new] = IF s[n] = item THEN new ELSE @]
          BY <2>4, <4>1
        <5>2. s[n] = item <=> j = n
          BY <1>5
        <5>3. CASE j = n
          BY <5>1, <5>2, <5>3
        <5>4. CASE j # n
          BY <5>1, <5>2, <5>4
        <5> QED BY <5>3, <5>4
      <4>3. b.prev[new] \in Pointer
        BY <2>6 DEF Heap
      <4> QED BY <2>6, <3>1, <4>2, <4>3 DEF Heap, Pointer
    <3>2. CASE j # 1
      <4>1. b.child[p] = s[1] /\ s[1] # item /\ b.prev[new] = s[j - 1]
        BY <1>1, <1>5, <1>8, <2>5, <2>6, <3>2
      <4>2. CASE j = n
        <5>1. c = [[b EXCEPT !.next[s[j - 1]] = new] EXCEPT !.prev[s[1]] = new]
          BY <1>5, <1>7, <2>4, <3>2, <4>1, <4>2
        <5> QED BY <1>7, <1>9, <2>6, <3>2, <4>2, <5>1 DEF Heap, Pointer
      <4>3. CASE j # n
        <5>1. c = [b EXCEPT !.next[s[j - 1]] = new]
          BY <1>5, <1>7, <1>8, <2>4, <3>2, <4>1, <4>3
        <5> QED BY <1>7, <2>6, <3>2, <4>3, <5>1 DEF Heap, Pointer
      <4> QED BY <4>2, <4>3
    <3> QED BY <3>1, <3>2
  <2>8. /\ h1 \in Heap /\ h1.child = c.child
        /\ \A x \in Items : /\ h1.next[x] = IF x = item THEN NULL ELSE c.next[x]
                            /\ h1.prev[x] = IF x = item THEN NULL ELSE c.prev[x]
    BY <2>1, <2>7 DEF Heap, Pointer
  <2>9. j = 1 /\ j = n <=> n = 1
    BY <1>1, <1>5
  <2>10. \A x \in Items : h1.next[x] = IF x = item THEN NULL ELSE IF x = new THEN h.next[item]
                         ELSE IF j # 1 /\ x = s[j - 1] THEN new ELSE h.next[x]
    BY <1>7, <2>5, <2>6, <2>7, <2>8
  <2>11. \A x \in Items :
            h1.prev[x] = IF x = item THEN NULL
                         ELSE IF x = new THEN IF n = 1 THEN new ELSE h.prev[item]
                         ELSE IF j # n /\ x = s[j + 1] THEN new
                         ELSE IF j # 1 /\ j = n /\ x = s[1] THEN new ELSE h.prev[x]
    BY <1>8, <1>9, <2>5, <2>6, <2>7, <2>8, <2>9
  <2> QED BY <2>7, <2>8, <2>10, <2>11
<1>11. Alone(h1, item)
  BY <1>10 DEF Alone
<1>12. Elsewhere(h, h1, p, Elements_(s) \cup {new})
  <2>1. \A i \in 1 .. n : s[i] \in Elements_(s)
    BY <1>1 DEF Elements_
  <2>2. \A x \in Items \ (Elements_(s) \cup {new}) :
          x # item /\ x # new /\ (j # 1 => x # s[j - 1]) /\ (j # n => x # s[j + 1]) /\ x # s[1]
    BY <1>1, <1>2, <1>5, <2>1
  <2> QED BY <1>10, <2>2 DEF Elsewhere
<1>13. w # <<>> /\ h1.child[p] = w[1]
  BY <1>1, <1>3, <1>5, <1>10
<1>14. ASSUME NEW i \in 1 .. n
       PROVE  h1.next[w[i]] = IF i = n THEN NULL ELSE w[i + 1]
  <2>1. CASE i = j
    BY <1>3, <1>5, <1>10, <2>1
  <2>2. CASE i # j
    <3>1. w[i] = s[i] /\ s[i] # item /\ s[i] # new /\ s[i] \in Items
      BY <1>1, <1>2, <1>3, <1>5, <1>6, <2>2
    <3>2. CASE i = j - 1
      BY <1>3, <1>5, <1>10, <3>1, <3>2
    <3>3. CASE i # j - 1
      <4>1. j # 1 => s[i] # s[j - 1]
        BY <1>1, <1>5, <3>3
      <4>2. h1.next[w[i]] = IF i = n THEN NULL ELSE s[i + 1]
        BY <1>1, <1>10, <3>1, <4>1
      <4>3. i # n => w[i + 1] = s[i + 1]
        BY <1>3, <1>5, <3>3
      <4> QED BY <4>2, <4>3
    <3> QED BY <3>2, <3>3
  <2> QED BY <2>1, <2>2
<1>15. ASSUME NEW i \in 1 .. n
       PROVE  h1.prev[w[i]] = IF i = 1 THEN w[n] ELSE w[i - 1]
  <2>1. CASE i = j
    <3>1. w[i] = new /\ h1.prev[new] = IF n = 1 THEN new ELSE h.prev[item]
      BY <1>3, <1>5, <1>10, <2>1
    <3>2. i # 1 => w[i - 1] = s[j - 1]
      BY <1>3, <1>5, <2>1
    <3>3. w[n] = IF j = n THEN new ELSE s[n]
      BY <1>1, <1>3
    <3> QED BY <1>5, <2>1, <3>1, <3>2, <3>3
  <2>2. CASE i = j + 1
    <3>1. w[i] = s[j + 1] /\ j # n /\ w[i - 1] = new /\ i # 1
      BY <1>3, <1>5, <2>2
    <3> QED BY <1>8, <1>10, <3>1
  <2>3. CASE i # j /\ i # j + 1
    <3>1. w[i] = s[i] /\ s[i] # item /\ s[i] # new /\ s[i] \in Items
      BY <1>1, <1>2, <1>3, <1>5, <1>6, <2>3
    <3>2. j # n => s[i] # s[j + 1]
      BY <1>1, <1>5, <2>3
    <3>3. CASE i = 1
      <4>1. w[n] = IF j = n THEN new ELSE s[n]
        BY <1>1, <1>3
      <4>2. h.prev[s[i]] = s[n]
        BY <1>1, <3>3
      <4> QED BY <1>10, <2>3, <3>1, <3>2, <3>3, <4>1, <4>2
    <3>4. CASE i # 1
      <4>1. s[i] # s[1]
        BY <1>1, <3>4
      <4>11. h.prev[s[i]] = s[i - 1]
        BY <1>1, <3>4
      <4>2. h1.prev[w[i]] = s[i - 1]
        BY <1>10, <2>3, <3>1, <3>2, <4>1, <4>11
      <4>3. w[i - 1] = s[i - 1]
        BY <1>3, <1>5, <2>3, <3>4
      <4> QED BY <3>4, <4>2, <4>3
    <3> QED BY <3>3, <3>4
  <2> QED BY <2>1, <2>2, <2>3
<1>16. Linked(h1, p, w)
  BY <1>3, <1>13, <1>14, <1>15 DEF Linked
<1> QED BY <1>2, <1>3, <1>4, <1>10, <1>11, <1>12, <1>16
-----------------------------------------------------------------------------

(* The pointers are the lists, a reference of O points where that item does, *)
(* and nobody is before or after what is held.                               *)
Pointing(h, K, L, H, R, O) ==
  /\ h \in Heap /\ O \in [Items -> Pointer]
  /\ \A p \in L \ R : Linked(h, p, K[p])
  /\ \A r \in R : O[r] \in L \ R /\ h.child[r] = h.child[O[r]]
  /\ \A i \in H : Alone(h, i)

Tree(h, K, L, H, R, O) == Forest(K, L, H, R) /\ Pointing(h, K, L, H, R, O)

(* A list is linked as long as its pointers are left alone.                  *)
LEMMA LinkedSame ==
  ASSUME NEW h, NEW h1, NEW p, NEW s, Linked(h, p, s), h1.child[p] = h.child[p],
         \A x \in Elements_(s) : h1.next[x] = h.next[x] /\ h1.prev[x] = h.prev[x]
  PROVE  Linked(h1, p, s)
BY DEF Linked, Elements_

(* One list is changed, as SetList has it.                                   *)
LEMMA SetPointers ==
  ASSUME NEW h, NEW K, NEW L, NEW H, NEW R, NEW O, Tree(h, K, L, H, R, O),
         NEW p \in L \ R, \A r \in R : O[r] # p,
         NEW s \in Seq(Items), Elements_(s) \subseteq Elements_(K[p]) \cup H,
         NEW h1 \in Heap, Linked(h1, p, s),
         Elsewhere(h, h1, p, Elements_(K[p]) \cup Elements_(s)),
         \A x \in Elements_(K[p]) \ Elements_(s) : Alone(h1, x)
  PROVE  Pointing(h1, [K EXCEPT ![p] = s], L, (H \cup Elements_(K[p])) \ Elements_(s), R, O)
<1> DEFINE K1 == [K EXCEPT ![p] = s]
<1> USE DEF Tree, Pointing
<1>1. /\ K \in [Items -> Seq(Items)] /\ L \subseteq Items /\ H \subseteq L /\ R \subseteq L
      /\ \A x \in Items : Elements_(K[x]) \subseteq L \ H
  BY DEF Forest, ForestTypeOK, ChildrenOwned
<1>2. \A x, y \in Items : \A z : z \in Elements_(K[x]) /\ z \in Elements_(K[y]) => x = y
  BY DEF Forest, OnePlace, Elements_
<1>3. K1[p] = s /\ \A x \in Items : x # p => K1[x] = K[x]
  BY <1>1
<1> HIDE DEF K1
<1>4. ASSUME NEW q \in L \ R PROVE Linked(h1, q, K1[q])
  <2>1. CASE q = p
    BY <1>3, <2>1
  <2>2. CASE q # p
    <3>1. /\ q \in Items /\ Linked(h, q, K[q]) /\ K1[q] = K[q]
          /\ h1.child[q] = h.child[q]
      BY <1>1, <1>3, <2>2 DEF Elsewhere
    <3>2. \A x \in Elements_(K[q]) :
            x \in Items /\ x \notin Elements_(K[p]) /\ x \notin Elements_(s)
      BY <1>1, <1>2, <2>2, <3>1
    <3>3. \A x \in Elements_(K[q]) : h1.next[x] = h.next[x] /\ h1.prev[x] = h.prev[x]
      BY <3>2 DEF Elsewhere
    <3> QED BY <3>1, <3>3, LinkedSame
  <2> QED BY <2>1, <2>2
<1>5. ASSUME NEW r \in R PROVE O[r] \in L \ R /\ h1.child[r] = h1.child[O[r]]
  <2>1. r \in Items /\ r # p /\ O[r] \in Items /\ O[r] # p
    BY <1>1
  <2> QED BY <2>1 DEF Elsewhere
<1>6. ASSUME NEW i \in (H \cup Elements_(K[p])) \ Elements_(s) PROVE Alone(h1, i)
  <2>1. CASE i \in Elements_(K[p])
    BY <1>6, <2>1
  <2>2. CASE i \notin Elements_(K[p])
    BY <1>1, <1>6, <2>2 DEF Elsewhere, Alone
  <2> QED BY <2>1, <2>2
<1>7. O \in [Items -> Pointer]
  OBVIOUS
<1>8. Pointing(h1, K1, L, (H \cup Elements_(K[p])) \ Elements_(s), R, O)
  BY ONLY <1>4, <1>5, <1>6, <1>7, h1 \in Heap DEF Pointing
<1> QED BY <1>8 DEF K1

(* New items point nowhere, the others as before.                            *)
LEMMA ClearedIs ==
  ASSUME NEW h \in Heap, NEW S
  PROVE  /\ Cleared(h, S) \in Heap
         /\ \A x \in Items : /\ Cleared(h, S).child[x] = IF x \in S THEN NULL ELSE h.child[x]
                             /\ Cleared(h, S).next[x] = IF x \in S THEN NULL ELSE h.next[x]
                             /\ Cleared(h, S).prev[x] = IF x \in S THEN NULL ELSE h.prev[x]
BY DEF Cleared, Heap, Pointer

(* A root is freed, as FreeRoot has it.                                      *)
Nulled(O, A) == [i \in Items |-> IF i \in A THEN NULL ELSE O[i]]

(* Items that are freed take no pointer of the others with them.             *)
LEMMA FreePointers ==
  ASSUME NEW h, NEW K, NEW L, NEW H, NEW R, NEW O, Tree(h, K, L, H, R, O),
         NEW item \in H, NEW A, A \subseteq L, OneRoot(A, H, item),
         CutOff(K, A), \A r \in R \ A : O[r] \notin A
  PROVE  Pointing(Cleared(h, A), Emptied(K, A), L \ A, H \ {item}, R \ A, Nulled(O, A))
<1> DEFINE K1 == Emptied(K, A)
           O1 == Nulled(O, A)
<1> USE DEF Tree, Pointing, CutOff, OneRoot
<1>1. /\ K \in [Items -> Seq(Items)] /\ L \subseteq Items /\ H \subseteq L /\ R \subseteq L
      /\ \A x \in Items : Elements_(K[x]) \subseteq L \ H
  BY DEF Forest, ForestTypeOK, ChildrenOwned
<1>2. PICK h1 \in Heap : h1 = Cleared(h, A)
  BY ClearedIs
<1>3. \A x \in Items : /\ h1.child[x] = IF x \in A THEN NULL ELSE h.child[x]
                       /\ h1.next[x] = IF x \in A THEN NULL ELSE h.next[x]
                       /\ h1.prev[x] = IF x \in A THEN NULL ELSE h.prev[x]
  BY <1>2, ClearedIs
<1>4. O1 \in [Items -> Pointer] /\ \A i \in Items \ A : O1[i] = O[i] /\ K1[i] = K[i]
  BY DEF Pointer, Emptied, Nulled
<1> HIDE DEF K1, O1
<1>5. ASSUME NEW q \in (L \ A) \ (R \ A) PROVE Linked(h1, q, K1[q])
  <2>1. /\ q \in Items \ A /\ Linked(h, q, K[q]) /\ K1[q] = K[q] /\ h1.child[q] = h.child[q]
    BY <1>1, <1>3, <1>4
  <2>2. \A x \in Elements_(K[q]) : h1.next[x] = h.next[x] /\ h1.prev[x] = h.prev[x]
    BY <1>1, <1>3, <2>1
  <2> QED BY <2>1, <2>2, LinkedSame
<1>6. ASSUME NEW r \in R \ A PROVE O1[r] \in (L \ A) \ (R \ A) /\ h1.child[r] = h1.child[O1[r]]
  <2>1. r \in Items \ A /\ O1[r] = O[r] /\ O[r] \in L \ R /\ O[r] \notin A
    BY <1>1, <1>4
  <2> QED BY <1>1, <1>3, <2>1
<1>7. ASSUME NEW i \in H \ {item} PROVE Alone(h1, i)
  BY <1>1, <1>3 DEF Alone
<1>8. Pointing(h1, K1, L \ A, H \ {item}, R \ A, O1)
  BY ONLY <1>4, <1>5, <1>6, <1>7, h1 \in Heap DEF Pointing
<1> QED BY <1>2, <1>8 DEF K1, O1

(* New items, as NewRoot has them.                                           *)
NewLinks(h, h1, K1, N, item) ==
  /\ h1 \in Heap
  /\ \A x \in Items \ N : /\ h1.child[x] = h.child[x] /\ h1.next[x] = h.next[x]
                          /\ h1.prev[x] = h.prev[x]
  /\ \A x \in N : Linked(h1, x, K1[x])
  /\ Alone(h1, item)

(* New items that are linked soundly leave all pointers sound.               *)
LEMMA NewPointers ==
  ASSUME NEW h, NEW K, NEW L, NEW H, NEW R, NEW O, Tree(h, K, L, H, R, O),
         NEW N \in SUBSET (Items \ L), NEW item \in N, NEW K1,
         \A x \in Items \ N : K1[x] = K[x], NEW h1, NewLinks(h, h1, K1, N, item)
  PROVE  Pointing(h1, K1, L \cup N, H \cup {item}, R, O)
<1> USE DEF NewLinks
<1> USE DEF Tree, Pointing
<1>1. /\ K \in [Items -> Seq(Items)] /\ L \subseteq Items /\ H \subseteq L /\ R \subseteq L
      /\ \A x \in Items : Elements_(K[x]) \subseteq L \ H
  BY DEF Forest, ForestTypeOK, ChildrenOwned
<1>2. ASSUME NEW q \in (L \cup N) \ R PROVE Linked(h1, q, K1[q])
  <2>1. CASE q \in N
    BY <2>1
  <2>2. CASE q \notin N
    <3>1. q \in Items \ N /\ Linked(h, q, K[q]) /\ K1[q] = K[q] /\ h1.child[q] = h.child[q]
      BY <1>1, <2>2
    <3>2. \A x \in Elements_(K[q]) : h1.next[x] = h.next[x] /\ h1.prev[x] = h.prev[x]
      BY <1>1, <3>1
    <3> QED BY <3>1, <3>2, LinkedSame
  <2> QED BY <2>1, <2>2
<1>3. ASSUME NEW r \in R PROVE O[r] \in (L \cup N) \ R /\ h1.child[r] = h1.child[O[r]]
  <2>1. r \in Items \ N /\ O[r] \in Items \ N /\ O[r] \in L \ R
    BY <1>1
  <2> QED BY <2>1
<1>4. ASSUME NEW i \in H \cup {item} PROVE Alone(h1, i)
  <2>1. CASE i = item
    BY <2>1
  <2>2. CASE i # item
    BY <1>1, <2>2 DEF Alone
  <2> QED BY <2>1, <2>2
<1>5. O \in [Items -> Pointer]
  OBVIOUS
<1> QED BY ONLY <1>2, <1>3, <1>4, <1>5, h1 \in Heap DEF Pointing

(* Both parts of the invariant for new items.                                *)
LEMMA NewTree ==
  ASSUME NEW h, NEW K, NEW L, NEW H, NEW R, NEW O, Tree(h, K, L, H, R, O),
         NEW N \in SUBSET (Items \ L), NEW item \in N, NEW K1, NewNodes(K, K1, N, item),
         NEW h1, NewLinks(h, h1, K1, N, item)
  PROVE  Tree(h1, K1, L \cup N, H \cup {item}, R, O)
<1>1. Forest(K1, L \cup N, H \cup {item}, R)
  BY NewRoot DEF Tree
<1>2. \A x \in Items \ N : K1[x] = K[x]
  BY DEF NewNodes
<1>3. Pointing(h1, K1, L \cup N, H \cup {item}, R, O)
  BY <1>2, NewPointers
<1> QED BY <1>1, <1>3 DEF Tree

(* What a tree says of one list.                                             *)
LEMMA ListOf ==
  ASSUME NEW h, NEW K, NEW L, NEW H, NEW R, NEW O, Tree(h, K, L, H, R, O), NEW p \in L \ R
  PROVE  /\ h \in Heap /\ p \in Items /\ K \in [Items -> Seq(Items)] /\ H \subseteq Items
         /\ K[p] \in Seq(Items) /\ Distinct(K[p]) /\ Linked(h, p, K[p])
         /\ Elements_(K[p]) \subseteq L /\ Elements_(K[p]) \cap H = {}
         /\ \A i \in DOMAIN K[p] : K[p][i] \in Elements_(K[p])
<1> USE DEF Tree, Forest, ForestTypeOK, Pointing
<1>1. p \in Items /\ K[p] \in Seq(Items) /\ Linked(h, p, K[p])
  OBVIOUS
<1>2. Distinct(K[p])
  BY <1>1 DEF OnePlace, Distinct
<1>3. Elements_(K[p]) \subseteq L \ H
  BY <1>1 DEF ChildrenOwned
<1>4. \A i \in DOMAIN K[p] : K[p][i] \in Elements_(K[p])
  BY DEF Elements_
<1> QED BY <1>1, <1>2, <1>3, <1>4

(* An item that is held is given to a list that it does not lead to, ...     *)
LEMMA GiveAppend ==
  ASSUME NEW h, NEW K, NEW L, NEW H, NEW R, NEW O, Tree(h, K, L, H, R, O),
         NEW p \in L \ R, \A r \in R : O[r] # p, NEW item \in H,
         NEW A \in SUBSET Items, Closed(K, A), item \in A, p \notin A
  PROVE  Tree(add_item_to_array(h, p, item), [K EXCEPT ![p] = Append(@, item)],
              L, H \ {item}, R, O)
<1> DEFINE s == K[p]
<1>1. /\ h \in Heap /\ p \in Items /\ s \in Seq(Items) /\ Distinct(s) /\ Linked(h, p, s)
      /\ Elements_(s) \cap H = {} /\ H \subseteq Items
  BY ListOf
<1>2. item \in Items \ Elements_(s) /\ Alone(h, item)
  BY <1>1 DEF Tree, Pointing
<1> HIDE DEF s
<1>3. PICK w \in Seq(Items) :
        w = Append(s, item) /\ Distinct(w) /\ Elements_(w) = Elements_(s) \cup {item}
  BY <1>1, <1>2, AppendElements
<1>4. PICK h1 \in Heap :
        /\ h1 = add_item_to_array(h, p, item) /\ Linked(h1, p, w)
        /\ Elsewhere(h, h1, p, Elements_(s) \cup {item})
  BY <1>1, <1>2, <1>3, AppendLinks
<1>5. (H \cup Elements_(s)) \ Elements_(w) = H \ {item}
  BY <1>1, <1>3
<1>6. Elements_(s) \cup Elements_(w) = Elements_(s) \cup {item}
  BY <1>3
<1>7. Forest([K EXCEPT ![p] = w], L, H \ {item}, R)
  <2>1. Forest(K, L, H, R) /\ Elements_(w) \subseteq Elements_(s) \cup H /\ Elements_(w) \ Elements_(s) \subseteq A
    BY <1>3 DEF Tree
  <2> QED BY <1>3, <1>5, <2>1, SetList DEF s
<1>8. Pointing(h1, [K EXCEPT ![p] = w], L, H \ {item}, R, O)
  <2>1. Elements_(w) \subseteq Elements_(s) \cup H /\ Elements_(s) \ Elements_(w) = {}
    BY <1>3
  <2> QED BY <1>4, <1>5, <1>6, <2>1, SetPointers DEF s
<1>9. [K EXCEPT ![p] = Append(@, item)] = [K EXCEPT ![p] = w]
  BY <1>3 DEF s
<1> QED BY <1>4, <1>7, <1>8, <1>9 DEF Tree

(* A held root goes into a list, before an element of it.                    *)
LEMMA GiveInsert ==
  ASSUME NEW h, NEW K, NEW L, NEW H, NEW R, NEW O, Tree(h, K, L, H, R, O),
         NEW p \in L \ R, \A r \in R : O[r] # p, NEW item \in H,
         NEW A \in SUBSET Items, Closed(K, A), item \in A, p \notin A,
         NEW j \in DOMAIN K[p]
  PROVE  Tree(InsertBefore(h, p, K[p][j], item), [K EXCEPT ![p] = With(@, j, item)],
              L, H \ {item}, R, O)
<1> DEFINE s == K[p]
<1>1. /\ h \in Heap /\ p \in Items /\ s \in Seq(Items) /\ Distinct(s) /\ Linked(h, p, s)
      /\ Elements_(s) \cap H = {} /\ H \subseteq Items
  BY ListOf
<1>2. item \in Items \ Elements_(s)
  BY <1>1
<1>0. j \in DOMAIN s
  OBVIOUS
<1> HIDE DEF s
<1>3. PICK w \in Seq(Items) :
        w = With(s, j, item) /\ Distinct(w) /\ Elements_(w) = Elements_(s) \cup {item}
  <2>1. j \in 1 .. Len(s) + 1
    BY <1>0, <1>1
  <2>2. WithAt(With(s, j, item), s, j, item)
    BY <1>1, <1>2, <2>1, WithIs
  <2> QED BY <1>1, <1>2, <2>1, <2>2, WithElements DEF WithAt
<1>4. PICK h1 \in Heap :
        /\ h1 = InsertBefore(h, p, s[j], item) /\ Linked(h1, p, w)
        /\ Elsewhere(h, h1, p, Elements_(s) \cup {item})
  BY <1>0, <1>1, <1>2, <1>3, InsertLinks, Zenon
<1>5. (H \cup Elements_(s)) \ Elements_(w) = H \ {item}
  BY <1>1, <1>3
<1>6. Elements_(s) \cup Elements_(w) = Elements_(s) \cup {item}
  BY <1>3
<1>7. Forest([K EXCEPT ![p] = w], L, H \ {item}, R)
  <2>1. Forest(K, L, H, R) /\ Elements_(w) \subseteq Elements_(s) \cup H /\ Elements_(w) \ Elements_(s) \subseteq A
    BY <1>3 DEF Tree
  <2> QED BY <1>3, <1>5, <2>1, SetList DEF s
<1>8. Pointing(h1, [K EXCEPT ![p] = w], L, H \ {item}, R, O)
  <2>1. Elements_(w) \subseteq Elements_(s) \cup H /\ Elements_(s) \ Elements_(w) = {}
    BY <1>3
  <2> QED BY <1>4, <1>5, <1>6, <2>1, SetPointers DEF s
<1>9. [K EXCEPT ![p] = With(@, j, item)] = [K EXCEPT ![p] = w]
  BY <1>3 DEF s
<1> QED BY <1>4, <1>7, <1>8, <1>9 DEF Tree, s

(* ... taken from one, and put into the place of another.                    *)
LEMMA TakeOut ==
  ASSUME NEW h, NEW K, NEW L, NEW H, NEW R, NEW O, Tree(h, K, L, H, R, O),
         NEW p \in L \ R, \A r \in R : O[r] # p, NEW j \in DOMAIN K[p]
  PROVE  Tree(DetachItemViaPointer(h, p, K[p][j]), [K EXCEPT ![p] = Without(@, j)],
              L, H \cup {K[p][j]}, R, O)
<1> DEFINE s == K[p]
<1>1. /\ h \in Heap /\ p \in Items /\ s \in Seq(Items) /\ Distinct(s) /\ Linked(h, p, s)
      /\ Elements_(s) \cap H = {} /\ H \subseteq Items
  BY ListOf
<1>2. j \in DOMAIN s /\ s[j] \in Elements_(s)
  BY ListOf
<1> HIDE DEF s
<1>3. PICK w \in Seq(Items) :
        w = Without(s, j) /\ Distinct(w) /\ Elements_(w) = Elements_(s) \ {s[j]}
  BY <1>1, <1>2, WithoutIs, WithoutElements
<1>4. PICK h1 \in Heap :
        /\ h1 = DetachItemViaPointer(h, p, s[j]) /\ Linked(h1, p, w) /\ Alone(h1, s[j])
        /\ Elsewhere(h, h1, p, Elements_(s))
  BY <1>1, <1>2, <1>3, DetachLinks
<1>5. (H \cup Elements_(s)) \ Elements_(w) = H \cup {s[j]}
  BY <1>1, <1>2, <1>3
<1>6. Elements_(s) \cup Elements_(w) = Elements_(s)
  BY <1>3
<1>7. Forest([K EXCEPT ![p] = w], L, H \cup {s[j]}, R)
  <2>1. Forest(K, L, H, R) /\ Elements_(w) \subseteq Elements_(s) \cup H /\ Elements_(w) \ Elements_(s) \subseteq {}
    BY <1>3 DEF Tree
  <2>2. Closed(K, {}) /\ {} \in SUBSET Items /\ p \notin {}
    BY DEF Closed
  <2> QED BY <1>3, <1>5, <2>1, <2>2, SetList DEF s
<1>8. Pointing(h1, [K EXCEPT ![p] = w], L, H \cup {s[j]}, R, O)
  <2>1. Elements_(w) \subseteq Elements_(s) \cup H /\ Elements_(s) \ Elements_(w) = {s[j]}
    BY <1>2, <1>3
  <2> QED BY <1>4, <1>5, <1>6, <2>1, SetPointers DEF s
<1>9. [K EXCEPT ![p] = Without(@, j)] = [K EXCEPT ![p] = w]
  BY <1>3 DEF s
<1> QED BY <1>4, <1>7, <1>8, <1>9 DEF Tree, s

(* A held root takes the place of an element, which is held from then on.    *)
LEMMA Swap ==
  ASSUME NEW h, NEW K, NEW L, NEW H, NEW R, NEW O, Tree(h, K, L, H, R, O),
         NEW p \in L \ R, \A r \in R : O[r] # p, NEW new \in H,
         NEW A \in SUBSET Items, Closed(K, A), new \in A, p \notin A,
         NEW j \in DOMAIN K[p]
  PROVE  Tree(ReplaceItemViaPointer(h, p, K[p][j], new), [K EXCEPT ![p][j] = new],
              L, (H \ {new}) \cup {K[p][j]}, R, O)
<1> DEFINE s == K[p]
<1>1. /\ h \in Heap /\ p \in Items /\ s \in Seq(Items) /\ Distinct(s) /\ Linked(h, p, s)
      /\ Elements_(s) \cap H = {} /\ H \subseteq Items
  BY ListOf
<1>2. j \in DOMAIN s /\ s[j] \in Elements_(s) /\ new \in Items \ Elements_(s)
  BY <1>1, ListOf
<1> HIDE DEF s
<1>3. PICK w \in Seq(Items) :
        w = Put(s, j, new) /\ Distinct(w) /\ Elements_(w) = (Elements_(s) \ {s[j]}) \cup {new}
  BY <1>1, <1>2, ExceptElements
<1>4. PICK h1 \in Heap :
        /\ h1 = ReplaceItemViaPointer(h, p, s[j], new) /\ Linked(h1, p, w) /\ Alone(h1, s[j])
        /\ Elsewhere(h, h1, p, Elements_(s) \cup {new})
  BY <1>1, <1>2, <1>3, ReplaceLinks
<1>5. (H \cup Elements_(s)) \ Elements_(w) = (H \ {new}) \cup {s[j]}
  BY <1>1, <1>2, <1>3
<1>6. Elements_(s) \cup Elements_(w) = Elements_(s) \cup {new}
  BY <1>3
<1>7. Forest([K EXCEPT ![p] = w], L, (H \ {new}) \cup {s[j]}, R)
  <2>1. Forest(K, L, H, R) /\ Elements_(w) \subseteq Elements_(s) \cup H /\ Elements_(w) \ Elements_(s) \subseteq A
    BY <1>3 DEF Tree
  <2>2. Forest([K EXCEPT ![p] = w], L, (H \cup Elements_(K[p])) \ Elements_(w), R)
    BY <1>3, <2>1, SetList DEF s
  <2> QED BY <1>5, <2>2 DEF s
<1>8. Pointing(h1, [K EXCEPT ![p] = w], L, (H \ {new}) \cup {s[j]}, R, O)
  <2>1. Elements_(w) \subseteq Elements_(s) \cup H /\ Elements_(s) \ Elements_(w) = {s[j]}
    BY <1>2, <1>3
  <2> QED BY <1>4, <1>5, <1>6, <2>1, SetPointers DEF s
<1>9. [K EXCEPT ![p][j] = new] = [K EXCEPT ![p] = w]
  BY <1>3 DEF s, Put
<1> QED BY <1>4, <1>7, <1>8, <1>9 DEF Tree, s
-----------------------------------------------------------------------------

(* The inductive invariant.                                                  *)
TreeInv == Tree(m, kids, live, held, ref, of)

(* A list without repetition is no longer than the number of items.          *)
LEMMA LenBound ==
  ASSUME NEW s \in Seq(Items), Distinct(s)
  PROVE  Cardinality(Items) \in Nat /\ Len(s) <= Cardinality(Items)
<1> DEFINE n == Len(s)
<1>1. n \in Nat /\ DOMAIN s = 1 .. n /\ s \in [1 .. n -> Items]
  OBVIOUS
<1>2. Cardinality(Items) \in Nat /\ IsFiniteSet(Items)
  BY ItemsAssumption, FS_CardinalityType
<1> HIDE DEF n
<1>3. IsFiniteSet(1 .. n) /\ Cardinality(1 .. n) = n
  BY <1>1, FS_Interval
<1>4. ~(Cardinality(Items) < Cardinality(1 .. n))
  <2> SUFFICES ASSUME Cardinality(Items) < Cardinality(1 .. n) PROVE FALSE
    OBVIOUS
  <2>1. \E x, y \in 1 .. n : x # y /\ s[x] = s[y]
    BY <1>1, <1>2, <1>3, FS_PigeonHole
  <2> QED BY <1>1, <2>1 DEF Distinct
<1> QED BY <1>1, <1>2, <1>3, <1>4 DEF n

(* The children that are read from an item: a reference has those of another.*)
KidsOf(x) == IF x \in ref THEN kids[of[x]] ELSE kids[x]

(* The children an item shows, which for a reference are another's.          *)
LEMMA KidsOfIs ==
  ASSUME TreeInv, NEW p \in live
  PROVE  /\ m \in Heap /\ p \in Items /\ KidsOf(p) \in Seq(Items) /\ Distinct(KidsOf(p))
         /\ Linked(m, p, KidsOf(p)) /\ Elements_(KidsOf(p)) \subseteq live
<1>1. m \in Heap /\ p \in Items
  BY DEF TreeInv, Tree, Pointing, Forest, ForestTypeOK
<1>2. CASE p \in ref
  <2>1. of[p] \in live \ ref /\ m.child[p] = m.child[of[p]] /\ KidsOf(p) = kids[of[p]]
    BY <1>2 DEF TreeInv, Tree, Pointing, KidsOf
  <2>2. /\ kids[of[p]] \in Seq(Items) /\ Distinct(kids[of[p]]) /\ Linked(m, of[p], kids[of[p]])
        /\ Elements_(kids[of[p]]) \subseteq live
    BY <2>1, ListOf DEF TreeInv
  <2>3. Linked(m, p, kids[of[p]])
    BY <2>1, <2>2 DEF Linked
  <2> QED BY <1>1, <2>1, <2>2, <2>3
<1>3. CASE p \notin ref
  <2>1. p \in live \ ref /\ KidsOf(p) = kids[p]
    BY <1>3 DEF KidsOf
  <2> QED BY <1>1, <2>1, ListOf DEF TreeInv
<1> QED BY <1>2, <1>3

(* get_array_item() finds the item at its place in the list.                 *)
LEMMA WalksList ==
  ASSUME TreeInv, NEW p \in live, NEW k \in Nat
  PROVE  get_array_item(p, k) = IF k < Len(KidsOf(p)) THEN KidsOf(p)[k + 1] ELSE NULL
<1> DEFINE at(i) == get_array_item(p, i)
<1>1. PICK s \in Seq(Items) : s = KidsOf(p) /\ Distinct(s) /\ Linked(m, p, s)
  BY KidsOfIs
<1>2. m \in Heap /\ p \in Items /\ \A i \in DOMAIN s : s[i] # NULL
  BY KidsOfIs, ItemsAssumption
<1>3. /\ at(0) = m.child[p]
      /\ \A i \in Nat : at(i + 1) = IF at(i) = NULL THEN NULL ELSE m.next[at(i)]
  BY <1>2, get_array_item_steps DEF Heap
<1> HIDE DEF at
<1> DEFINE V == {i \in Nat : at(i) = IF i < Len(s) THEN s[i + 1] ELSE NULL}
<1>4. 0 \in V
  BY <1>1, <1>3 DEF Linked
<1>5. ASSUME NEW i \in Nat, i \in V PROVE i + 1 \in V
  <2>1. CASE i < Len(s)
    <3>1. i + 1 \in DOMAIN s /\ at(i) = s[i + 1]
      BY <1>5, <2>1
    <3>2. m.next[s[i + 1]] = IF i + 1 = Len(s) THEN NULL ELSE s[(i + 1) + 1]
      BY <1>1, <3>1 DEF Linked
    <3>3. at(i + 1) = IF i + 1 = Len(s) THEN NULL ELSE s[(i + 1) + 1]
      BY <1>2, <1>3, <3>1, <3>2
    <3> QED BY <2>1, <3>3
  <2>2. CASE ~(i < Len(s))
    BY <1>3, <1>5, <2>2
  <2> QED BY <2>1, <2>2
<1>6. k \in V
  <2> HIDE DEF V
  <2> QED BY <1>4, <1>5, SetInduction
<1> QED BY <1>1, <1>6 DEF at

(* cJSON_GetArraySize() is the length of the list.                           *)
LEMMA ArraySizeIs ==
  ASSUME TreeInv, NEW p \in live
  PROVE  cJSON_GetArraySize(p) = Len(KidsOf(p)) /\ Len(KidsOf(p)) \in Many
<1> DEFINE s == KidsOf(p)
           n == Len(s)
           Is(l) == /\ get_array_item(p, l) = NULL
                    /\ \A k \in 0 .. l - 1 : get_array_item(p, k) # NULL
<1>1. s \in Seq(Items) /\ \A i \in DOMAIN s : s[i] # NULL
  BY KidsOfIs, ItemsAssumption
<1>2. n \in Nat /\ n \in Many
  BY <1>1, KidsOfIs, LenBound DEF Many
<1>3. \A k \in Nat : get_array_item(p, k) = IF k < n THEN s[k + 1] ELSE NULL
  BY WalksList
<1>4. \A k \in Nat : k < n => get_array_item(p, k) # NULL
  <2> SUFFICES ASSUME NEW k \in Nat, k < n PROVE s[k + 1] # NULL
    BY <1>3
  <2>1. k + 1 \in DOMAIN s
    BY <1>1
  <2> QED BY <1>1, <2>1
<1> HIDE DEF n, s
<1>5. Is(n)
  BY <1>2, <1>3, <1>4
<1>6. \A l \in Many : Is(l) => l = n
  <2> SUFFICES ASSUME NEW l \in Many, Is(l) PROVE l = n
    OBVIOUS
  <2>1. l \in Nat
    BY ItemsAssumption, FS_CardinalityType DEF Many
  <2>2. ~(l < n)
    BY <1>4, <2>1
  <2>3. ~(n < l)
    BY <1>2, <1>3, <2>1
  <2> QED BY <1>2, <2>1, <2>2, <2>3
<1>7. (CHOOSE l \in Many : Is(l)) = n
  <2> HIDE DEF Is
  <2> QED BY <1>2, <1>5, <1>6
<1>8. cJSON_GetArraySize(p) = n
  BY <1>7 DEF cJSON_GetArraySize
<1> QED BY <1>2, <1>8 DEF n, s

(* Every set of numbers that is not empty has a least one.                   *)
LEMMA LeastOfSet ==
  ASSUME NEW S \in SUBSET Nat, S # {}
  PROVE  \E k \in S : \A j \in S : k <= j
<1> SUFFICES ASSUME \A k \in S : \E j \in S : ~(k <= j) PROVE FALSE
  OBVIOUS
<1> DEFINE T == {n \in Nat : \A j \in 0 .. n : j \notin S}
<1>1. 0 \in T
  <2>1. 0 \notin S
    OBVIOUS
  <2> QED BY <2>1
<1>2. ASSUME NEW n \in Nat, n \in T PROVE n + 1 \in T
  <2>1. n + 1 \notin S
    <3> SUFFICES ASSUME n + 1 \in S PROVE FALSE
      OBVIOUS
    <3>1. PICK j \in S : ~(n + 1 <= j)
      OBVIOUS
    <3>2. j \in 0 .. n
      BY <3>1
    <3> QED BY <1>2, <3>2
  <2> QED BY <1>2, <2>1
<1>3. Nat \subseteq T
  <2> HIDE DEF T
  <2> QED BY <1>1, <1>2, SetInduction
<1>4. PICK s \in S : s \in Nat
  OBVIOUS
<1>5. s \in T /\ s \in 0 .. s
  <2> HIDE DEF T
  <2> QED BY <1>3, <1>4
<1> QED BY <1>5

(* What is found by its name is at the place of that name.                   *)
LEMMA FieldAtPlace ==
  ASSUME TreeInv, NEW p \in live \ ref, IsObject(p), NEW string, NEW case_sensitive,
         object_item(p, string, case_sensitive) # NULL
  PROVE  /\ PlaceOf(p, string, case_sensitive) \in DOMAIN kids[p]
         /\ object_item(p, string, case_sensitive) = kids[p][PlaceOf(p, string, case_sensitive)]
<1> DEFINE at(k) == get_array_item(p, k)
           size == cJSON_GetArraySize(p)
           Same(x) == SameString(string, name[x], case_sensitive)
           found == {k \in 0 .. size - 1 :
                       LET s == name[at(k)]
                       IN  IF s = NULL THEN case_sensitive
                           ELSE SameString(string, s, case_sensitive)}
           least == CHOOSE k \in found : \A j \in found : k <= j
           Is(i) == /\ SameString(name[kids[p][i]], string, case_sensitive)
                    /\ \A j \in 1 .. i - 1 : ~SameString(name[kids[p][j]], string, case_sensitive)
<1>1. PICK t \in Seq(Items) : t = kids[p] /\ t = KidsOf(p)
  BY KidsOfIs DEF KidsOf
<1>2. PICK n \in Nat : n = Len(t) /\ size = n /\ DOMAIN t = 1 .. n
  BY <1>1, ArraySizeIs
<1>3. \A k \in 0 .. n - 1 : at(k) = t[k + 1] /\ k + 1 \in 1 .. n
  BY <1>1, <1>2, WalksList
<1>4. \A i \in 1 .. n : name[t[i]] # NULL
  BY <1>1, <1>2 DEF IsObject
<1>5. object_item(p, string, case_sensitive)
        = IF found = {} THEN NULL ELSE IF name[at(least)] = NULL THEN NULL ELSE at(least)
  BY DEF object_item
<1> HIDE DEF at, size
<1>6. found = {k \in 0 .. n - 1 : Same(t[k + 1])}
  BY <1>2, <1>3, <1>4
<1>7. found # {} /\ found \in SUBSET Nat
  <2> HIDE DEF found, least
  <2>1. found # {}
    BY <1>5
  <2>2. found \in SUBSET Nat
    BY <1>6
  <2> QED BY <2>1, <2>2
<1> HIDE DEF found
<1>8. least \in found /\ \A j \in found : least <= j
  BY <1>7, LeastOfSet
<1> HIDE DEF least
<1>9. least \in 0 .. n - 1 /\ Same(t[least + 1])
      /\ \A k \in 0 .. n - 1 : Same(t[k + 1]) => least <= k
  BY <1>6, <1>8
<1>10. \A x : SameString(name[x], string, case_sensitive) <=> Same(x)
  BY DEF SameString
<1> HIDE DEF Same
<1>11. least + 1 \in DOMAIN kids[p] /\ Is(least + 1)
  <2>1. ASSUME NEW j \in 1 .. (least + 1) - 1 PROVE ~Same(t[j])
    <3>1. j - 1 \in 0 .. n - 1 /\ ~(least <= j - 1) /\ (j - 1) + 1 = j
      BY <1>9
    <3> QED BY <1>9, <3>1
  <2>2. least + 1 \in 1 .. n
    BY <1>9
  <2> QED BY <1>1, <1>2, <1>9, <1>10, <2>1, <2>2
<1>12. ASSUME NEW i \in DOMAIN kids[p], Is(i) PROVE i = least + 1
  <2>1. i \in 1 .. n /\ Same(t[i]) /\ \A j \in 1 .. i - 1 : ~Same(t[j])
    BY <1>1, <1>2, <1>10, <1>12
  <2>2. least <= i - 1
    <3>1. i - 1 \in 0 .. n - 1 /\ (i - 1) + 1 = i
      BY <2>1
    <3> QED BY <1>9, <2>1, <3>1
  <2>3. ~(least + 1 \in 1 .. i - 1)
    BY <1>9, <2>1
  <2> QED BY <1>9, <2>1, <2>2, <2>3
<1>13. (CHOOSE i \in DOMAIN kids[p] : Is(i)) = least + 1
  <2> HIDE DEF Is
  <2> QED BY <1>11, <1>12
<1>14. PlaceOf(p, string, case_sensitive) = least + 1
  BY <1>13 DEF PlaceOf
<1>15. object_item(p, string, case_sensitive) = at(least)
  BY <1>5, <1>7
<1> QED BY <1>1, <1>3, <1>9, <1>11, <1>14, <1>15

(* What is read from an item has no children outside of it.                  *)
LEMMA WithinClosed ==
  ASSUME TreeInv, NEW item \in Items
  PROVE  Within(item) \in SUBSET Items /\ item \in Within(item) /\ Closed(kids, Within(item))
<1>1. m \in Heap /\ kids \in [Items -> Seq(Items)] /\ Cardinality(Items) \in Nat
  BY ItemsAssumption, FS_CardinalityType
     DEF TreeInv, Tree, Pointing, Forest, ForestTypeOK
<1>2. \A i \in Items : Chain(i) \subseteq Items
  <2>1. \A i \in Items : \A k \in Nat : get_array_item(i, k) \in Pointer
    BY <1>1, get_array_item_steps DEF Heap
  <2> QED BY <1>1, <2>1 DEF Chain, Many, Pointer
<1>3. Least(Within(item), Items, {item}, ReadStep)
  BY <1>2, WithinIsLeast
<1>4. Within(item) \in SUBSET Items /\ item \in Within(item) /\ ReadStep[Within(item)] = Within(item)
  BY <1>3 DEF Least
<1>5. ASSUME NEW x \in Within(item) PROVE Elements_(kids[x]) \subseteq Within(item)
  <2>1. Chain(x) \subseteq Within(item)
    BY <1>4 DEF ReadStep
  <2>2. CASE x \in live \ ref
    <3>1. kids[x] \in Seq(Items) /\ KidsOf(x) = kids[x] /\ Len(kids[x]) \in Many
          /\ \A i \in DOMAIN kids[x] : kids[x][i] # NULL
      BY <1>1, <1>4, <2>2, KidsOfIs, ArraySizeIs, ItemsAssumption DEF KidsOf
    <3>2. ASSUME NEW i \in DOMAIN kids[x] PROVE kids[x][i] \in Chain(x)
      <4>1. i - 1 \in Nat /\ i - 1 < Len(kids[x]) /\ (i - 1) + 1 = i /\ i - 1 \in Many
        BY <1>1, <3>1 DEF Many
      <4>2. get_array_item(x, i - 1) = kids[x][i]
        BY <2>2, <3>1, <4>1, WalksList
      <4> QED BY <3>1, <4>1, <4>2 DEF Chain
    <3> QED BY <2>1, <3>2 DEF Elements_
  <2>3. CASE x \notin live \ ref
    BY <1>4, <2>3 DEF TreeInv, Tree, Forest, OthersEmpty, Elements_
  <2> QED BY <2>2, <2>3
<1> QED BY <1>4, <1>5 DEF Closed

(* cJSON_Delete() of a root frees the items it is meant to.                  *)
LEMMA FreedIsMeant ==
  ASSUME NEW h, NEW K, NEW H, NEW O, Tree(h, K, live, H, ref, O), NEW item \in H,
         NEW A, Spans(A, K, item)
  PROVE  Freed(h, item) = A
<1> DEFINE F == Freed(h, item)
           next == h.next
           child == h.child
<1>1. /\ h \in Heap /\ K \in [Items -> Seq(Items)] /\ item \in Items /\ NULL \notin Items
      /\ Forest(K, live, H, ref) /\ next \in [Items -> Pointer] /\ child \in [Items -> Pointer]
      /\ next[item] = NULL
  <2>1. Forest(K, live, H, ref) /\ h \in Heap /\ Alone(h, item)
    BY DEF Tree, Pointing
  <2>2. K \in [Items -> Seq(Items)] /\ item \in Items
    BY <2>1 DEF Forest, ForestTypeOK
  <2>3. next \in [Items -> Pointer] /\ child \in [Items -> Pointer]
    BY <2>1 DEF Heap
  <2>4. next[item] = NULL
    BY <2>1 DEF Alone
  <2> QED BY ItemsAssumption, <2>1, <2>2, <2>3, <2>4
<1>2. Least(F, Items, {item}, FreeStep(h))
  BY <1>1, FreedIsLeast
<1>3. ASSUME NEW S \in SUBSET Items
      PROVE  FreeStep(h)[S] = S \cup ({next[i] : i \in S} \ {NULL})
                                \cup ({child[i] : i \in S \ ref} \ {NULL})
  BY DEF FreeStep
<1>4. A \subseteq live /\ A \subseteq Items /\ item \in A /\ Closed(K, A)
  <2>1. A \subseteq live
    BY ONLY <1>1, FreeRoot, item \in H, Spans(A, K, item)
  <2> QED BY <2>1 DEF Spans
<1>5. \A x \in live \ ref : Linked(h, x, K[x])
  BY DEF Tree, Pointing
<1>6. \A x \in Items \ (live \ ref) : K[x] = <<>>
  BY <1>1 DEF Forest, OthersEmpty
<1> HIDE DEF F, next, child
<1>7. ASSUME NEW x \in A PROVE next[x] \in A \cup {NULL}
  <2>1. CASE x = item
    BY <1>1, <2>1
  <2>2. CASE x # item
    <3>1. PICK y \in A : x \in Elements_(K[y])
      BY <1>1, <2>2, ReachedByParent
    <3>2. K[y] \in Seq(Items) /\ Elements_(K[y]) \subseteq A /\ y \in Items
      BY <1>1, <1>4 DEF Closed
    <3>3. PICK i \in DOMAIN K[y] : x = K[y][i]
      BY <3>1 DEF Elements_
    <3>4. Linked(h, y, K[y])
      BY <1>5, <1>6, <3>2, <3>3
    <3>5. next[x] = IF i = Len(K[y]) THEN NULL ELSE K[y][i + 1]
      BY <3>3, <3>4 DEF Linked, next
    <3>6. i # Len(K[y]) => i + 1 \in DOMAIN K[y]
      BY <3>2, <3>3
    <3> QED BY <3>2, <3>5, <3>6 DEF Elements_
  <2> QED BY <2>1, <2>2
<1>8. ASSUME NEW x \in A \ ref PROVE child[x] \in A \cup {NULL}
  <2>1. K[x] \in Seq(Items) /\ Elements_(K[x]) \subseteq A /\ Linked(h, x, K[x])
    BY <1>1, <1>4, <1>5 DEF Closed
  <2>2. child[x] = IF K[x] = <<>> THEN NULL ELSE K[x][1]
    BY <2>1 DEF Linked, child
  <2>3. K[x] # <<>> => 1 \in DOMAIN K[x]
    BY <2>1
  <2> QED BY <2>1, <2>2, <2>3 DEF Elements_
<1>9. F \subseteq A
  <2>1. ASSUME NEW S \in SUBSET A PROVE FreeStep(h)[S] \subseteq A
    <3>1. S \in SUBSET Items
      BY <1>4
    <3> QED BY <1>3, <1>7, <1>8, <3>1
  <2> QED BY <1>2, <1>4, <2>1 DEF Least
<1>10. F \in SUBSET Items /\ item \in F /\ FreeStep(h)[F] = F
  BY <1>2 DEF Least
<1>11. /\ \A x \in F : next[x] # NULL => next[x] \in F
       /\ \A x \in F \ ref : child[x] # NULL => child[x] \in F
  BY <1>3, <1>10
<1>12. ASSUME NEW x \in F PROVE Elements_(K[x]) \subseteq F
  <2>1. CASE x \in live \ ref
    <3> DEFINE T == {k \in Nat : k + 1 \in DOMAIN K[x] => K[x][k + 1] \in F}
    <3>1. /\ K[x] \in Seq(Items) /\ Linked(h, x, K[x]) /\ Len(K[x]) \in Nat
          /\ DOMAIN K[x] = 1 .. Len(K[x])
          /\ \A i \in DOMAIN K[x] : K[x][i] \in Items /\ K[x][i] # NULL
      BY <1>1, <1>5, <1>10, <2>1
    <3>2. 0 \in T
      <4>1. 1 \in DOMAIN K[x] => child[x] = K[x][1]
        BY <3>1 DEF Linked, child
      <4> QED BY <1>11, <2>1, <3>1, <4>1
    <3>3. ASSUME NEW k \in Nat, k \in T PROVE k + 1 \in T
      <4> SUFFICES ASSUME (k + 1) + 1 \in DOMAIN K[x] PROVE K[x][(k + 1) + 1] \in F
        OBVIOUS
      <4>1. k + 1 \in DOMAIN K[x] /\ k + 1 # Len(K[x])
        BY <3>1
      <4>2. next[K[x][k + 1]] = K[x][(k + 1) + 1]
        BY <3>1, <4>1 DEF Linked, next
      <4>3. K[x][k + 1] \in F
        BY <3>3, <4>1
      <4> QED BY <1>11, <3>1, <4>2, <4>3
    <3>4. Nat \subseteq T
      <4> HIDE DEF T
      <4> QED BY <3>2, <3>3, SetInduction
    <3>5. ASSUME NEW i \in DOMAIN K[x] PROVE K[x][i] \in F
      <4>1. i - 1 \in Nat /\ (i - 1) + 1 = i
        BY <3>1
      <4>2. i - 1 \in T
        BY <3>4, <4>1
      <4> QED BY <4>1, <4>2
    <3> QED BY <3>5 DEF Elements_
  <2>2. CASE x \notin live \ ref
    BY <1>6, <1>10, <2>2 DEF Elements_
  <2> QED BY <2>1, <2>2
<1>13. A \subseteq F
  <2>1. Closed(K, F)
    BY <1>12 DEF Closed
  <2> QED BY <1>10, <2>1 DEF Spans
<1> QED BY <1>9, <1>13 DEF F

(* An item that is deleted, whether it was a root before or has just been    *)
(* taken out of a list.                                                      *)
LEMMA DeleteTree ==
  ASSUME NEW h, NEW K, NEW H, Tree(h, K, live, H, ref, of), NEW item \in H,
         Spans(Meant(item), K, item), MayDelete(item), NEW names,
         Delete(h, names, K, item), held' = H \ {item}
  PROVE  TreeInv'
<1> DEFINE A == Meant(item)
           K1 == Emptied(K, A)
           O1 == Nulled(of, A)
<1>1. Freed(h, item) = A
  BY FreedIsMeant
<1>2. /\ m' = Cleared(h, A) /\ live' = live \ A /\ ref' = ref \ A
      /\ of' = O1 /\ kids' = K1
  BY <1>1 DEF Delete, Emptied, Nulled
<1>3. Forest(K, live, H, ref) /\ ref \subseteq live
  BY DEF Tree, Forest, ForestTypeOK
<1>4. \A r \in ref \ A : of[r] \notin A
  BY <1>3 DEF MayDelete
<1> HIDE DEF A
<1>5. /\ A \subseteq live /\ OneRoot(A, H, item)
      /\ CutOff(K, A)
      /\ Forest(K1, live \ A, H \ {item}, ref \ A)
  <2>1. Spans(A, K, item)
    BY DEF A
  <2>2. item \in H
    OBVIOUS
  <2> QED BY ONLY <1>3, <2>1, <2>2, FreeRoot
<1>6. Pointing(Cleared(h, A), K1, live \ A, H \ {item}, ref \ A, O1)
  BY <1>4, <1>5, FreePointers
<1> HIDE DEF K1, O1
<1> QED BY <1>2, <1>5, <1>6 DEF TreeInv, Tree

(* Each call keeps the items a forest and the pointers its lists.            *)
LEMMA TreeFacts ==
  ASSUME TreeInv
  PROVE  /\ m \in Heap /\ kids \in [Items -> Seq(Items)] /\ of \in [Items -> Pointer]
         /\ live \subseteq Items /\ held \subseteq live /\ ref \subseteq live
         /\ \A x \in Items \ (live \ ref) : kids[x] = <<>> /\ Elements_(kids[x]) = {}
         /\ \A x \in Items : Elements_(kids[x]) \subseteq live \ held
         /\ \A x \in live \ ref : Linked(m, x, kids[x])
         /\ \A r \in ref : of[r] \in live \ ref /\ m.child[r] = m.child[of[r]]
         /\ \A i \in held : Alone(m, i)
<1>1. Forest(kids, live, held, ref) /\ Pointing(m, kids, live, held, ref, of)
  BY DEF TreeInv, Tree
<1>2. ForestTypeOK(kids, live, held, ref) /\ OthersEmpty(kids, live, ref)
      /\ ChildrenOwned(kids, live, held)
  BY <1>1 DEF Forest
<1>3. Elements_(<<>>) = {}
  BY DEF Elements_
<1> QED BY <1>1, <1>2, <1>3 DEF Pointing, ForestTypeOK, OthersEmpty, ChildrenOwned

(* A new item may be held.                                                   *)
LEMMA NewItemTree ==
  ASSUME TreeInv, NEW item \in Items \ live
  PROVE  /\ Tree(Cleared(m, {item}), kids, live \cup {item}, held \cup {item}, ref, of)
         /\ Closed(kids, {item}) /\ item \notin held
<1>1. PICK h1 \in Heap : h1 = Cleared(m, {item})
  BY TreeFacts, ClearedIs
<1>2. \A x \in Items : /\ h1.child[x] = IF x = item THEN NULL ELSE m.child[x]
                       /\ h1.next[x] = IF x = item THEN NULL ELSE m.next[x]
                       /\ h1.prev[x] = IF x = item THEN NULL ELSE m.prev[x]
  BY <1>1, TreeFacts, ClearedIs
<1>3. kids[item] = <<>> /\ Elements_(kids[item]) = {} /\ DOMAIN kids[item] = {}
      /\ kids \in [Items -> Seq(Items)] /\ held \subseteq live
  BY TreeFacts
<1>4. Forest(kids, live, held, ref) /\ Tree(m, kids, live, held, ref, of)
  BY DEF TreeInv, Tree
<1>5. PICK N \in SUBSET (Items \ live) : N = {item} /\ item \in N
  OBVIOUS
<1>6. NewNodes(kids, kids, N, item)
  BY <1>3, <1>5 DEF NewNodes
<1>7. NewLinks(m, h1, kids, N, item)
  <2>1. \A x \in N : Linked(h1, x, kids[x])
    BY <1>2, <1>3, <1>5 DEF Linked
  <2>2. Alone(h1, item)
    BY <1>2 DEF Alone
  <2> QED BY <1>2, <1>5, <2>1, <2>2 DEF NewLinks
<1>8. Tree(h1, kids, live \cup N, held \cup {item}, ref, of)
  BY <1>4, <1>5, <1>6, <1>7, NewTree
<1> QED BY <1>1, <1>3, <1>5, <1>8 DEF Closed

(* cJSON_CreateNull() and the like.                                          *)
LEMMA CreateKeeps ==
  ASSUME TreeInv, Create
  PROVE  TreeInv'
<1>1. PICK item \in Items \ live :
        /\ m' = Cleared(m, {item}) /\ live' = live \cup {item} /\ held' = held \cup {item}
        /\ ref' = ref /\ kids' = kids /\ of' = of
  BY DEF Create, New_Item
<1> QED BY <1>1, NewItemTree DEF TreeInv

(* What is given away is read nowhere above the place it is given to.        *)
LEMMA GivenOutside ==
  ASSUME TreeInv, NEW p \in live, NEW item, MayGive(item, p)
  PROVE  /\ p \in live \ ref /\ (\A r \in ref : of[r] # p) /\ item \in held
         /\ Within(item) \in SUBSET Items /\ Closed(kids, Within(item))
         /\ item \in Within(item) /\ p \notin Within(item)
<1>1. item \in held /\ item \in Items /\ ref \subseteq live
  BY TreeFacts DEF MayGive
<1> QED BY <1>1, WithinClosed DEF MayGive, Unshared

(* cJSON_AddItemToArray() and cJSON_AddItemToObject().                       *)
LEMMA AppendKeeps ==
  ASSUME TreeInv, NEW p \in live, NEW item, MayGive(item, p), Append_to(m, p, item),
         held' = held \ {item}, ref' = ref, live' = live, of' = of
  PROVE  TreeInv'
<1>1. Tree(add_item_to_array(m, p, item), [kids EXCEPT ![p] = Append(@, item)],
           live, held \ {item}, ref, of)
  BY GivenOutside, GiveAppend DEF TreeInv
<1> QED BY <1>1 DEF TreeInv, Append_to

(* cJSON_AddNullToObject() and the like.                                     *)
LEMMA AddNewKeeps ==
  ASSUME TreeInv, NEW p \in live, NEW string, NEW item, AddNewToObject(p, string, item)
  PROVE  TreeInv'
<1>1. item \in Items \ live /\ p \in live \ ref /\ ref \subseteq live /\ \A r \in ref : of[r] # p
  BY TreeFacts DEF AddNewToObject, New_Item, Unshared
<1> DEFINE h == Cleared(m, {item})
<1>2. Tree(h, kids, live \cup {item}, held \cup {item}, ref, of)
      /\ Closed(kids, {item}) /\ item \notin held
  BY <1>1, NewItemTree
<1>3. PICK L, H, A : L = live \cup {item} /\ H = held \cup {item} /\ A = {item}
  OBVIOUS
<1>4. p \in L \ ref /\ item \in H /\ A \in SUBSET Items /\ item \in A /\ p \notin A
      /\ H \ {item} = held
  BY <1>1, <1>2, <1>3
<1>5. /\ m' = add_item_to_array(h, p, item)
      /\ kids' = [kids EXCEPT ![p] = Append(@, item)]
      /\ live' = L /\ held' = held /\ ref' = ref /\ of' = of
  BY <1>3 DEF AddNewToObject, Append_to
<1> HIDE DEF h
<1>6. Tree(add_item_to_array(h, p, item), [kids EXCEPT ![p] = Append(@, item)],
           L, H \ {item}, ref, of)
  BY <1>1, <1>2, <1>3, <1>4, GiveAppend
<1> QED BY <1>4, <1>5, <1>6 DEF TreeInv

(* A new reference r to the children of what o owns.                         *)
LEMMA NewReferenceTree ==
  ASSUME TreeInv, NEW item \in live, NEW r \in Items \ live, NEW o \in live \ ref,
         m.child[item] = m.child[o], NEW O1 \in [Items -> Pointer],
         O1[r] = o, \A x \in Items \ {r} : O1[x] = of[x]
  PROVE  /\ Tree(create_reference(m, r, item), kids, live \cup {r}, held \cup {r}, ref \cup {r}, O1)
         /\ Closed(kids, {r}) /\ r \notin held
<1>1. m \in Heap /\ item \in Items /\ o \in Items /\ r \in Items /\ r # item /\ r # o
  BY TreeFacts
<1>2. PICK h0 \in Heap : h0 = Cleared(m, {r})
  BY <1>1, ClearedIs
<1>3. \A x \in Items : /\ h0.child[x] = IF x = r THEN NULL ELSE m.child[x]
                       /\ h0.next[x] = IF x = r THEN NULL ELSE m.next[x]
                       /\ h0.prev[x] = IF x = r THEN NULL ELSE m.prev[x]
  BY <1>1, <1>2, ClearedIs
<1>4. m.child[item] \in Pointer
  BY <1>1 DEF Heap
<1>5. PICK h1 : h1 = [h0 EXCEPT !.child[r] = m.child[item]]
  OBVIOUS
<1>6. h1 \in Heap
      /\ \A x \in Items : /\ h1.child[x] = IF x = r THEN m.child[item] ELSE m.child[x]
                          /\ h1.next[x] = IF x = r THEN NULL ELSE m.next[x]
                          /\ h1.prev[x] = IF x = r THEN NULL ELSE m.prev[x]
  BY <1>1, <1>3, <1>4, <1>5 DEF Heap
<1>7. h1 = create_reference(m, r, item)
  BY <1>2, <1>5 DEF create_reference
<1>8. Forest(kids, live \cup {r}, held \cup {r}, ref \cup {r})
  BY NewReference DEF TreeInv, Tree
<1>9. kids[r] = <<>> /\ Elements_(kids[r]) = {} /\ held \subseteq live /\ live \subseteq Items
      /\ ref \subseteq live
  BY TreeFacts
<1>10. ASSUME NEW x \in live \ ref PROVE Linked(h1, x, kids[x])
  <2>1. Linked(m, x, kids[x]) /\ Elements_(kids[x]) \subseteq live /\ x \in Items /\ x # r
    BY <1>9, TreeFacts
  <2>2. \A y \in Elements_(kids[x]) : h1.next[y] = m.next[y] /\ h1.prev[y] = m.prev[y]
    BY <1>6, <1>9, <2>1
  <2>3. h1.child[x] = m.child[x]
    BY <1>6, <2>1
  <2> QED BY <2>1, <2>2, <2>3, LinkedSame
<1>11. ASSUME NEW x \in ref \cup {r}
       PROVE  O1[x] \in live \ ref /\ O1[x] # r /\ h1.child[x] = h1.child[O1[x]]
  <2>1. CASE x = r
    BY <1>1, <1>6, <2>1
  <2>2. CASE x # r
    <3>1. x \in ref /\ of[x] \in live \ ref /\ m.child[x] = m.child[of[x]]
      BY <2>2, TreeFacts
    <3>2. O1[x] = of[x] /\ of[x] \in Items /\ x \in Items /\ of[x] # r
      BY <1>9, <2>2, <3>1
    <3> QED BY <1>6, <2>2, <3>1, <3>2
  <2> QED BY <2>1, <2>2
<1>12. ASSUME NEW i \in held \cup {r} PROVE Alone(h1, i)
  <2>1. CASE i = r
    BY <1>1, <1>6, <2>1 DEF Alone
  <2>2. CASE i # r
    <3>1. Alone(m, i) /\ i \in Items
      BY <1>9, <2>2, TreeFacts
    <3> QED BY <1>6, <2>2, <3>1 DEF Alone
  <2> QED BY <2>1, <2>2
<1>13. Pointing(h1, kids, live \cup {r}, held \cup {r}, ref \cup {r}, O1)
  <2>1. (live \cup {r}) \ (ref \cup {r}) = live \ ref
    BY <1>9
  <2> QED BY <1>6, <1>10, <1>11, <1>12, <2>1 DEF Pointing
<1> QED BY <1>7, <1>8, <1>9, <1>13 DEF Tree, Closed

(* cJSON_AddItemReferenceToArray() and ...ToObject().                        *)
LEMMA AddReferenceKeeps ==
  ASSUME TreeInv, NEW p \in live, NEW string, NEW item \in live, NEW r \in Items,
         AddItemReference(p, string, item, r)
  PROVE  TreeInv'
<1> DEFINE h == create_reference(m, r, item)
           o == IF item \in ref THEN of[item] ELSE item
           O1 == [of EXCEPT ![r] = o]
<1>1. /\ r \notin live /\ p \in live \ ref /\ p \notin Within(item)
      /\ m' = add_item_to_array(h, p, r) /\ kids' = [kids EXCEPT ![p] = Append(@, r)]
      /\ ref' = ref \cup {r} /\ live' = live \cup {r} /\ of' = O1 /\ held' = held
      /\ ref \subseteq live /\ \A x \in ref : of[x] # p
  BY TreeFacts DEF AddItemReference, New_Item, Unshared, Append_to
<1>2. item \in Items /\ item \in Within(item) /\ live \subseteq Items
      /\ of \in [Items -> Pointer]
  BY TreeFacts, WithinClosed
<1>3. o \in live \ ref /\ m.child[item] = m.child[o] /\ o # p
  BY <1>1, <1>2, TreeFacts
<1> HIDE DEF o
<1>4. O1 \in [Items -> Pointer] /\ O1[r] = o /\ \A x \in Items \ {r} : O1[x] = of[x]
  BY <1>2, <1>3 DEF Pointer
<1> HIDE DEF O1
<1>5. Tree(h, kids, live \cup {r}, held \cup {r}, ref \cup {r}, O1)
      /\ Closed(kids, {r}) /\ r \notin held
  BY <1>1, <1>3, <1>4, NewReferenceTree
<1>6. PICK L, H, R, A : L = live \cup {r} /\ H = held \cup {r} /\ R = ref \cup {r} /\ A = {r}
  OBVIOUS
<1>7. /\ p \in L \ R /\ r \in H /\ A \in SUBSET Items /\ r \in A /\ p \notin A
      /\ H \ {r} = held /\ \A x \in R : O1[x] # p
  BY <1>1, <1>2, <1>3, <1>4, <1>5, <1>6
<1> HIDE DEF h
<1>8. Tree(add_item_to_array(h, p, r), [kids EXCEPT ![p] = Append(@, r)], L, H \ {r}, R, O1)
  BY <1>5, <1>6, <1>7, GiveAppend
<1> QED BY <1>1, <1>6, <1>7, <1>8 DEF TreeInv

(* An item a call takes out of a list, or replaces in it, is at its place.   *)
LEMMA PlaceInArray ==
  ASSUME TreeInv, NEW p \in live \ ref, NEW which \in Nat, get_array_item(p, which) # NULL
  PROVE  which + 1 \in DOMAIN kids[p] /\ get_array_item(p, which) = kids[p][which + 1]
<1>1. PICK s \in Seq(Items) : s = kids[p] /\ s = KidsOf(p)
  BY KidsOfIs DEF KidsOf
<1>2. get_array_item(p, which) = IF which < Len(s) THEN s[which + 1] ELSE NULL
  BY <1>1, WalksList
<1>3. which < Len(s) /\ get_array_item(p, which) = s[which + 1]
  BY <1>2
<1>4. which + 1 \in DOMAIN s
  BY <1>3
<1> QED BY <1>1, <1>3, <1>4

(* Detaching the item at a place.                                            *)
LEMMA DetachKeeps ==
  ASSUME TreeInv, NEW p, Unshared(p), NEW place \in DOMAIN kids[p],
         DetachItem(p, kids[p][place], place)
  PROVE  TreeInv'
<1>1. p \in live \ ref /\ \A r \in ref : of[r] # p
  BY TreeFacts DEF Unshared
<1>2. Tree(DetachItemViaPointer(m, p, kids[p][place]), [kids EXCEPT ![p] = Without(@, place)],
           live, held \cup {kids[p][place]}, ref, of)
  BY <1>1, TakeOut DEF TreeInv
<1> QED BY <1>2 DEF TreeInv, DetachItem

(* A change to the parent's list does not change what is below an element.   *)
LEMMA MeantElsewhere ==
  ASSUME TreeInv, NEW p \in live \ ref, NEW place \in DOMAIN kids[p], NEW s
  PROVE  Spans(Meant(kids[p][place]), [kids EXCEPT ![p] = s], kids[p][place])
<1>1. kids \in [Items -> Seq(Items)] /\ p \in Items /\ kids[p][place] \in Elements_(kids[p])
      /\ Elements_(kids[p]) \subseteq Items /\ Acyclic(kids)
  BY TreeFacts DEF Elements_, TreeInv, Tree, Forest
<1>2. PICK item \in Items : item = kids[p][place]
  BY <1>1
<1>3. Spans(Meant(item), kids, item)
  BY <1>1, MeantSpans
<1>4. p \notin Meant(item)
  BY <1>1, <1>2, <1>3, ParentOutside
<1> QED BY <1>1, <1>2, <1>3, <1>4, SpansKept

(* Deleting the item at a place.                                             *)
LEMMA DeleteItemKeeps ==
  ASSUME TreeInv, NEW p, Unshared(p), NEW place \in DOMAIN kids[p],
         DeleteItem(p, kids[p][place], place)
  PROVE  TreeInv'
<1>1. p \in live \ ref /\ (\A r \in ref : of[r] # p) /\ p \in Items
  BY TreeFacts DEF Unshared
<1>2. PICK item : item = kids[p][place]
  OBVIOUS
<1> DEFINE h == DetachItemViaPointer(m, p, item)
           K == [kids EXCEPT ![p] = Without(@, place)]
<1>3. Tree(h, K, live, held \cup {item}, ref, of)
  BY <1>1, <1>2, TakeOut DEF TreeInv
<1>4. Spans(Meant(item), K, item)
  BY <1>1, <1>2, MeantElsewhere
<1>5. MayDelete(item) /\ Delete(h, name, K, item) /\ held' = held
  BY <1>2 DEF DeleteItem
<1>6. item \notin held
  <2>1. item \in Elements_(kids[p])
    BY <1>2 DEF Elements_
  <2> QED BY <1>1, <2>1, TreeFacts
<1> HIDE DEF h, K
<1>7. PICK H : H = held \cup {item}
  OBVIOUS
<1>8. item \in H /\ held' = H \ {item}
  BY <1>5, <1>6, <1>7
<1> QED BY <1>3, <1>4, <1>5, <1>7, <1>8, DeleteTree

(* To put an element behind the last is to append it.                        *)
LEMMA WithAtEnd ==
  ASSUME NEW s \in Seq(Items), NEW x \in Items
  PROVE  With(s, Len(s) + 1, x) = Append(s, x)
<1>1. PICK n \in Nat : n = Len(s) /\ n + 1 \in 1 .. Len(s) + 1 /\ DOMAIN s = 1 .. n
  OBVIOUS
<1>2. PICK w : w = With(s, n + 1, x) /\ WithAt(w, s, n + 1, x)
  BY <1>1, WithIs
<1>3. w \in [1 .. n + 1 -> Items]
  BY <1>1, <1>2 DEF WithAt
<1>4. Append(s, x) \in [1 .. n + 1 -> Items]
  <2> DEFINE t == Append(s, x)
  <2>1. t \in Seq(Items) /\ Len(t) = n + 1
    <3>1. n = Len(s)
      BY <1>1
    <3> QED BY <3>1
  <2> HIDE DEF t
  <2>2. t \in [1 .. Len(t) -> Items]
    BY <2>1
  <2> QED BY <2>1, <2>2 DEF t
<1>5. ASSUME NEW i \in 1 .. n + 1 PROVE w[i] = Append(s, x)[i]
  <2>1. w[i] = IF i < n + 1 THEN s[i] ELSE x
    BY <1>1, <1>2 DEF WithAt
  <2>2. Append(s, x)[i] = IF i < n + 1 THEN s[i] ELSE x
    BY <1>1
  <2> QED BY <2>1, <2>2
<1>6. w = Append(s, x)
  BY <1>3, <1>4, <1>5
<1> QED BY <1>1, <1>2, <1>6

(* cJSON_InsertItemInArray(), before an item or at the end.                  *)
LEMMA InsertKeeps ==
  ASSUME TreeInv, NEW p \in live, NEW which \in Nat, which <= Len(kids[p]), NEW item,
         InsertItemInArray(p, which, item)
  PROVE  TreeInv'
<1> DEFINE after == get_array_item(p, which)
<1>1. MayGive(item, p) /\ held' = held \ {item} /\ live' = live /\ ref' = ref /\ of' = of
      /\ m' = (IF after = NULL THEN add_item_to_array(m, p, item)
               ELSE InsertBefore(m, p, after, item))
      /\ kids' = [kids EXCEPT ![p] = With(@, which + 1, item)]
  BY DEF InsertItemInArray
<1>2. /\ p \in live \ ref /\ (\A r \in ref : of[r] # p) /\ item \in held
      /\ Within(item) \in SUBSET Items /\ Closed(kids, Within(item))
      /\ item \in Within(item) /\ p \notin Within(item)
  BY <1>1, GivenOutside
<1>3. PICK s \in Seq(Items) : s = kids[p] /\ s = KidsOf(p)
      /\ \A i \in DOMAIN s : s[i] # NULL
  BY <1>2, KidsOfIs, ItemsAssumption DEF KidsOf
<1>4. CASE after = NULL
  <2>1. after = IF which < Len(s) THEN s[which + 1] ELSE NULL
    BY <1>3, WalksList
  <2>2. which = Len(s)
    <3>1. CASE which < Len(s)
      <4>1. which + 1 \in DOMAIN s
        BY <1>3, <3>1
      <4> QED BY <1>3, <1>4, <2>1, <3>1, <4>1
    <3>2. CASE ~(which < Len(s))
      <4>1. Len(s) \in Nat /\ which <= Len(s)
        BY <1>3
      <4> QED BY <3>2, <4>1
    <3> QED BY <3>1, <3>2
  <2>3. With(s, which + 1, item) = Append(s, item)
    <3>1. item \in Items
      BY <1>2
    <3> QED BY <2>2, <3>1, WithAtEnd
  <2>4. kids' = [kids EXCEPT ![p] = Append(@, item)]
    BY <1>1, <1>3, <2>3
  <2>5. Tree(add_item_to_array(m, p, item), [kids EXCEPT ![p] = Append(@, item)],
             live, held \ {item}, ref, of)
    BY <1>2, GiveAppend DEF TreeInv
  <2> QED BY <1>1, <1>4, <2>4, <2>5 DEF TreeInv
<1>5. CASE after # NULL
  <2>1. which + 1 \in DOMAIN kids[p] /\ after = kids[p][which + 1]
    BY <1>2, <1>5, PlaceInArray
  <2> HIDE DEF after
  <2>2. Tree(InsertBefore(m, p, kids[p][which + 1], item),
             [kids EXCEPT ![p] = With(@, which + 1, item)], live, held \ {item}, ref, of)
    BY <1>2, <2>1, GiveInsert DEF TreeInv
  <2> QED BY <1>1, <1>5, <2>1, <2>2 DEF TreeInv
<1> QED BY <1>4, <1>5

(* Replacing the item at a place, which is deleted.                          *)
LEMMA ReplaceItemKeeps ==
  ASSUME TreeInv, NEW p \in live, NEW names, NEW replacement, MayGive(replacement, p),
         NEW place \in DOMAIN kids[p],
         ReplaceItem(p, names, kids[p][place], place, replacement)
  PROVE  TreeInv'
<1>1. /\ p \in live \ ref /\ (\A r \in ref : of[r] # p) /\ replacement \in held
      /\ Within(replacement) \in SUBSET Items /\ Closed(kids, Within(replacement))
      /\ replacement \in Within(replacement) /\ p \notin Within(replacement)
  BY GivenOutside
<1>2. PICK item : item = kids[p][place]
  OBVIOUS
<1> DEFINE h == ReplaceItemViaPointer(m, p, item, replacement)
           K == [kids EXCEPT ![p][place] = replacement]
<1>3. PICK H : H = (held \ {replacement}) \cup {item}
  OBVIOUS
<1>4. Tree(h, K, live, H, ref, of)
  BY <1>1, <1>2, <1>3, Swap DEF TreeInv
<1>5. Spans(Meant(item), K, item)
  <2>1. K = [kids EXCEPT ![p] = [kids[p] EXCEPT ![place] = replacement]]
    BY TreeFacts
  <2>2. Spans(Meant(item), [kids EXCEPT ![p] = [kids[p] EXCEPT ![place] = replacement]], item)
    BY <1>1, <1>2, MeantElsewhere
  <2> QED BY <2>1, <2>2
<1>6. MayDelete(item) /\ Delete(h, names, K, item) /\ held' = held \ {replacement}
  BY <1>2 DEF ReplaceItem
<1>7. item \notin held
  <2>1. item \in Elements_(kids[p]) /\ p \in Items
    BY <1>1, <1>2, TreeFacts DEF Elements_
  <2> QED BY <2>1, TreeFacts
<1> HIDE DEF h, K
<1>8. item \in H /\ held' = H \ {item}
  BY <1>3, <1>6, <1>7
<1> QED BY <1>4, <1>5, <1>6, <1>8, DeleteTree

(* cJSON_ReplaceItemInObject(), which may find no such field.                *)
LEMMA ReplaceInObjectKeeps ==
  ASSUME TreeInv, NEW p \in live, NEW string, NEW replacement, NEW case_sensitive,
         ReplaceItemInObject(p, string, replacement, case_sensitive)
  PROVE  TreeInv'
<1> DEFINE item == object_item(p, string, case_sensitive)
           named == [name EXCEPT ![replacement] = string]
           place == PlaceOf(p, string, case_sensitive)
<1>1. MayGive(replacement, p) /\ IsObject(p) /\ p \in live \ ref
  BY GivenOutside DEF ReplaceItemInObject
<1>2. CASE item = NULL /\ UNCHANGED <<m, ref, live, kids, of, held>>
  BY <1>2 DEF TreeInv
<1>3. CASE item # NULL /\ ReplaceItem(p, named, item, place, replacement)
  <2>1. place \in DOMAIN kids[p] /\ item = kids[p][place]
    BY <1>1, <1>3, FieldAtPlace
  <2> HIDE DEF item, named, place
  <2> QED BY <1>1, <1>3, <2>1, ReplaceItemKeeps
<1> QED BY <1>2, <1>3 DEF ReplaceItemInObject

(* cJSON_Delete() of a root.                                                 *)
LEMMA DeleteKeeps ==
  ASSUME TreeInv, NEW item, cJSON_Delete(item)
  PROVE  TreeInv'
<1>1. item \in held /\ MayDelete(item) /\ Delete(m, name, kids, item) /\ held' = held \ {item}
  BY DEF cJSON_Delete
<1>2. Spans(Meant(item), kids, item)
  BY <1>1, TreeFacts, MeantSpans
<1> QED BY <1>1, <1>2, DeleteTree DEF TreeInv

(* The new pointers of an array made with its elements.                      *)
MadeList(h, h1, a, s, n) ==
  /\ h1 \in Heap /\ h1.child[a] = s[1]
  /\ \A x \in Items \ {a} : h1.child[x] = h.child[x]
  /\ \A i \in 1 .. n : /\ h1.next[s[i]] = IF i = n THEN NULL ELSE s[i + 1]
                       /\ h1.prev[s[i]] = IF i = 1 THEN s[n] ELSE s[i - 1]
  /\ \A x \in Items : (\A i \in 1 .. n : s[i] # x) =>
       h1.next[x] = h.next[x] /\ h1.prev[x] = h.prev[x]

(* ArrayLinks makes a list of new items.                                     *)
LEMMA NewListLinks ==
  ASSUME NEW h \in Heap, NEW a \in Items, NEW n \in Nat \ {0}, NEW s \in [1 .. n -> Items],
         \A i, j \in 1 .. n : i # j => s[i] # s[j],
         \A i \in 1 .. n : h.next[s[i]] = NULL
  PROVE  MadeList(h, ArrayLinks(h, a, s, n), a, s, n)
<1> DEFINE A(x) == CHOOSE k \in 1 .. n - 1 : s[k] = x
           B(x) == CHOOSE k \in 2 .. n : s[k] = x
           h1 == ArrayLinks(h, a, s, n)
           N == h1.next
           P == h1.prev
<1>1. h.next \in [Items -> Pointer] /\ h.prev \in [Items -> Pointer]
      /\ h.child \in [Items -> Pointer]
  BY DEF Heap
<1>2. \A x \in Items : N[x] = IF \E k \in 1 .. n - 1 : s[k] = x THEN s[A(x) + 1] ELSE h.next[x]
  BY DEF ArrayLinks
<1>3. \A x \in Items : P[x] = IF x = s[1] THEN s[n]
                              ELSE IF \E k \in 2 .. n : s[k] = x THEN s[B(x) - 1] ELSE h.prev[x]
  BY DEF ArrayLinks
<1>4. /\ \A x : (\E k \in 1 .. n - 1 : s[k] = x) => A(x) \in 1 .. n - 1 /\ s[A(x)] = x
      /\ \A x : (\E k \in 2 .. n : s[k] = x) => B(x) \in 2 .. n /\ s[B(x)] = x
  OBVIOUS
<1>5. /\ N = [y \in Items |-> N[y]] /\ P = [y \in Items |-> P[y]]
      /\ h1.child = [h.child EXCEPT ![a] = s[1]]
      /\ h1 = [child |-> h1.child, next |-> N, prev |-> P]
  BY DEF ArrayLinks
<1> HIDE DEF A, B, N, P, h1
<1>6. /\ \A k \in 1 .. n - 1 : k \in 1 .. n /\ k + 1 \in 1 .. n
      /\ \A k \in 2 .. n : k \in 1 .. n /\ k - 1 \in 1 .. n
      /\ \A k \in 1 .. n : (k # n => k \in 1 .. n - 1) /\ (k # 1 => k \in 2 .. n)
      /\ \A k \in 1 .. n - 1 : k # n
      /\ \A k \in 2 .. n : k # 1
      /\ 1 \in 1 .. n /\ n \in 1 .. n
  OBVIOUS
<1>7. \A x \in Items : N[x] \in Pointer /\ P[x] \in Pointer
  BY <1>1, <1>2, <1>3, <1>4, <1>6 DEF Pointer
<1>8. ASSUME NEW i \in 1 .. n PROVE N[s[i]] = IF i = n THEN NULL ELSE s[i + 1]
  <2>1. CASE i = n
    BY <1>2, <1>6, <2>1
  <2>2. CASE i # n
    <3>1. i \in 1 .. n - 1
      BY <1>6, <2>2
    <3>2. A(s[i]) \in 1 .. n /\ s[A(s[i])] = s[i]
      BY <1>4, <1>6, <3>1
    <3>3. A(s[i]) = i
      BY <3>2
    <3> QED BY <1>2, <2>2, <3>1, <3>3
  <2> QED BY <2>1, <2>2
<1>9. ASSUME NEW i \in 1 .. n PROVE P[s[i]] = IF i = 1 THEN s[n] ELSE s[i - 1]
  <2>1. CASE i = 1
    BY <1>3, <2>1
  <2>2. CASE i # 1
    <3>1. i \in 2 .. n /\ s[i] # s[1]
      BY <1>6, <2>2
    <3>2. B(s[i]) \in 1 .. n /\ s[B(s[i])] = s[i]
      BY <1>4, <1>6, <3>1
    <3>3. B(s[i]) = i
      BY <3>2
    <3> QED BY <1>3, <2>2, <3>1, <3>3
  <2> QED BY <2>1, <2>2
<1>10. ASSUME NEW x \in Items, \A i \in 1 .. n : s[i] # x
       PROVE  N[x] = h.next[x] /\ P[x] = h.prev[x]
  BY <1>2, <1>3, <1>6, <1>10
<1>11. N \in [Items -> Pointer] /\ P \in [Items -> Pointer]
  BY <1>5, <1>7
<1>12. s[1] \in Pointer
  BY <1>6 DEF Pointer
<1>13. /\ h1.child \in [Items -> Pointer] /\ h1.child[a] = s[1]
       /\ \A x \in Items \ {a} : h1.child[x] = h.child[x]
  BY <1>1, <1>5, <1>12
<1>14. h1 \in Heap
  BY <1>5, <1>11, <1>13 DEF Heap
<1>15. MadeList(h, h1, a, s, n)
  BY <1>8, <1>9, <1>10, <1>13, <1>14 DEF N, P, MadeList
<1> QED BY <1>15 DEF h1

MakesArray(a, n, s, all, h) ==
  /\ all = {a} \cup Elements_(s) /\ h = Cleared(m, all)
  /\ \A i, j \in 1 .. n : i # j => s[i] # s[j]
  /\ \A i \in all : i \in Items \ live
  /\ m' = ArrayLinks(h, a, s, n)
  /\ live' = live \cup all /\ held' = held \cup {a}
  /\ kids' = [kids EXCEPT ![a] = s] /\ ref' = ref /\ of' = of

(* What cJSON_CreateIntArray() does, with its parts named.                   *)
LEMMA CreateArrayOfIs ==
  ASSUME CreateArrayOf
  PROVE  \E a \in Items, n \in 1 .. Cardinality(Items) - 1 :
           \E s \in [1 .. n -> Items \ {a}] : \E all, h : MakesArray(a, n, s, all, h)
<1>1. PICK a \in Items, n \in 1 .. Cardinality(Items) - 1 :
        \E s \in [1 .. n -> Items \ {a}] :
          MakesArray(a, n, s, {a} \cup Elements_(s), Cleared(m, {a} \cup Elements_(s)))
  BY DEF CreateArrayOf, MakesArray, New_Item
<1> QED BY <1>1

(* cJSON_CreateIntArray() and the like.                                      *)
LEMMA CreateArrayOfKeeps ==
  ASSUME TreeInv, CreateArrayOf
  PROVE  TreeInv'
<1>1. PICK a \in Items, n \in 1 .. Cardinality(Items) - 1 :
        \E s \in [1 .. n -> Items \ {a}] : \E all, h : MakesArray(a, n, s, all, h)
  BY CreateArrayOfIs
<1>1a. PICK s \in [1 .. n -> Items \ {a}] : \E all, h : MakesArray(a, n, s, all, h)
  BY <1>1
<1>2. PICK all, h : MakesArray(a, n, s, all, h)
  BY <1>1a
<1>3. n \in Nat \ {0} /\ 1 \in 1 .. n /\ n \in 1 .. n /\ DOMAIN s = 1 .. n
  BY ItemsAssumption, FS_CardinalityType
<1>4. s \in Seq(Items) /\ Len(s) = n /\ s # <<>> /\ \A i \in 1 .. n : s[i] \in Items /\ s[i] # a
  BY <1>3
<1>5. all \in SUBSET (Items \ live) /\ a \in all /\ all = {a} \cup Elements_(s)
      /\ \A i, j \in 1 .. n : i # j => s[i] # s[j]
  BY <1>2 DEF MakesArray
<1>6. Elements_(s) = {s[i] : i \in 1 .. n} /\ Elements_(<<>>) = {} /\ DOMAIN <<>> = {}
  BY <1>3 DEF Elements_
<1> DEFINE K1 == [kids EXCEPT ![a] = s]
           h1 == ArrayLinks(h, a, s, n)
<1>7. /\ kids \in [Items -> Seq(Items)] /\ m \in Heap
      /\ \A x \in Items \ live : kids[x] = <<>>
      /\ Tree(m, kids, live, held, ref, of) /\ Forest(kids, live, held, ref)
  BY TreeFacts DEF TreeInv, Tree
<1>8. K1 \in [Items -> Seq(Items)] /\ K1[a] = s /\ (\A x \in Items \ {a} : K1[x] = kids[x])
  BY <1>4, <1>7
<1>9. /\ h \in Heap
      /\ \A x \in Items : /\ h.child[x] = IF x \in all THEN NULL ELSE m.child[x]
                          /\ h.next[x] = IF x \in all THEN NULL ELSE m.next[x]
                          /\ h.prev[x] = IF x \in all THEN NULL ELSE m.prev[x]
  BY <1>2, <1>7, ClearedIs DEF MakesArray
<1> HIDE DEF K1
<1>10. \A x \in all : x # a => K1[x] = <<>> /\ Elements_(K1[x]) = {} /\ DOMAIN K1[x] = {}
  BY <1>5, <1>6, <1>7, <1>8
<1>11. a \notin Elements_(s)
  BY <1>4, <1>6
<1>12. NewNodes(kids, K1, all, a)
  <2>1. \A x \in all : Elements_(K1[x]) \subseteq all \ {a}
    BY <1>5, <1>8, <1>10, <1>11
  <2>2. ASSUME NEW x \in all, NEW y \in all, NEW i \in DOMAIN K1[x], NEW j \in DOMAIN K1[y],
               K1[x][i] = K1[y][j]
        PROVE  x = y /\ i = j
    <3>1. x = a /\ y = a
      BY <1>10
    <3> QED BY <1>3, <1>5, <1>8, <2>2, <3>1
  <2>3. \A z \in all \ {a} : \E x \in all : z \in Elements_(K1[x])
    BY <1>5, <1>8
  <2>4. ASSUME NEW S \in SUBSET all, S # {} PROVE \E x \in S : Elements_(K1[x]) \cap S = {}
    <3>1. CASE \E x \in S : x # a
      BY <1>10, <3>1
    <3>2. CASE ~ \E x \in S : x # a
      <4>1. S = {a}
        BY <2>4, <3>2
      <4> QED BY <1>8, <1>11, <4>1
    <3> QED BY <3>1, <3>2
  <2>5. \A x \in Items \ all : K1[x] = kids[x]
    BY <1>5, <1>8
  <2> QED BY <1>8, <2>1, <2>2, <2>3, <2>4, <2>5 DEF NewNodes
<1> HIDE DEF h1
<1>13. MadeList(h, h1, a, s, n)
  <2>1. s \in [1 .. n -> Items]
    OBVIOUS
  <2>2. \A i \in 1 .. n : h.next[s[i]] = NULL
    BY <1>4, <1>5, <1>6, <1>9
  <2> QED BY <1>3, <1>5, <1>9, <2>1, <2>2, NewListLinks DEF h1
<1>14. NewLinks(m, h1, K1, all, a)
  <2>1. Linked(h1, a, K1[a])
    BY <1>3, <1>4, <1>8, <1>13 DEF Linked, MadeList
  <2>2. ASSUME NEW x \in all, x # a PROVE Linked(h1, x, K1[x])
    BY <1>5, <1>9, <1>10, <1>13, <2>2 DEF Linked, MadeList
  <2>3. Alone(h1, a)
    BY <1>4, <1>5, <1>9, <1>13 DEF Alone, MadeList
  <2>4. ASSUME NEW x \in Items \ all
        PROVE  h1.child[x] = m.child[x] /\ h1.next[x] = m.next[x] /\ h1.prev[x] = m.prev[x]
    <3>1. x # a /\ \A i \in 1 .. n : s[i] # x
      BY <1>5, <1>6
    <3> QED BY <1>9, <1>13, <3>1 DEF MadeList
  <2>5. \A x \in all : Linked(h1, x, K1[x])
    BY <2>1, <2>2
  <2> QED BY <1>13, <2>3, <2>4, <2>5 DEF NewLinks, MadeList
<1>15. Tree(h1, K1, live \cup all, held \cup {a}, ref, of)
  BY <1>5, <1>7, <1>12, <1>14, NewTree
<1>16. /\ m' = h1 /\ kids' = K1 /\ live' = live \cup all /\ held' = held \cup {a}
       /\ ref' = ref /\ of' = of
  BY <1>2 DEF MakesArray, h1, K1
<1> QED BY <1>15, <1>16 DEF TreeInv

(* cJSON_DetachItemFromArray().                                              *)
LEMMA DetachFromArrayKeeps ==
  ASSUME TreeInv, NEW p, NEW which \in Nat, DetachItemFromArray(p, which)
  PROVE  TreeInv'
<1>1. Unshared(p) /\ DetachItem(p, get_array_item(p, which), which + 1)
      /\ get_array_item(p, which) # NULL
  BY DEF DetachItemFromArray, DetachItem
<1>2. which + 1 \in DOMAIN kids[p] /\ get_array_item(p, which) = kids[p][which + 1]
  BY <1>1, PlaceInArray DEF Unshared
<1> QED BY <1>1, <1>2, DetachKeeps

(* cJSON_DeleteItemFromArray().                                              *)
LEMMA DeleteFromArrayKeeps ==
  ASSUME TreeInv, NEW p, NEW which \in Nat, DeleteItemFromArray(p, which)
  PROVE  TreeInv'
<1>1. Unshared(p) /\ DeleteItem(p, get_array_item(p, which), which + 1)
      /\ get_array_item(p, which) # NULL
  BY DEF DeleteItemFromArray, DeleteItem
<1>2. which + 1 \in DOMAIN kids[p] /\ get_array_item(p, which) = kids[p][which + 1]
  BY <1>1, PlaceInArray DEF Unshared
<1> QED BY <1>1, <1>2, DeleteItemKeeps

(* cJSON_DetachItemFromObject().                                             *)
LEMMA DetachFromObjectKeeps ==
  ASSUME TreeInv, NEW p, NEW string, NEW case_sensitive,
         DetachItemFromObject(p, string, case_sensitive)
  PROVE  TreeInv'
<1>1. /\ Unshared(p) /\ IsObject(p) /\ object_item(p, string, case_sensitive) # NULL
      /\ DetachItem(p, object_item(p, string, case_sensitive),
                    PlaceOf(p, string, case_sensitive))
  BY DEF DetachItemFromObject, DetachItem
<1>2. PICK place \in DOMAIN kids[p] :
        /\ place = PlaceOf(p, string, case_sensitive)
        /\ object_item(p, string, case_sensitive) = kids[p][place]
  BY <1>1, FieldAtPlace DEF Unshared
<1> QED BY <1>1, <1>2, DetachKeeps

(* cJSON_DeleteItemFromObject().                                             *)
LEMMA DeleteFromObjectKeeps ==
  ASSUME TreeInv, NEW p, NEW string, NEW case_sensitive,
         DeleteItemFromObject(p, string, case_sensitive)
  PROVE  TreeInv'
<1>1. /\ Unshared(p) /\ IsObject(p) /\ object_item(p, string, case_sensitive) # NULL
      /\ DeleteItem(p, object_item(p, string, case_sensitive),
                    PlaceOf(p, string, case_sensitive))
  BY DEF DeleteItemFromObject, DeleteItem
<1>2. PICK place \in DOMAIN kids[p] :
        /\ place = PlaceOf(p, string, case_sensitive)
        /\ object_item(p, string, case_sensitive) = kids[p][place]
  BY <1>1, FieldAtPlace DEF Unshared
<1> QED BY <1>1, <1>2, DeleteItemKeeps

(* cJSON_ReplaceItemInArray().                                               *)
LEMMA ReplaceInArrayKeeps ==
  ASSUME TreeInv, NEW p \in live, NEW which \in Nat, NEW replacement,
         ReplaceItemInArray(p, which, replacement)
  PROVE  TreeInv'
<1>1. /\ MayGive(replacement, p) /\ get_array_item(p, which) # NULL
      /\ ReplaceItem(p, name, get_array_item(p, which), which + 1, replacement)
  BY DEF ReplaceItemInArray
<1>2. which + 1 \in DOMAIN kids[p] /\ get_array_item(p, which) = kids[p][which + 1]
  BY <1>1, GivenOutside, PlaceInArray
<1> QED BY <1>1, <1>2, ReplaceItemKeeps

(* Where a path leads, one step after the other.                             *)
LeadsAlong(f, item, q, n) ==
  f = [k \in 0 .. n |-> IF k = 0 THEN item ELSE get_array_item(f[k - 1], q[k])]

(* There is a walk along each path.                                          *)
LEMMA LeadsAlongExists ==
  ASSUME NEW item, NEW q, NEW n \in Nat
  PROVE  \E f : LeadsAlong(f, item, q, n)
<1> USE DEF LeadsAlong
<1> DEFINE T == {k \in Nat : \E f : LeadsAlong(f, item, q, k)}
<1>1. 0 \in T
  <2>1. LeadsAlong([k \in 0 .. 0 |-> item], item, q, 0)
    OBVIOUS
  <2> QED BY <2>1
<1>2. ASSUME NEW k \in Nat, k \in T PROVE k + 1 \in T
  <2>1. PICK f : LeadsAlong(f, item, q, k)
    BY <1>2
  <2> DEFINE e == [j \in 0 .. k + 1 |-> IF j <= k THEN f[j] ELSE get_array_item(f[k], q[k + 1])]
             Def(j) == IF j = 0 THEN item ELSE get_array_item(e[j - 1], q[j])
  <2>2. \A j \in 0 .. k : f[j] = IF j = 0 THEN item ELSE get_array_item(f[j - 1], q[j])
    BY <2>1
  <2>3. ASSUME NEW j \in 0 .. k + 1 PROVE e[j] = Def(j)
    <3>1. CASE j = 0
      BY <2>2, <3>1
    <3>2. CASE j \in 1 .. k
      <4>1. e[j] = f[j] /\ e[j - 1] = f[j - 1] /\ j \in 0 .. k /\ j # 0
        BY <3>2
      <4> HIDE DEF e
      <4> QED BY <2>2, <4>1
    <3>3. CASE j = k + 1
      <4>1. e[j] = get_array_item(f[k], q[k + 1]) /\ e[j - 1] = f[k] /\ j # 0
        BY <3>3
      <4> HIDE DEF e
      <4> QED BY <3>3, <4>1
    <3> QED BY <3>1, <3>2, <3>3
  <2>4. e = [j \in 0 .. k + 1 |-> Def(j)]
    <3> HIDE DEF Def
    <3> QED BY <2>3
  <2>5. LeadsAlong(e, item, q, k + 1)
    <3> HIDE DEF e
    <3> QED BY <2>4
  <2> HIDE DEF LeadsAlong
  <2> QED BY <2>5
<1>3. n \in T
  <2> HIDE DEF T
  <2> QED BY <1>1, <1>2, SetInduction
<1> QED BY <1>3

(* Reached is the end of that walk.                                          *)
LEMMA ReachedIs ==
  ASSUME NEW item, NEW q
  PROVE  Len(q) \in Nat => \E f : LeadsAlong(f, item, q, Len(q)) /\ Reached(item, q) = f[Len(q)]
<1> SUFFICES ASSUME Len(q) \in Nat
             PROVE  \E f : LeadsAlong(f, item, q, Len(q)) /\ Reached(item, q) = f[Len(q)]
  OBVIOUS
<1> DEFINE at == CHOOSE f : LeadsAlong(f, item, q, Len(q))
<1>1. Reached(item, q) = at[Len(q)]
  BY DEF Reached, LeadsAlong
<1>2. LeadsAlong(at, item, q, Len(q))
  BY LeadsAlongExists
<1> QED BY <1>1, <1>2

(* One more step of a path leads to that child.                              *)
LEMMA ReachedSteps ==
  ASSUME NEW item
  PROVE  /\ Reached(item, <<>>) = item
         /\ \A p \in Seq(Nat), i \in Nat :
              Reached(item, Append(p, i)) = get_array_item(Reached(item, p), i)
<1>1. Reached(item, <<>>) = item
  <2>1. PICK q : q = <<>> /\ Len(q) = 0 /\ Len(q) \in Nat
    OBVIOUS
  <2>2. PICK f : LeadsAlong(f, item, q, Len(q)) /\ Reached(item, q) = f[Len(q)]
    BY <2>1, ReachedIs
  <2>3. f = [k \in 0 .. 0 |-> IF k = 0 THEN item ELSE get_array_item(f[k - 1], q[k])]
    BY <2>1, <2>2 DEF LeadsAlong
  <2>4. f[0] = item
    BY <2>3
  <2> QED BY <2>1, <2>2, <2>4
<1>2. ASSUME NEW p \in Seq(Nat), NEW i \in Nat
      PROVE  Reached(item, Append(p, i)) = get_array_item(Reached(item, p), i)
  <2>1. PICK n \in Nat : n = Len(p)
    OBVIOUS
  <2> DEFINE q == Append(p, i)
  <2>2. q = Append(p, i) /\ Len(q) = n + 1 /\ q[n + 1] = i /\ \A k \in 1 .. n : q[k] = p[k]
    BY <2>1
  <2> HIDE DEF q
  <2>3. PICK f : LeadsAlong(f, item, q, n + 1) /\ Reached(item, q) = f[n + 1]
    <3>1. Len(q) \in Nat
      BY <2>2
    <3>2. \E f : LeadsAlong(f, item, q, Len(q)) /\ Reached(item, q) = f[Len(q)]
      BY <3>1, ReachedIs
    <3> QED BY <2>2, <3>2
  <2>4. PICK g : LeadsAlong(g, item, p, n) /\ Reached(item, p) = g[n]
    <3>1. Len(p) \in Nat
      BY <2>1
    <3>2. \E g : LeadsAlong(g, item, p, Len(p)) /\ Reached(item, p) = g[Len(p)]
      BY <3>1, ReachedIs
    <3> QED BY <2>1, <3>2
  <2>5. \A k \in 0 .. n + 1 : f[k] = IF k = 0 THEN item ELSE get_array_item(f[k - 1], q[k])
    BY <2>3 DEF LeadsAlong
  <2>6. \A k \in 0 .. n : g[k] = IF k = 0 THEN item ELSE get_array_item(g[k - 1], p[k])
    BY <2>4 DEF LeadsAlong
  <2> DEFINE V == {k \in Nat : k <= n => f[k] = g[k]}
  <2>7. 0 \in V
    BY <2>5, <2>6
  <2>8. ASSUME NEW k \in Nat, k \in V PROVE k + 1 \in V
    <3> SUFFICES ASSUME k + 1 <= n PROVE f[k + 1] = g[k + 1]
      OBVIOUS
    <3>1. k + 1 \in 0 .. n + 1 /\ k + 1 \in 0 .. n /\ k + 1 # 0 /\ (k + 1) - 1 = k
          /\ q[k + 1] = p[k + 1]
      BY <2>2
    <3>2. f[k] = g[k]
      BY <2>8
    <3>3. f[k + 1] = get_array_item(f[k], q[k + 1])
      BY <2>5, <3>1
    <3>4. g[k + 1] = get_array_item(g[k], p[k + 1])
      BY <2>6, <3>1
    <3> QED BY <3>1, <3>2, <3>3, <3>4
  <2>9. f[n] = g[n]
    <3>1. n \in V
      <4> HIDE DEF V
      <4> QED BY <2>7, <2>8, SetInduction
    <3> QED BY <3>1
  <2>10. f[n + 1] = get_array_item(f[n], q[n + 1])
    <3>1. n + 1 \in 0 .. n + 1 /\ n + 1 # 0 /\ (n + 1) - 1 = n
      OBVIOUS
    <3> QED BY <2>5, <3>1
  <2> QED BY <2>2, <2>3, <2>4, <2>9, <2>10
<1> QED BY <1>1, <1>2

(* The paths that lead to an item, and those that are longer by one.         *)
SizeAt(item, p) == Len(KidsOf(Reached(item, p)))
Good(item) == {p \in Seq(Nat) : Reached(item, p) \in live}
Longer(item, p) == {Append(p, i) : i \in 0 .. SizeAt(item, p) - 1}

(* A path to an item goes on to each of its children.                        *)
LEMMA GoodLonger ==
  ASSUME TreeInv, NEW item \in live
  PROVE  /\ <<>> \in Good(item)
         /\ \A p \in Good(item) : /\ SizeAt(item, p) \in Many /\ SizeAt(item, p) \in Nat
                                  /\ cJSON_GetArraySize(Reached(item, p)) = SizeAt(item, p)
                                  /\ Longer(item, p) \subseteq Good(item)
<1>1. <<>> \in Good(item)
  BY ReachedSteps DEF Good
<1>2. ASSUME NEW p \in Good(item)
      PROVE  /\ SizeAt(item, p) \in Many /\ SizeAt(item, p) \in Nat
             /\ cJSON_GetArraySize(Reached(item, p)) = SizeAt(item, p)
             /\ Longer(item, p) \subseteq Good(item)
  <2>1. PICK x \in live : x = Reached(item, p) /\ p \in Seq(Nat)
    BY DEF Good
  <2>2. PICK s \in Seq(Items) : s = KidsOf(x) /\ Elements_(s) \subseteq live
    BY KidsOfIs
  <2>3. cJSON_GetArraySize(x) = Len(s) /\ Len(s) \in Many /\ Len(s) \in Nat
    BY <2>2, ArraySizeIs
  <2>4. ASSUME NEW i \in 0 .. Len(s) - 1 PROVE Append(p, i) \in Good(item)
    <3>1. i \in Nat /\ i < Len(s) /\ i + 1 \in DOMAIN s
      BY <2>3
    <3>2. get_array_item(x, i) = s[i + 1]
      BY <2>2, <3>1, WalksList
    <3>3. s[i + 1] \in live
      BY <2>2, <3>1 DEF Elements_
    <3>4. Reached(item, Append(p, i)) \in live
      <4>1. Reached(item, Append(p, i)) = get_array_item(Reached(item, p), i)
        BY <2>1, <3>1, ReachedSteps
      <4> QED BY <2>1, <3>2, <3>3, <4>1
    <3>5. Append(p, i) \in Seq(Nat)
      BY <2>1, <3>1
    <3> QED BY <3>4, <3>5 DEF Good
  <2> QED BY <2>1, <2>2, <2>3, <2>4 DEF SizeAt, Longer
<1> QED BY <1>1, <1>2

PathStep(item) ==
  [X \in SUBSET Good(item) |-> X \cup UNION {Longer(item, p) : p \in X}]
PathsUpto(u, item) ==
  /\ u \in [Nat -> SUBSET Good(item)] /\ u[0] = {<<>>}
  /\ \A n \in Nat : u[n + 1] = u[n] \cup UNION {Longer(item, p) : p \in u[n]}

(* The paths of a call are found in Cardinality(Items) rounds.               *)
LEMMA PathsAre ==
  ASSUME TreeInv, NEW item \in live
  PROVE  \E u : PathsUpto(u, item) /\ Paths(item) = u[Cardinality(Items)]
<1> DEFINE Reads(p) == {Append(p, i) : i \in 0 .. cJSON_GetArraySize(Reached(item, p)) - 1}
           Def(f, k) == IF k = 0 THEN {<<>>} ELSE f[k - 1] \cup UNION {Reads(p) : p \in f[k - 1]}
           upto == CHOOSE f : f = [k \in Nat |-> Def(f, k)]
           d == [n \in Nat |-> PathStep(item)]
<1>1. Paths(item) = upto[Cardinality(Items)]
  BY DEF Paths
<1>2. \A p \in Good(item) : Reads(p) = Longer(item, p) /\ Longer(item, p) \subseteq Good(item)
  BY GoodLonger DEF Longer
<1> HIDE DEF Reads
<1>3. PathStep(item) \in [SUBSET Good(item) -> SUBSET Good(item)]
  BY <1>2 DEF PathStep
<1>4. \E f : Follows(f, SUBSET Good(item), {<<>>}, d)
  <2>1. d \in Steps(SUBSET Good(item))
    BY <1>3 DEF Steps
  <2>2. {<<>>} \in SUBSET Good(item)
    BY GoodLonger
  <2> HIDE DEF d
  <2> QED BY ONLY <2>1, <2>2, RecursionExists
<1>5. PICK f : /\ f \in [Nat -> SUBSET Good(item)] /\ f[0] = {<<>>}
               /\ \A n \in Nat : f[n + 1] = PathStep(item)[f[n]]
  BY <1>4 DEF Follows
<1>6. ASSUME NEW X \in SUBSET Good(item)
      PROVE  /\ PathStep(item)[X] = X \cup UNION {Reads(p) : p \in X}
             /\ PathStep(item)[X] = X \cup UNION {Longer(item, p) : p \in X}
  <2>1. \A p \in X : Reads(p) = Longer(item, p)
    BY <1>2
  <2>2. {Reads(p) : p \in X} = {Longer(item, p) : p \in X}
    BY <2>1
  <2> QED BY <2>2 DEF PathStep
<1>7. f = [k \in Nat |-> Def(f, k)]
  <2>1. \A k \in Nat : f[k] = Def(f, k)
    <3> SUFFICES ASSUME NEW k \in Nat PROVE f[k] = Def(f, k)
      OBVIOUS
    <3>1. CASE k = 0
      BY <1>5, <3>1
    <3>2. CASE k # 0
      <4>1. k - 1 \in Nat /\ (k - 1) + 1 = k
        BY <3>2
      <4>2. f[k] = PathStep(item)[f[k - 1]] /\ f[k - 1] \in SUBSET Good(item)
        BY <1>5, <4>1
      <4> QED BY <1>6, <3>2, <4>2
    <3> QED BY <3>1, <3>2
  <2> QED BY <2>1, <1>5
<1>8. upto = [k \in Nat |-> Def(upto, k)]
  <2>1. \E g : g = [k \in Nat |-> Def(g, k)]
    BY <1>7
  <2> QED BY <2>1
<1> HIDE DEF upto
<1>9. upto[0] = {<<>>}
  BY <1>8
<1>10. \A n \in Nat : upto[n + 1] = upto[n] \cup UNION {Reads(p) : p \in upto[n]}
  <2> SUFFICES ASSUME NEW n \in Nat
               PROVE  upto[n + 1] = upto[n] \cup UNION {Reads(p) : p \in upto[n]}
    OBVIOUS
  <2>1. n + 1 \in Nat /\ n + 1 # 0 /\ (n + 1) - 1 = n
    OBVIOUS
  <2> QED BY <1>8, <2>1
<1>11. \A n \in Nat : upto[n] \in SUBSET Good(item)
  <2> DEFINE V == {n \in Nat : upto[n] \in SUBSET Good(item)}
  <2>1. 0 \in V
    BY <1>9, GoodLonger
  <2>2. ASSUME NEW n \in Nat, n \in V PROVE n + 1 \in V
    <3>1. upto[n] \in SUBSET Good(item)
      BY <2>2
    <3>2. upto[n + 1] = PathStep(item)[upto[n]]
      BY <1>6, <1>10, <3>1
    <3>3. upto[n + 1] \in SUBSET Good(item)
      BY <1>3, <3>1, <3>2
    <3> QED BY <3>3
  <2>3. Nat \subseteq V
    <3> HIDE DEF V
    <3> QED BY <2>1, <2>2, SetInduction
  <2> QED BY <2>3
<1>12. \A n \in Nat : upto[n + 1] = upto[n] \cup UNION {Longer(item, p) : p \in upto[n]}
  BY <1>6, <1>10, <1>11
<1>13. upto \in [Nat -> SUBSET Good(item)]
  <2>1. DOMAIN upto = Nat /\ upto = [k \in Nat |-> upto[k]]
    BY <1>8
  <2> QED BY <1>11, <2>1
<1> QED BY <1>1, <1>9, <1>12, <1>13 DEF PathsUpto

(* A path is there with its beginnings, and with what it can be extended by  *)
(* as long as the model follows it.                                          *)
LEMMA PathsUptoFacts ==
  ASSUME TreeInv, NEW item \in live, NEW u, PathsUpto(u, item)
  PROVE  /\ \A n, k \in Nat : n <= k => u[n] \subseteq u[k]
         /\ \A k \in Nat : \A p \in u[k] : Len(p) <= k /\ \A j \in 0 .. Len(p) : SubSeq(p, 1, j) \in u[j]
         /\ \A k \in Nat : \A p \in u[k] : p = <<>> \/ \E q \in u[k] : p \in Longer(item, q)
<1>1. /\ \A n \in Nat : u[n] \subseteq Good(item)
      /\ u[0] = {<<>>}
      /\ \A n \in Nat : u[n + 1] = u[n] \cup UNION {Longer(item, p) : p \in u[n]}
  BY DEF PathsUpto
<1>2. ASSUME NEW n \in Nat, NEW k \in Nat, n <= k PROVE u[n] \subseteq u[k]
  <2> DEFINE V == {j \in Nat : u[n] \subseteq u[n + j]}
  <2>1. 0 \in V
    OBVIOUS
  <2>2. ASSUME NEW j \in Nat, j \in V PROVE j + 1 \in V
    <3>1. n + j \in Nat /\ n + (j + 1) = (n + j) + 1
      OBVIOUS
    <3> QED BY <1>1, <2>2, <3>1
  <2>3. k - n \in V /\ n + (k - n) = k
    <3> HIDE DEF V
    <3>1. k - n \in Nat /\ n + (k - n) = k
      BY <1>2
    <3> QED BY <2>1, <2>2, <3>1, SetInduction
  <2> QED BY <2>3
<1>3. ASSUME NEW k \in Nat, NEW p \in u[k + 1], p \notin u[k]
      PROVE  \E q \in u[k], i \in Nat : p = Append(q, i) /\ p \in Longer(item, q) /\ q \in Seq(Nat)
  <2>1. PICK q \in u[k] : p \in Longer(item, q)
    BY <1>1, <1>3
  <2>2. q \in Good(item) /\ SizeAt(item, q) \in Nat
    BY <1>1, <2>1, GoodLonger
  <2>3. PICK i \in 0 .. SizeAt(item, q) - 1 : p = Append(q, i)
    BY <2>1 DEF Longer
  <2>4. i \in Nat /\ q \in Seq(Nat)
    BY <2>2, <2>3 DEF Good
  <2> QED BY <2>1, <2>3, <2>4
<1> DEFINE Begins(k) == \A p \in u[k] : Len(p) <= k /\ \A j \in 0 .. Len(p) : SubSeq(p, 1, j) \in u[j]
           V == {k \in Nat : Begins(k)}
<1>4. 0 \in V
  <2>1. Len(<<>>) = 0 /\ SubSeq(<<>>, 1, 0) = <<>>
    OBVIOUS
  <2>2. ASSUME NEW p \in u[0] PROVE Len(p) <= 0 /\ \A j \in 0 .. Len(p) : SubSeq(p, 1, j) \in u[j]
    <3>1. u[0] = {<<>>} /\ p = <<>>
      BY <1>1
    <3>2. Len(p) = 0 /\ SubSeq(p, 1, 0) \in u[0]
      BY <2>1, <3>1
    <3>3. \A j \in 0 .. 0 : j = 0
      OBVIOUS
    <3> QED BY <3>2, <3>3
  <2> QED BY <2>2
<1>5. ASSUME NEW k \in Nat, k \in V PROVE k + 1 \in V
  <2> SUFFICES ASSUME NEW p \in u[k + 1]
               PROVE  Len(p) <= k + 1 /\ \A j \in 0 .. Len(p) : SubSeq(p, 1, j) \in u[j]
    OBVIOUS
  <2>1. p \in Seq(Nat) /\ Len(p) \in Nat
    <3>1. k + 1 \in Nat
      OBVIOUS
    <3> QED BY <1>1, <3>1 DEF Good
  <2>2. CASE p \in u[k]
    <3>1. Len(p) <= k /\ \A j \in 0 .. Len(p) : SubSeq(p, 1, j) \in u[j]
      BY <1>5, <2>2
    <3> QED BY <2>1, <3>1
  <2>3. CASE p \notin u[k]
    <3>1. PICK q \in u[k], i \in Nat : p = Append(q, i) /\ p \in Longer(item, q) /\ q \in Seq(Nat)
      BY <1>3, <2>3
    <3>2. PICK n \in Nat : n = Len(q) /\ Len(p) = n + 1
      BY <3>1
    <3>3. n <= k /\ \A j \in 0 .. n : SubSeq(q, 1, j) \in u[j]
      BY <1>5, <3>2
    <3>4. \A j \in 0 .. n : SubSeq(p, 1, j) = SubSeq(q, 1, j)
      BY <3>1, <3>2
    <3>5. SubSeq(q, 1, n) = q /\ SubSeq(p, 1, n + 1) = p
      BY <3>1, <3>2, <2>1
    <3>6. p \in u[n + 1]
      <4>1. n \in 0 .. n
        OBVIOUS
      <4>2. q \in u[n]
        BY <3>3, <3>5, <4>1
      <4>3. u[n + 1] = u[n] \cup UNION {Longer(item, x) : x \in u[n]}
        BY <1>1
      <4> QED BY <3>1, <4>2, <4>3
    <3>7. ASSUME NEW j \in 0 .. Len(p) PROVE SubSeq(p, 1, j) \in u[j]
      <4>1. CASE j = n + 1
        BY <3>5, <3>6, <4>1
      <4>2. CASE j # n + 1
        <5>1. j \in 0 .. n
          BY <3>2, <4>2
        <5> QED BY <3>3, <3>4, <5>1
      <4> QED BY <4>1, <4>2
    <3>8. Len(p) <= k + 1
      BY <3>2, <3>3
    <3> QED BY <3>7, <3>8
  <2> QED BY <2>2, <2>3
<1>6. Nat \subseteq V
  <2> HIDE DEF V
  <2> QED BY <1>4, <1>5, SetInduction
<1> DEFINE W == {k \in Nat : \A p \in u[k] : p = <<>> \/ \E q \in u[k] : p \in Longer(item, q)}
<1>7. 0 \in W
  BY <1>1
<1>8. ASSUME NEW k \in Nat, k \in W PROVE k + 1 \in W
  <2>1. u[k] \subseteq u[k + 1]
    BY <1>1
  <2>2. ASSUME NEW p \in u[k + 1], p # <<>> PROVE \E q \in u[k + 1] : p \in Longer(item, q)
    <3>1. CASE p \in u[k]
      BY <1>8, <2>1, <2>2, <3>1
    <3>2. CASE p \notin u[k]
      BY <1>3, <2>1, <3>2
    <3> QED BY <3>1, <3>2
  <2> QED BY <2>2
<1>9. Nat \subseteq W
  <2> HIDE DEF W
  <2> QED BY <1>7, <1>8, SetInduction
<1>10. \A k \in Nat : Begins(k)
  <2> HIDE DEF Begins
  <2> QED BY <1>6
<1> QED BY <1>2, <1>9, <1>10

(* A path is longer than one other path only, by one last step.              *)
LEMMA AppendOnce ==
  ASSUME NEW p \in Seq(Nat), NEW q \in Seq(Nat), NEW i \in Nat, NEW j \in Nat,
         Append(p, i) = Append(q, j)
  PROVE  p = q /\ i = j
<1>1. PICK n \in Nat : n = Len(p) /\ DOMAIN p = 1 .. n /\ p \in [1 .. n -> Nat]
  OBVIOUS
<1>2. PICK k \in Nat : k = Len(q) /\ DOMAIN q = 1 .. k /\ q \in [1 .. k -> Nat]
  OBVIOUS
<1>3. /\ Len(Append(p, i)) = n + 1 /\ Append(p, i)[n + 1] = i
      /\ \A l \in 1 .. n : Append(p, i)[l] = p[l]
  BY <1>1, SMTT(60)
<1>4. /\ Len(Append(q, j)) = k + 1 /\ Append(q, j)[k + 1] = j
      /\ \A l \in 1 .. k : Append(q, j)[l] = q[l]
  BY <1>2, SMTT(60)
<1>5. n = k
  BY <1>3, <1>4
<1>6. \A l \in 1 .. n : p[l] = q[l]
  BY <1>3, <1>4, <1>5
<1> QED BY <1>1, <1>2, <1>3, <1>4, <1>5, <1>6

(* The last step of a longer path, and what there is if it is another.       *)
LEMMA AppendIs ==
  ASSUME NEW p \in Seq(Nat), NEW i \in Nat
  PROVE  /\ Append(p, i) \in Seq(Nat) /\ Append(p, i) # <<>>
         /\ Len(Append(p, i)) = Len(p) + 1 /\ Append(p, i)[Len(p) + 1] = i
         /\ \A j \in Nat : [Append(p, i) EXCEPT ![Len(Append(p, i))] = j] = Append(p, j)
<1>1. /\ Append(p, i) \in Seq(Nat) /\ Len(Append(p, i)) = Len(p) + 1
      /\ Append(p, i)[Len(p) + 1] = i
  OBVIOUS
<1>2. Append(p, i) # <<>>
  BY <1>1
<1>3. ASSUME NEW j \in Nat
      PROVE  [Append(p, i) EXCEPT ![Len(Append(p, i))] = j] = Append(p, j)
  <2>1. PICK n \in Nat : n = Len(p)
    OBVIOUS
  <2> DEFINE a == Append(p, i)
             b == Append(p, j)
  <2>2. /\ Len(a) = n + 1 /\ DOMAIN a = 1 .. n + 1 /\ DOMAIN b = 1 .. n + 1
        /\ b[n + 1] = j /\ \A l \in 1 .. n : a[l] = b[l]
    BY <2>1
  <2>3. b = [l \in 1 .. n + 1 |-> b[l]]
    <3>1. b \in Seq(Nat)
      OBVIOUS
    <3> HIDE DEF b
    <3> QED BY <2>2, <3>1
  <2> HIDE DEF a, b
  <2>4. [a EXCEPT ![n + 1] = j] = [l \in 1 .. n + 1 |-> IF l = n + 1 THEN j ELSE a[l]]
    BY <2>2
  <2>5. \A l \in 1 .. n + 1 : (IF l = n + 1 THEN j ELSE a[l]) = b[l]
    BY <2>2
  <2>6. [a EXCEPT ![n + 1] = j] = b
    BY <2>3, <2>4, <2>5
  <2> QED BY <2>2, <2>6 DEF a, b
<1> QED BY <1>1, <1>2, <1>3

(* The paths of what is copied, and how many children each copy has.         *)
Branches(D, size) ==
  /\ D \subseteq Seq(Nat) /\ <<>> \in D /\ size \in [D -> Many]
  /\ \A p \in D, i \in Nat : Append(p, i) \in D <=> i < size[p]
  /\ \A p \in D : p = <<>> \/ \E q \in D, i \in Nat : p = Append(q, i)
  /\ \A p \in D : Len(p) <= Cardinality(Items)

(* With a place for the copy of each path the rounds miss no path.           *)
LEMMA CopiedBranches ==
  ASSUME TreeInv, NEW item \in live, NEW copy \in Injections(Paths(item), Items \ live)
  PROVE  Branches(Paths(item), [p \in Paths(item) |-> SizeAt(item, p)])
<1> DEFINE C == Cardinality(Items)
           D == Paths(item)
<1>1. PICK u : PathsUpto(u, item) /\ D = u[C]
  BY PathsAre
<1>2. C \in Nat
  BY ItemsAssumption, FS_CardinalityType
<1>3. copy \in [D -> Items] /\ \A x, y \in D : x # y => copy[x] # copy[y]
  BY DEF Injections
<1> HIDE DEF C, D
<1>4. /\ \A n \in Nat : u[n] \subseteq Good(item) /\ u[0] = {<<>>}
      /\ \A n \in Nat : u[n + 1] = u[n] \cup UNION {Longer(item, p) : p \in u[n]}
  BY <1>1 DEF PathsUpto
<1>5. /\ \A n, k \in Nat : n <= k => u[n] \subseteq u[k]
      /\ \A p \in D : Len(p) <= C /\ \A j \in 0 .. Len(p) : SubSeq(p, 1, j) \in u[j]
      /\ \A p \in D : p = <<>> \/ \E q \in D : p \in Longer(item, q)
  <2>1. PathsUpto(u, item)
    BY <1>1
  <2> QED BY <1>1, <1>2, <2>1, PathsUptoFacts
<1>6. /\ D \subseteq Seq(Nat) /\ <<>> \in D
      /\ \A p \in D : SizeAt(item, p) \in Many /\ SizeAt(item, p) \in Nat
  <2>1. D \subseteq Good(item)
    BY <1>1, <1>2, <1>4
  <2>2. <<>> \in D
    <3>1. u[0] \subseteq u[C] /\ <<>> \in u[0]
      BY <1>2, <1>4, <1>5
    <3> QED BY <1>1, <3>1
  <2> QED BY <2>1, <2>2, GoodLonger DEF Good
<1>7. ASSUME NEW p \in D PROVE Len(p) < C
  <2>1. PICK n \in Nat : n = Len(p) /\ p \in Seq(Nat) /\ n <= C
    BY <1>5, <1>6
  <2> DEFINE q(j) == SubSeq(p, 1, j - 1)
             s == [j \in 1 .. n + 1 |-> copy[q(j)]]
  <2>2. ASSUME NEW j \in 1 .. n + 1 PROVE q(j) \in D /\ Len(q(j)) = j - 1
    <3>1. j - 1 \in 0 .. n /\ j - 1 \in Nat /\ j - 1 <= C
      BY <1>2, <2>1
    <3>2. q(j) \in u[j - 1]
      BY <1>5, <2>1, <3>1
    <3>3. u[j - 1] \subseteq u[C]
      BY <1>2, <1>5, <3>1
    <3>4. Len(q(j)) = j - 1
      BY <2>1, <3>1
    <3> QED BY <1>1, <3>2, <3>3, <3>4
  <2> HIDE DEF q
  <2>3. s \in Seq(Items) /\ Len(s) = n + 1 /\ DOMAIN s = 1 .. n + 1
    <3>1. \A j \in 1 .. n + 1 : copy[q(j)] \in Items
      BY <1>3, <2>2
    <3>2. s \in [1 .. n + 1 -> Items]
      BY <3>1
    <3> QED BY <3>2
  <2>4. Distinct(s)
    <3> SUFFICES ASSUME NEW i \in 1 .. n + 1, NEW j \in 1 .. n + 1, s[i] = s[j] PROVE i = j
      BY <2>3 DEF Distinct
    <3>1. q(i) = q(j)
      BY <1>3, <2>2
    <3>2. i - 1 = j - 1
      BY <2>2, <3>1
    <3> QED BY <3>2
  <2> HIDE DEF s
  <2>5. n + 1 <= C
    BY <2>3, <2>4, LenBound DEF C
  <2> QED BY <1>2, <2>1, <2>5
<1>8. ASSUME NEW p \in D, NEW i \in Nat PROVE Append(p, i) \in D <=> i < SizeAt(item, p)
  <2>1. p \in Seq(Nat) /\ SizeAt(item, p) \in Nat
    BY <1>6
  <2>2. ASSUME i < SizeAt(item, p) PROVE Append(p, i) \in D
    <3>1. PICK n \in Nat : n = Len(p) /\ n + 1 <= C /\ n + 1 \in Nat
      BY <1>2, <1>7, <2>1
    <3>2. p \in u[n]
      <4>1. SubSeq(p, 1, n) = p /\ n \in 0 .. n
        BY <2>1, <3>1
      <4>2. \A j \in 0 .. n : SubSeq(p, 1, j) \in u[j]
        BY <1>5, <3>1
      <4> QED BY <4>1, <4>2
    <3>3. Append(p, i) \in Longer(item, p)
      <4>1. i \in 0 .. SizeAt(item, p) - 1
        BY <2>1, <2>2
      <4> QED BY <4>1 DEF Longer
    <3>4. Append(p, i) \in u[n + 1]
      <4>1. u[n + 1] = u[n] \cup UNION {Longer(item, x) : x \in u[n]}
        BY <1>4
      <4> QED BY <3>2, <3>3, <4>1
    <3>5. u[n + 1] \subseteq u[C]
      BY <1>2, <1>5, <3>1
    <3> QED BY <1>1, <3>4, <3>5
  <2>3. ASSUME Append(p, i) \in D PROVE i < SizeAt(item, p)
    <3>1. Append(p, i) # <<>>
      BY <2>1, AppendIs
    <3>2. PICK q \in D : Append(p, i) \in Longer(item, q)
      BY <1>5, <2>3, <3>1
    <3>3. q \in Seq(Nat) /\ SizeAt(item, q) \in Nat
      BY <1>6
    <3>4. PICK j \in 0 .. SizeAt(item, q) - 1 : Append(p, i) = Append(q, j)
      BY <3>2 DEF Longer
    <3>5. j \in Nat /\ j < SizeAt(item, q)
      BY <3>3, <3>4
    <3>6. p = q /\ i = j
      BY <2>1, <3>3, <3>4, <3>5, AppendOnce
    <3> QED BY <3>5, <3>6
  <2> QED BY <2>2, <2>3
<1>9. ASSUME NEW p \in D, p # <<>> PROVE \E q \in D, i \in Nat : p = Append(q, i)
  <2>1. PICK q \in D : p \in Longer(item, q)
    BY <1>5, <1>9
  <2>2. PICK i \in 0 .. SizeAt(item, q) - 1 : p = Append(q, i)
    BY <2>1 DEF Longer
  <2>3. i \in Nat
    BY <1>6, <2>2
  <2> QED BY <2>2, <2>3
<1>10. [p \in D |-> SizeAt(item, p)] \in [D -> Many]
  BY <1>6
<1>11. \A p \in D : [x \in D |-> SizeAt(item, x)][p] = SizeAt(item, p) /\ Len(p) <= C
  BY <1>5
<1>12. PICK size : size = [p \in D |-> SizeAt(item, p)]
  OBVIOUS
<1>13. Branches(D, size)
  BY <1>6, <1>8, <1>9, <1>10, <1>11, <1>12 DEF Branches, C
<1> QED BY <1>12, <1>13 DEF D

(* The pointers of a copy, by its path.                                      *)
To(copy, p) == IF p \in DOMAIN copy THEN copy[p] ELSE NULL
Sibling(p, i) == [p EXCEPT ![Len(p)] = i]
LastOf(copy, p) ==
  CHOOSE i \in Many : Sibling(p, i) \in DOMAIN copy /\ Sibling(p, i + 1) \notin DOMAIN copy
NextOf(copy, p) == IF p = <<>> THEN NULL ELSE To(copy, Sibling(p, p[Len(p)] + 1))
PrevOf(copy, p) ==
  IF p = <<>> THEN NULL
  ELSE To(copy, Sibling(p, IF p[Len(p)] = 0 THEN LastOf(copy, p) ELSE p[Len(p)] - 1))

(* The copies before and after one are those of its neighbours.              *)
LEMMA CopyNeighbours ==
  ASSUME NEW D, NEW size, Branches(D, size), NEW copy \in [D -> Items],
         NEW p \in D, NEW i \in Nat, i < size[p]
  PROVE  /\ size[p] \in Nat
         /\ NextOf(copy, Append(p, i)) = IF i + 1 = size[p] THEN NULL ELSE copy[Append(p, i + 1)]
         /\ PrevOf(copy, Append(p, i)) = IF i = 0 THEN copy[Append(p, size[p] - 1)]
                                         ELSE copy[Append(p, i - 1)]
<1> DEFINE q == Append(p, i)
<1>1. Cardinality(Items) \in Nat /\ DOMAIN copy = D
  BY ItemsAssumption, FS_CardinalityType
<1>2. PICK n \in Nat : n = size[p] /\ n \in Many
  BY <1>1 DEF Branches, Many
<1>3. p \in Seq(Nat) /\ \A j \in Nat : Append(p, j) \in D <=> j < n
  BY <1>2 DEF Branches
<1>4. q # <<>> /\ q[Len(q)] = i /\ \A j \in Nat : Sibling(q, j) = Append(p, j)
  BY <1>3, AppendIs DEF Sibling
<1> HIDE DEF q
<1>5. NextOf(copy, q) = IF i + 1 = n THEN NULL ELSE copy[Append(p, i + 1)]
  <2>1. NextOf(copy, q) = To(copy, Append(p, i + 1))
    <3>1. i + 1 \in Nat
      OBVIOUS
    <3> QED BY <1>4, <3>1 DEF NextOf
  <2>2. Append(p, i + 1) \in D <=> i + 1 # n
    BY <1>2, <1>3
  <2> QED BY <1>1, <2>1, <2>2 DEF To
<1>6. i = 0 => LastOf(copy, q) = n - 1
  <2> DEFINE Is(j) == Sibling(q, j) \in DOMAIN copy /\ Sibling(q, j + 1) \notin DOMAIN copy
  <2>1. \A j \in Many : j \in Nat /\ j + 1 \in Nat
    BY <1>1 DEF Many
  <2>2. \A j \in Many : Is(j) <=> j < n /\ ~(j + 1 < n)
    BY <1>1, <1>3, <1>4, <2>1
  <2>3. n - 1 \in Many /\ \A j \in Many : j < n /\ ~(j + 1 < n) <=> j = n - 1
    BY <1>1, <1>2 DEF Many
  <2>4. (CHOOSE j \in Many : Is(j)) = n - 1
    <3> HIDE DEF Is
    <3> QED BY <2>2, <2>3
  <2> QED BY <2>4 DEF LastOf
<1>7. PrevOf(copy, q) = IF i = 0 THEN copy[Append(p, n - 1)] ELSE copy[Append(p, i - 1)]
  <2>1. CASE i = 0
    <3>1. n - 1 \in Nat /\ n - 1 < n
      BY <1>2, <2>1
    <3>2. PrevOf(copy, q) = To(copy, Append(p, n - 1))
      BY <1>4, <1>6, <2>1, <3>1 DEF PrevOf
    <3>3. Append(p, n - 1) \in D
      BY <1>3, <3>1
    <3> QED BY <1>1, <2>1, <3>2, <3>3 DEF To
  <2>2. CASE i # 0
    <3>1. i - 1 \in Nat /\ i - 1 < n
      BY <1>2, <2>2
    <3>2. PrevOf(copy, q) = To(copy, Append(p, i - 1))
      BY <1>4, <2>2, <3>1 DEF PrevOf
    <3>3. Append(p, i - 1) \in D
      BY <1>3, <3>1
    <3> QED BY <1>1, <2>2, <3>2, <3>3 DEF To
  <2> QED BY <2>1, <2>2
<1> QED BY <1>2, <1>5, <1>7 DEF q

(* The pointers h1 and lists K1 with the copies, which form a tree by their  *)
(* paths.                                                                    *)
Copied(h, h1, K, K1, N, size, copy) ==
  /\ h1 \in Heap /\ K1 \in [Items -> Seq(Items)]
  /\ \A x \in Items \ N : /\ h1.child[x] = h.child[x] /\ h1.next[x] = h.next[x]
                          /\ h1.prev[x] = h.prev[x] /\ K1[x] = K[x]
  /\ \A p \in DOMAIN copy :
       /\ h1.child[copy[p]] = To(copy, Append(p, 0))
       /\ h1.next[copy[p]] = NextOf(copy, p) /\ h1.prev[copy[p]] = PrevOf(copy, p)
       /\ Len(K1[copy[p]]) = size[p]
       /\ \A i \in 1 .. size[p] : K1[copy[p]][i] = copy[Append(p, i - 1)]

CopiedTo(copy, N) ==
  /\ N = {copy[p] : p \in DOMAIN copy}
  /\ \A p, q \in DOMAIN copy : copy[p] = copy[q] => p = q

(* The copies are new items in lists of their own, under the first of them.  *)
LEMMA CopiedNodes ==
  ASSUME NEW h, NEW h1, NEW K, NEW K1, NEW N, NEW D, NEW size, NEW copy \in [D -> Items],
         Branches(D, size), CopiedTo(copy, N), Copied(h, h1, K, K1, N, size, copy)
  PROVE  NewNodes(K, K1, N, copy[<<>>])
<1>1. /\ DOMAIN copy = D /\ N = {copy[p] : p \in D} /\ \A p, q \in D : copy[p] = copy[q] => p = q
  BY DEF CopiedTo
<1>2. Cardinality(Items) \in Nat
  BY ItemsAssumption, FS_CardinalityType
<1>3. \A p \in D : p \in Seq(Nat) /\ size[p] \in Nat /\ Len(p) \in Nat
                   /\ Len(p) <= Cardinality(Items) /\ <<>> \in D
  BY <1>2 DEF Branches, Many
<1>4. \A p \in D, i \in Nat : Append(p, i) \in D <=> i < size[p]
  BY DEF Branches
<1>5. ASSUME NEW p \in D
      PROVE  DOMAIN K1[copy[p]] = 1 .. size[p]
             /\ \A i \in 1 .. size[p] : /\ i - 1 \in Nat /\ Append(p, i - 1) \in D
                                        /\ Append(p, i - 1) # <<>>
                                        /\ K1[copy[p]][i] = copy[Append(p, i - 1)]
  <2>1. K1[copy[p]] \in Seq(Items) /\ Len(K1[copy[p]]) = size[p]
    BY <1>1 DEF Copied
  <2>2. ASSUME NEW i \in 1 .. size[p] PROVE i - 1 \in Nat /\ i - 1 < size[p]
    BY <1>3
  <2>3. ASSUME NEW i \in 1 .. size[p]
        PROVE  Append(p, i - 1) \in D /\ Append(p, i - 1) # <<>>
    BY <1>3, <1>4, <2>2, AppendIs
  <2>4. \A i \in 1 .. size[p] : K1[copy[p]][i] = copy[Append(p, i - 1)]
    BY <1>1 DEF Copied
  <2>5. DOMAIN K1[copy[p]] = 1 .. size[p]
    BY <2>1
  <2> QED BY <2>2, <2>3, <2>4, <2>5
<1>6. ASSUME NEW x \in N PROVE \E p \in D : x = copy[p]
  BY <1>1
<1>7. \A x \in N : Elements_(K1[x]) \subseteq N \ {copy[<<>>]}
  <2> SUFFICES ASSUME NEW p \in D, NEW i \in DOMAIN K1[copy[p]]
               PROVE  K1[copy[p]][i] \in N \ {copy[<<>>]}
    BY <1>6 DEF Elements_
  <2>1. i \in 1 .. size[p]
    BY <1>5
  <2>2. K1[copy[p]][i] = copy[Append(p, i - 1)] /\ Append(p, i - 1) \in D
        /\ Append(p, i - 1) # <<>>
    BY <1>5, <2>1
  <2> QED BY <1>1, <1>3, <2>2
<1>8. \A x, y \in N : \A i \in DOMAIN K1[x], j \in DOMAIN K1[y] :
        K1[x][i] = K1[y][j] => x = y /\ i = j
  <2> SUFFICES ASSUME NEW p \in D, NEW q \in D, NEW i \in DOMAIN K1[copy[p]],
                      NEW j \in DOMAIN K1[copy[q]], K1[copy[p]][i] = K1[copy[q]][j]
               PROVE  p = q /\ i = j
    BY <1>6
  <2>1. i \in 1 .. size[p] /\ j \in 1 .. size[q]
    BY <1>5
  <2>2. Append(p, i - 1) = Append(q, j - 1) /\ i - 1 \in Nat /\ j - 1 \in Nat
    <3>1. i - 1 \in Nat /\ Append(p, i - 1) \in D /\ K1[copy[p]][i] = copy[Append(p, i - 1)]
      BY <1>5, <2>1
    <3>2. j - 1 \in Nat /\ Append(q, j - 1) \in D /\ K1[copy[q]][j] = copy[Append(q, j - 1)]
      BY <1>5, <2>1
    <3> QED BY <1>1, <3>1, <3>2
  <2>3. p = q /\ i - 1 = j - 1
    BY <1>3, <2>2, AppendOnce
  <2> QED BY <2>1, <2>3, <1>3
<1>9. \A z \in N \ {copy[<<>>]} : \E x \in N : z \in Elements_(K1[x])
  <2> SUFFICES ASSUME NEW z \in N \ {copy[<<>>]} PROVE \E x \in N : z \in Elements_(K1[x])
    OBVIOUS
  <2>1. PICK p \in D : z = copy[p] /\ p # <<>>
    BY <1>6
  <2>2. PICK q \in D, i \in Nat : p = Append(q, i)
    BY <2>1 DEF Branches
  <2>3. i < size[q] /\ size[q] \in Nat
    BY <1>3, <1>4, <2>2
  <2>4. i + 1 \in 1 .. size[q] /\ (i + 1) - 1 = i
    BY <2>3
  <2>5. K1[copy[q]][i + 1] = z /\ i + 1 \in DOMAIN K1[copy[q]]
    BY <1>5, <2>1, <2>2, <2>4
  <2>6. copy[q] \in N
    BY <1>1
  <2> QED BY <2>5, <2>6 DEF Elements_
<1>10. ASSUME NEW S \in SUBSET N, S # {} PROVE \E x \in S : Elements_(K1[x]) \cap S = {}
  <2> DEFINE C == Cardinality(Items)
             Left == {C - Len(p) : p \in {p \in D : copy[p] \in S}}
  <2>1. Left \in SUBSET Nat
    BY <1>2, <1>3
  <2>2. Left # {}
    <3>1. PICK x \in S : TRUE
      BY <1>10
    <3>2. PICK p \in D : x = copy[p]
      BY <1>6, <3>1
    <3> QED BY <3>2
  <2>3. PICK k \in Left : \A j \in Left : k <= j
    <3> HIDE DEF Left
    <3> QED BY <2>1, <2>2, LeastOfSet
  <2>4. PICK p \in D : copy[p] \in S /\ k = C - Len(p)
    OBVIOUS
  <2>5. ASSUME NEW i \in DOMAIN K1[copy[p]] PROVE K1[copy[p]][i] \notin S
    <3> SUFFICES ASSUME K1[copy[p]][i] \in S PROVE FALSE
      OBVIOUS
    <3>1. i \in 1 .. size[p]
      BY <1>5
    <3>2. PICK q \in D : q = Append(p, i - 1) /\ copy[q] \in S /\ i - 1 \in Nat
      <4>1. i - 1 \in Nat /\ Append(p, i - 1) \in D /\ K1[copy[p]][i] = copy[Append(p, i - 1)]
        BY <1>5, <3>1
      <4>2. copy[Append(p, i - 1)] \in S
        BY <4>1
      <4> QED BY <4>1, <4>2
    <3>3. Len(q) = Len(p) + 1
      BY <1>3, <3>2, AppendIs
    <3>4. C - Len(q) \in Left
      BY <3>2
    <3>5. k <= C - Len(q)
      <4> HIDE DEF Left
      <4> QED BY <2>3, <3>4
    <3> QED BY <1>2, <1>3, <2>4, <3>3, <3>5
  <2>6. Elements_(K1[copy[p]]) \cap S = {}
    BY <2>5 DEF Elements_
  <2> QED BY <2>4, <2>6
<1>11. K1 \in [Items -> Seq(Items)] /\ \A x \in Items \ N : K1[x] = K[x]
  BY DEF Copied
<1> QED BY <1>7, <1>8, <1>9, <1>10, <1>11 DEF NewNodes

(* And they are linked soundly.                                              *)
LEMMA CopiedLinks ==
  ASSUME NEW h, NEW h1, NEW K, NEW K1, NEW N, NEW D, NEW size, NEW copy \in [D -> Items],
         Branches(D, size), CopiedTo(copy, N), Copied(h, h1, K, K1, N, size, copy)
  PROVE  NewLinks(h, h1, K1, N, copy[<<>>])
<1>1. /\ DOMAIN copy = D /\ N = {copy[p] : p \in D} /\ <<>> \in D
  BY DEF CopiedTo, Branches
<1>2. Cardinality(Items) \in Nat
  BY ItemsAssumption, FS_CardinalityType
<1>3. ASSUME NEW p \in D PROVE Linked(h1, copy[p], K1[copy[p]])
  <2>1. PICK n \in Nat : n = size[p] /\ \A i \in Nat : Append(p, i) \in D <=> i < n
    <3>1. size[p] \in Nat
      BY <1>2 DEF Branches, Many
    <3>2. \A i \in Nat : Append(p, i) \in D <=> i < size[p]
      BY DEF Branches
    <3> QED BY <3>1, <3>2
  <2>2. PICK s \in Seq(Items) : s = K1[copy[p]]
    BY DEF Copied
  <2>3. /\ Len(s) = n /\ DOMAIN s = 1 .. n
        /\ \A i \in 1 .. n : s[i] = copy[Append(p, i - 1)]
        /\ h1.child[copy[p]] = To(copy, Append(p, 0))
        /\ \A q \in D : h1.next[copy[q]] = NextOf(copy, q) /\ h1.prev[copy[q]] = PrevOf(copy, q)
    BY <1>1, <2>1, <2>2 DEF Copied
  <2>4. h1.child[copy[p]] = IF s = <<>> THEN NULL ELSE s[1]
    <3>1. CASE n = 0
      <4>1. Append(p, 0) \notin D /\ s = <<>>
        BY <2>1, <2>3, <3>1
      <4> QED BY <1>1, <2>3, <4>1 DEF To
    <3>2. CASE n # 0
      <4>1. 1 \in 1 .. n /\ 1 - 1 = 0 /\ 0 < n /\ s # <<>>
        BY <2>3, <3>2
      <4>2. Append(p, 0) \in D
        BY <2>1, <4>1
      <4>3. s[1] = copy[Append(p, 0)]
        BY <2>3, <4>1
      <4> QED BY <1>1, <2>3, <4>1, <4>2, <4>3 DEF To
    <3> QED BY <3>1, <3>2
  <2>5. ASSUME NEW i \in DOMAIN s
        PROVE  /\ h1.next[s[i]] = IF i = Len(s) THEN NULL ELSE s[i + 1]
               /\ h1.prev[s[i]] = IF i = 1 THEN s[Len(s)] ELSE s[i - 1]
    <3>1. /\ i \in 1 .. n /\ i - 1 \in Nat /\ i - 1 < n /\ (i - 1) + 1 = i
          /\ (i # n => i + 1 \in 1 .. n /\ (i + 1) - 1 = i)
          /\ (i # 1 => i - 1 \in 1 .. n /\ i - 1 # 0) /\ (i = 1 <=> i - 1 = 0) /\ n \in 1 .. n
      BY <2>3
    <3>2. Append(p, i - 1) \in D
      BY <2>1, <3>1
    <3>3. h1.next[s[i]] = NextOf(copy, Append(p, i - 1))
          /\ h1.prev[s[i]] = PrevOf(copy, Append(p, i - 1))
      BY <2>3, <3>1, <3>2
    <3>4. /\ NextOf(copy, Append(p, i - 1))
               = IF (i - 1) + 1 = n THEN NULL ELSE copy[Append(p, (i - 1) + 1)]
          /\ PrevOf(copy, Append(p, i - 1))
               = IF i - 1 = 0 THEN copy[Append(p, n - 1)] ELSE copy[Append(p, (i - 1) - 1)]
      <4>1. PICK k \in Nat : k = i - 1 /\ k < size[p]
        BY <2>1, <2>3, <3>1
      <4>2. size[p] = n
        BY <2>1, <2>3
      <4>3. /\ NextOf(copy, Append(p, k))
                 = IF k + 1 = size[p] THEN NULL ELSE copy[Append(p, k + 1)]
            /\ PrevOf(copy, Append(p, k))
                 = IF k = 0 THEN copy[Append(p, size[p] - 1)] ELSE copy[Append(p, k - 1)]
        BY <2>1, <4>1, CopyNeighbours
      <4> QED BY <4>1, <4>2, <4>3
    <3>5. i # n => s[i + 1] = copy[Append(p, i)]
      BY <2>3, <3>1
    <3>6. s[n] = copy[Append(p, n - 1)] /\ (i # 1 => s[i - 1] = copy[Append(p, (i - 1) - 1)])
      BY <2>3, <3>1
    <3> QED BY <2>3, <3>1, <3>3, <3>4, <3>5, <3>6
  <2> QED BY <2>2, <2>4, <2>5 DEF Linked
<1>4. Alone(h1, copy[<<>>])
  <2>1. h1.next[copy[<<>>]] = NextOf(copy, <<>>) /\ h1.prev[copy[<<>>]] = PrevOf(copy, <<>>)
    BY <1>1 DEF Copied
  <2> QED BY <2>1 DEF NextOf, PrevOf, Alone
<1>5. \A x \in N : Linked(h1, x, K1[x])
  BY <1>1, <1>3
<1>6. h1 \in Heap /\ \A x \in Items \ N : /\ h1.child[x] = h.child[x] /\ h1.next[x] = h.next[x]
                                          /\ h1.prev[x] = h.prev[x]
  BY DEF Copied
<1> QED BY <1>4, <1>5, <1>6 DEF NewLinks

(* Each path of a call leads to an item.                                     *)
LEMMA PathsGood ==
  ASSUME TreeInv, NEW item \in live
  PROVE  Paths(item) \subseteq Good(item)
<1>1. Cardinality(Items) \in Nat
  BY ItemsAssumption, FS_CardinalityType
<1> QED BY <1>1, PathsAre DEF PathsUpto

(* What a call of cJSON_Duplicate() does, by the paths of the copies.        *)
PathTo(copy, y) == CHOOSE p \in DOMAIN copy : copy[p] = y
CopyKids(item, recurse, copy, p) ==
  IF recurse THEN [i \in DOMAIN KidsOf(Reached(item, p)) |-> To(copy, Append(p, i - 1))]
  ELSE <<>>

CopyHeap(copy, N) ==
  [child |-> [y \in Items |-> IF y \in N THEN To(copy, Append(PathTo(copy, y), 0)) ELSE m.child[y]],
   next |-> [y \in Items |-> IF y \in N THEN NextOf(copy, PathTo(copy, y)) ELSE m.next[y]],
   prev |-> [y \in Items |-> IF y \in N THEN PrevOf(copy, PathTo(copy, y)) ELSE m.prev[y]]]

CopyLists(item, recurse, copy, N) ==
  [y \in Items |-> IF y \in N THEN CopyKids(item, recurse, copy, PathTo(copy, y)) ELSE kids[y]]

(* The call, with its parts named.                                           *)
LEMMA DuplicateIs ==
  ASSUME NEW item, NEW recurse, NEW copy, Duplicate(item, recurse, copy),
         NEW N, N = {copy[p] : p \in DOMAIN copy}
  PROVE  /\ m' = CopyHeap(copy, N)
         /\ kids' = CopyLists(item, recurse, copy, N)
         /\ live' = live \cup N /\ held' = held \cup {copy[<<>>]} /\ ref' = ref /\ of' = of
<1>1. m' = CopyHeap(copy, N)
  BY DEF Duplicate, CopyHeap, To, NextOf, PrevOf, LastOf, Sibling, PathTo
<1>2. kids' = CopyLists(item, recurse, copy, N)
  BY DEF Duplicate, CopyLists, CopyKids, KidsOf, To, PathTo
<1>3. live' = live \cup N /\ held' = held \cup {copy[<<>>]} /\ ref' = ref /\ of' = of
  BY DEF Duplicate
<1> QED BY <1>1, <1>2, <1>3

(* The pointers of each copy, by its path.                                   *)
LEMMA CopyHeapIs ==
  ASSUME m \in Heap, NEW D, NEW copy \in [D -> Items], NEW N, CopiedTo(copy, N)
  PROVE  /\ CopyHeap(copy, N) \in Heap
         /\ \A x \in Items \ N : /\ CopyHeap(copy, N).child[x] = m.child[x]
                                 /\ CopyHeap(copy, N).next[x] = m.next[x]
                                 /\ CopyHeap(copy, N).prev[x] = m.prev[x]
         /\ \A p \in D : /\ CopyHeap(copy, N).child[copy[p]] = To(copy, Append(p, 0))
                         /\ CopyHeap(copy, N).next[copy[p]] = NextOf(copy, p)
                         /\ CopyHeap(copy, N).prev[copy[p]] = PrevOf(copy, p)
                         /\ PathTo(copy, copy[p]) = p
<1>1. DOMAIN copy = D /\ N = {copy[p] : p \in D} /\ \A p, q \in D : copy[p] = copy[q] => p = q
  BY DEF CopiedTo
<1>2. ASSUME NEW p \in D PROVE PathTo(copy, copy[p]) = p
  BY <1>1 DEF PathTo
<1>3. \A p : To(copy, p) \in Pointer
  BY <1>1 DEF To, Pointer
<1>4. \A p : NextOf(copy, p) \in Pointer /\ PrevOf(copy, p) \in Pointer
  BY <1>3 DEF NextOf, PrevOf, Pointer
<1>5. m.child \in [Items -> Pointer] /\ m.next \in [Items -> Pointer] /\ m.prev \in [Items -> Pointer]
  BY DEF Heap
<1> DEFINE h1 == CopyHeap(copy, N)
<1>6. /\ h1.child = [y \in Items |-> IF y \in N THEN To(copy, Append(PathTo(copy, y), 0))
                                     ELSE m.child[y]]
      /\ h1.next = [y \in Items |-> IF y \in N THEN NextOf(copy, PathTo(copy, y)) ELSE m.next[y]]
      /\ h1.prev = [y \in Items |-> IF y \in N THEN PrevOf(copy, PathTo(copy, y)) ELSE m.prev[y]]
      /\ h1 = [child |-> h1.child, next |-> h1.next, prev |-> h1.prev]
  BY DEF CopyHeap
<1> HIDE DEF h1
<1>7. h1.child \in [Items -> Pointer] /\ h1.next \in [Items -> Pointer]
      /\ h1.prev \in [Items -> Pointer]
  BY <1>3, <1>4, <1>5, <1>6
<1>8. h1 \in Heap
  BY <1>6, <1>7 DEF Heap
<1>9. \A x \in Items \ N : /\ h1.child[x] = m.child[x] /\ h1.next[x] = m.next[x]
                           /\ h1.prev[x] = m.prev[x]
  BY <1>6
<1>10. ASSUME NEW p \in D
       PROVE  /\ h1.child[copy[p]] = To(copy, Append(p, 0))
              /\ h1.next[copy[p]] = NextOf(copy, p) /\ h1.prev[copy[p]] = PrevOf(copy, p)
  <2>1. copy[p] \in Items /\ copy[p] \in N /\ PathTo(copy, copy[p]) = p
    BY <1>1, <1>2
  <2> QED BY <1>6, <2>1
<1> QED BY <1>2, <1>8, <1>9, <1>10 DEF h1

(* The children of each copy are the copies of the children.                 *)
LEMMA CopyKidsIs ==
  ASSUME TreeInv, NEW item \in live, NEW D, NEW copy \in [D -> Items], NEW size, Branches(D, size),
         NEW recurse \in BOOLEAN,
         recurse => D = Paths(item) /\ \A p \in D : size[p] = SizeAt(item, p),
         ~recurse => \A p \in D : size[p] = 0,
         NEW p \in D
  PROVE  LET s == CopyKids(item, recurse, copy, p)
         IN  /\ s \in Seq(Items) /\ Len(s) = size[p]
             /\ \A i \in 1 .. size[p] : s[i] = copy[Append(p, i - 1)]
<1> DEFINE s == CopyKids(item, recurse, copy, p)
<1>1. CASE recurse
  <2>1. p \in Good(item) /\ size[p] = SizeAt(item, p)
    BY <1>1, PathsGood
  <2>2. PICK n \in Nat : n = size[p] /\ n = Len(KidsOf(Reached(item, p)))
    BY <2>1, GoodLonger DEF SizeAt
  <2>3. KidsOf(Reached(item, p)) \in Seq(Items)
    BY <2>1, KidsOfIs DEF Good
  <2>4. s = [i \in 1 .. n |-> To(copy, Append(p, i - 1))]
    BY <1>1, <2>2, <2>3 DEF CopyKids
  <2>5. ASSUME NEW i \in 1 .. n
        PROVE  To(copy, Append(p, i - 1)) = copy[Append(p, i - 1)]
               /\ copy[Append(p, i - 1)] \in Items
    <3>1. i - 1 \in Nat /\ i - 1 < size[p]
      BY <2>2
    <3>2. Append(p, i - 1) \in D
      BY <3>1 DEF Branches
    <3> QED BY <3>2 DEF To
  <2> HIDE DEF s
  <2>6. s \in [1 .. n -> Items] /\ \A i \in 1 .. n : s[i] = copy[Append(p, i - 1)]
    BY <2>4, <2>5
  <2>7. s \in Seq(Items) /\ Len(s) = n
    BY <2>6
  <2> QED BY <2>2, <2>6, <2>7 DEF s
<1>2. CASE ~recurse
  <2>1. s = <<>> /\ size[p] = 0
    BY <1>2 DEF CopyKids
  <2>2. <<>> \in Seq(Items) /\ Len(<<>>) = 0 /\ \A i \in 1 .. 0 : FALSE
    OBVIOUS
  <2> HIDE DEF s
  <2> QED BY <2>1, <2>2 DEF s
<1> QED BY <1>1, <1>2

(* cJSON_Duplicate().                                                        *)
LEMMA DuplicateKeeps ==
  ASSUME TreeInv, NEW item \in live, NEW recurse \in BOOLEAN, cJSON_Duplicate(item, recurse)
  PROVE  TreeInv'
<1> DEFINE D == IF recurse THEN Paths(item) ELSE {<<>>}
<1>1. PICK copy \in Injections(D, Items \ live) : Duplicate(item, recurse, copy)
  BY DEF cJSON_Duplicate
<1>2. /\ copy \in [D -> Items] /\ DOMAIN copy = D /\ copy \in [D -> Items \ live]
      /\ \A p, q \in D : copy[p] = copy[q] => p = q
  BY DEF Injections
<1>3. \E size : /\ Branches(D, size)
                /\ recurse => D = Paths(item) /\ \A p \in D : size[p] = SizeAt(item, p)
                /\ ~recurse => \A p \in D : size[p] = 0
  <2>1. CASE recurse
    <3>1. Branches(Paths(item), [p \in Paths(item) |-> SizeAt(item, p)])
      BY <1>1, <2>1, CopiedBranches
    <3>2. \A p \in D : [x \in Paths(item) |-> SizeAt(item, x)][p] = SizeAt(item, p)
      BY <2>1
    <3>3. D = Paths(item)
      BY <2>1
    <3> HIDE DEF D
    <3> QED BY <2>1, <3>1, <3>2, <3>3
  <2>2. CASE ~recurse
    <3>1. PICK size : size = [p \in {<<>>} |-> 0]
      OBVIOUS
    <3>2. Cardinality(Items) \in Nat
      BY ItemsAssumption, FS_CardinalityType
    <3>3. <<>> \in Seq(Nat) /\ Len(<<>>) = 0 /\ \A i \in Nat : Append(<<>>, i) # <<>>
      BY AppendIs
    <3>4. D = {<<>>} /\ size[<<>>] = 0
      BY <2>2, <3>1
    <3>5. size \in [{<<>>} -> Many]
      BY <3>1, <3>2 DEF Many
    <3> HIDE DEF D
    <3>6. Branches(D, size)
      BY <3>2, <3>3, <3>4, <3>5 DEF Branches
    <3> QED BY <2>2, <3>4, <3>6
  <2> QED BY <2>1, <2>2
<1> HIDE DEF D
<1>4. PICK size : /\ Branches(D, size)
                  /\ recurse => D = Paths(item) /\ \A p \in D : size[p] = SizeAt(item, p)
                  /\ ~recurse => \A p \in D : size[p] = 0
  BY <1>3
<1>5. PICK N : N = {copy[p] : p \in D}
  OBVIOUS
<1>6. CopiedTo(copy, N)
  BY <1>2, <1>5 DEF CopiedTo
<1>7. N \in SUBSET (Items \ live) /\ copy[<<>>] \in N
  BY <1>2, <1>4, <1>5 DEF Branches
<1> DEFINE h1 == CopyHeap(copy, N)
           K1 == CopyLists(item, recurse, copy, N)
<1>8. /\ m' = h1 /\ kids' = K1 /\ live' = live \cup N /\ held' = held \cup {copy[<<>>]}
      /\ ref' = ref /\ of' = of
  <2>1. N = {copy[p] : p \in DOMAIN copy}
    BY <1>2, <1>5
  <2> HIDE DEF D, h1, K1
  <2>2. /\ m' = CopyHeap(copy, N) /\ kids' = CopyLists(item, recurse, copy, N)
        /\ live' = live \cup N /\ held' = held \cup {copy[<<>>]} /\ ref' = ref /\ of' = of
    BY <1>1, <2>1, DuplicateIs, Z3
  <2> QED BY <2>2 DEF h1, K1
<1>9. m \in Heap /\ kids \in [Items -> Seq(Items)]
  BY TreeFacts
<1>10. /\ h1 \in Heap
       /\ \A x \in Items \ N : /\ h1.child[x] = m.child[x] /\ h1.next[x] = m.next[x]
                               /\ h1.prev[x] = m.prev[x]
       /\ \A p \in D : /\ h1.child[copy[p]] = To(copy, Append(p, 0))
                       /\ h1.next[copy[p]] = NextOf(copy, p) /\ h1.prev[copy[p]] = PrevOf(copy, p)
                       /\ PathTo(copy, copy[p]) = p
  BY <1>2, <1>6, <1>9, CopyHeapIs
<1> HIDE DEF h1
<1>11. ASSUME NEW p \in D
       PROVE  /\ K1[copy[p]] \in Seq(Items) /\ Len(K1[copy[p]]) = size[p]
              /\ \A i \in 1 .. size[p] : K1[copy[p]][i] = copy[Append(p, i - 1)]
  <2>1. K1[copy[p]] = CopyKids(item, recurse, copy, p)
    BY <1>2, <1>5, <1>10 DEF CopyLists
  <2> HIDE DEF K1
  <2> QED BY <1>2, <1>4, <2>1, CopyKidsIs
<1>12. K1 \in [Items -> Seq(Items)] /\ \A x \in Items \ N : K1[x] = kids[x]
  <2>1. ASSUME NEW y \in N PROVE K1[y] \in Seq(Items)
    BY <1>5, <1>11
  <2>2. \A y \in Items \ N : K1[y] = kids[y]
    BY DEF CopyLists
  <2>3. K1 = [y \in Items |-> K1[y]]
    BY DEF CopyLists
  <2> HIDE DEF K1
  <2> QED BY <1>9, <2>1, <2>2, <2>3
<1> HIDE DEF K1
<1>13. Copied(m, h1, kids, K1, N, size, copy)
  BY <1>2, <1>10, <1>11, <1>12 DEF Copied
<1>14. NewNodes(kids, K1, N, copy[<<>>]) /\ NewLinks(m, h1, K1, N, copy[<<>>])
  BY <1>2, <1>4, <1>6, <1>13, CopiedNodes, CopiedLinks
<1>15. Tree(h1, K1, live \cup N, held \cup {copy[<<>>]}, ref, of)
  BY <1>7, <1>14, NewTree DEF TreeInv
<1> QED BY <1>8, <1>15 DEF TreeInv

-----------------------------------------------------------------------------
(* The invariant holds at the start and after each call.                     *)
LEMMA InitTree ==
  ASSUME TreeInit
  PROVE  TreeInv
<1>1. /\ m = [child |-> [i \in Items |-> NULL], next |-> [i \in Items |-> NULL],
              prev |-> [i \in Items |-> NULL]]
      /\ of = [i \in Items |-> NULL] /\ kids = [i \in Items |-> <<>>]
      /\ ref = {} /\ live = {} /\ held = {}
  BY DEF TreeInit
<1>2. kids \in [Items -> Seq(Items)] /\ \A x \in Items : kids[x] = <<>> /\ DOMAIN kids[x] = {}
      /\ Elements_(kids[x]) = {}
  BY <1>1 DEF Elements_
<1>3. Forest(kids, live, held, ref)
  BY <1>1, <1>2 DEF Forest, ForestTypeOK, OthersEmpty, ChildrenOwned, OnePlace, AllPlaced, Acyclic
<1>4. m \in Heap /\ of \in [Items -> Pointer]
  BY <1>1 DEF Heap, Pointer
<1>5. Pointing(m, kids, live, held, ref, of)
  BY <1>1, <1>4 DEF Pointing
<1> QED BY <1>3, <1>5 DEF TreeInv, Tree

(* Every step keeps the invariant.                                           *)
LEMMA NextTree ==
  ASSUME TreeInv, [TreeNext]_tree_vars
  PROVE  TreeInv'
<1>1. Many \subseteq Nat
  BY ItemsAssumption, FS_CardinalityType DEF Many
<1>2. CASE Create
  BY <1>2, CreateKeeps
<1>3. CASE CreateArrayOf
  BY <1>3, CreateArrayOfKeeps
<1>4. ASSUME NEW p \in live, NEW string \in Names, NEW item \in Items,
             AddItemToArray(p, item)
      PROVE  TreeInv'
  <2>1. MayGive(item, p) /\ Append_to(m, p, item) /\ held' = held \ {item}
        /\ ref' = ref /\ live' = live /\ of' = of
    BY <1>4 DEF AddItemToArray
  <2> QED BY <2>1, AppendKeeps
<1>5. ASSUME NEW p \in live, NEW string \in Names, NEW item \in Items,
             AddItemToObject(p, string, item)
      PROVE  TreeInv'
  <2>1. MayGive(item, p) /\ Append_to(m, p, item) /\ held' = held \ {item}
        /\ ref' = ref /\ live' = live /\ of' = of
    BY <1>5 DEF AddItemToObject
  <2> QED BY <2>1, AppendKeeps
<1>6. ASSUME NEW p \in live, NEW string \in Names, NEW item \in Items,
             AddNewToObject(p, string, item)
      PROVE  TreeInv'
  BY <1>6, AddNewKeeps
<1>7. ASSUME NEW p \in live, NEW string \in Names \cup {NULL}, NEW item \in live, NEW r \in Items,
             AddItemReference(p, string, item, r)
      PROVE  TreeInv'
  BY <1>7, AddReferenceKeeps
<1>8. ASSUME NEW p \in live, NEW which \in Many, DetachItemFromArray(p, which)
      PROVE  TreeInv'
  BY <1>1, <1>8, DetachFromArrayKeeps
<1>9. ASSUME NEW p \in live, NEW which \in Many, DeleteItemFromArray(p, which)
      PROVE  TreeInv'
  BY <1>1, <1>9, DeleteFromArrayKeeps
<1>10. ASSUME NEW p \in live, NEW which \in Many, which <= Len(kids[p]), NEW item \in held,
              InsertItemInArray(p, which, item)
       PROVE  TreeInv'
  BY <1>1, <1>10, InsertKeeps
<1>11. ASSUME NEW p \in live, NEW which \in Many, which <= Len(kids[p]), NEW item \in held,
              ReplaceItemInArray(p, which, item)
       PROVE  TreeInv'
  BY <1>1, <1>11, ReplaceInArrayKeeps
<1>12. ASSUME NEW p \in live, NEW string \in Names, NEW case_sensitive \in BOOLEAN,
              DetachItemFromObject(p, string, case_sensitive)
       PROVE  TreeInv'
  BY <1>12, DetachFromObjectKeeps
<1>13. ASSUME NEW p \in live, NEW string \in Names, NEW case_sensitive \in BOOLEAN,
              DeleteItemFromObject(p, string, case_sensitive)
       PROVE  TreeInv'
  BY <1>13, DeleteFromObjectKeeps
<1>14. ASSUME NEW p \in live, NEW string \in Names, NEW case_sensitive \in BOOLEAN,
              NEW item \in held, ReplaceItemInObject(p, string, item, case_sensitive)
       PROVE  TreeInv'
  BY <1>14, ReplaceInObjectKeeps
<1>15. ASSUME NEW item \in live, cJSON_Delete(item)
       PROVE  TreeInv'
  BY <1>15, DeleteKeeps
<1>16. ASSUME NEW item \in live, NEW recurse \in BOOLEAN, cJSON_Duplicate(item, recurse)
       PROVE  TreeInv'
  BY <1>16, DuplicateKeeps
<1>17. CASE UNCHANGED tree_vars
  BY <1>17 DEF tree_vars, TreeInv
<1> QED BY <1>2, <1>3, <1>4, <1>5, <1>6, <1>7, <1>8, <1>9, <1>10, <1>11, <1>12, <1>13, <1>14,
           <1>15, <1>16, <1>17 DEF TreeNext

(* The invariant holds in every state.                                       *)
LEMMA TreeAlways == TreeSpec => []TreeInv
<1> QED BY InitTree, NextTree, PTL DEF TreeSpec

(* What the invariant says of the lists and of the owners.                   *)
LEMMA TreeListsSound ==
  ASSUME TreeInv
  PROVE  ListsSound
<1>1. ASSUME NEW p \in live \ ref
      PROVE  LET s == kids[p]
                 n == Len(s)
             IN  /\ m.child[p] = IF n = 0 THEN NULL ELSE s[1]
                 /\ \A i \in 1 .. n :
                      /\ m.next[s[i]] = IF i = n THEN NULL ELSE s[i + 1]
                      /\ m.prev[s[i]] = IF i = 1 THEN s[n] ELSE s[i - 1]
  <2>1. PICK s \in Seq(Items) : s = kids[p] /\ Linked(m, p, s)
    BY TreeFacts
  <2>2. DOMAIN s = 1 .. Len(s) /\ (s = <<>> <=> Len(s) = 0)
    BY <2>1
  <2> QED BY <2>1, <2>2 DEF Linked
<1>2. \A r \in ref \cap live : of[r] \in live \ ref /\ m.child[r] = m.child[of[r]]
  BY TreeFacts
<1>3. \A i \in held : m.next[i] = NULL /\ m.prev[i] = NULL
  BY TreeFacts DEF Alone
<1> QED BY <1>1, <1>2, <1>3 DEF ListsSound

(* What the invariant says of owners, by counting places.                    *)
LEMMA TreeOwnedOnce ==
  ASSUME TreeInv
  PROVE  OwnedOnce
<1> DEFINE C == Cardinality(Items)
           Places == {q \in Items \X (1 .. C) : q[2] \in DOMAIN kids[q[1]]}
           PlacesOf(i) == {q \in Places : kids[q[1]][q[2]] = i}
<1>1. /\ OnePlace(kids) /\ AllPlaced(kids, live, held) /\ kids \in [Items -> Seq(Items)]
      /\ held \subseteq live /\ \A x \in Items : Elements_(kids[x]) \subseteq live \ held
      /\ \A x \in Items \ (live \ ref) : DOMAIN kids[x] = {}
  BY TreeFacts DEF TreeInv, Tree, Forest
<1>2. \A x \in Items : \A j \in DOMAIN kids[x] : kids[x][j] \in live \ held
  BY <1>1 DEF Elements_
<1>3. ASSUME NEW x \in Items, NEW j \in DOMAIN kids[x] PROVE j \in 1 .. C
  <2>1. PICK s \in Seq(Items) : s = kids[x]
    BY <1>1
  <2>2. Distinct(s)
    BY <1>1, <2>1 DEF OnePlace, Distinct
  <2>3. C \in Nat /\ Len(s) <= C
    BY <2>2, LenBound
  <2>4. j \in 1 .. Len(s) /\ Len(s) \in Nat
    BY <2>1
  <2> HIDE DEF C
  <2> QED BY <2>3, <2>4
<1> HIDE DEF C
<1>4. \A q \in Places : q[1] \in live /\ kids[q[1]][q[2]] \in live
  BY <1>1, <1>2
<1>5. ASSUME NEW i \in held PROVE Cardinality(PlacesOf(i)) = 0
  <2>1. PlacesOf(i) = {}
    BY <1>2
  <2> QED BY <2>1, FS_EmptySet
<1>6. ASSUME NEW i \in live \ held PROVE Cardinality(PlacesOf(i)) = 1
  <2>1. PICK x \in Items : i \in Elements_(kids[x])
    BY <1>1 DEF AllPlaced
  <2>2. PICK j \in DOMAIN kids[x] : i = kids[x][j]
    BY <2>1 DEF Elements_
  <2>3. j \in 1 .. C
    BY <1>3
  <2>4. PlacesOf(i) = {<<x, j>>}
    <3>1. <<x, j>> \in PlacesOf(i)
      BY <2>2, <2>3
    <3>2. ASSUME NEW q \in PlacesOf(i) PROVE q = <<x, j>>
      <4>1. q = <<q[1], q[2]>> /\ q[1] \in Items /\ q[2] \in DOMAIN kids[q[1]]
            /\ kids[q[1]][q[2]] = i
        OBVIOUS
      <4>2. q[1] = x /\ q[2] = j
        BY <1>1, <2>2, <4>1 DEF OnePlace
      <4> QED BY <4>1, <4>2
    <3> QED BY <3>1, <3>2
  <2> QED BY <2>4, FS_Singleton
<1> HIDE DEF Places
<1>7. \A i \in live : Cardinality(PlacesOf(i)) = IF i \in held THEN 0 ELSE 1
  <2> HIDE DEF PlacesOf
  <2> QED BY <1>5, <1>6
<1> QED BY <1>1, <1>4, <1>7 DEF OwnedOnce, Places, C

(* After each call, in any order of calls a caller may make, child, next and *)
(* prev of every item are the list that is meant, a reference has the        *)
(* children of the item it was made of, and a root has no neighbours.        *)
THEOREM SpecListsSound == TreeSpec => []ListsSound
<1> QED BY TreeAlways, TreeListsSound, PTL

(* Every allocated item is held by the caller or is in one place of one      *)
(* list, and nothing else is in a list: no item is freed twice, left behind  *)
(* in a list after it is freed, or lost.                                     *)
THEOREM SpecOwnedOnce == TreeSpec => []OwnedOnce
<1> QED BY TreeAlways, TreeOwnedOnce, PTL
=============================================================================
