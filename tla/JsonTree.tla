------------------------------ MODULE JsonTree ------------------------------
(* cJSON.c: the items of JSON values in memory.  The children of an item are *)
(* a list: child is its first item, next the one after an item, and prev the *)
(* one before it, which for the first item is the last of the list.  A       *)
(* reference is an item that shares the children of another and does not own *)
(* them.  Beside the pointers the module keeps what a caller means by its    *)
(* calls: the lists as sequences, and the items it holds and has to delete.  *)
EXTENDS Integers, Sequences, FiniteSets

CONSTANTS
  Items,    \* places in memory for items
  Names,    \* names of the fields of objects
  Folded,   \* the name in lower case
  NULL      \* no item, and no name

ASSUME ItemsAssumption == IsFiniteSet(Items) /\ NULL \notin Items
ASSUME NamesAssumption == NULL \notin Names /\ Folded \in [Names -> Names]

VARIABLES
  m,        \* the pointers: child, next and prev of each item
  name,     \* string of each item
  ref,      \* the items whose type has cJSON_IsReference
  live,     \* the items that are allocated
  kids,     \* what is meant: the children of each item in order,
  of,       \* the item a reference was made of,
  held      \* and the roots the caller holds

tree_vars == <<m, name, ref, live, kids, of, held>>

Many == 0 .. Cardinality(Items)
Pointer == Items \cup {NULL}

-----------------------------------------------------------------------------
(* Walking.                                                                  *)
get_array_item(array, index) ==
  LET at[k \in Nat] ==
        IF k = 0 THEN m.child[array]
        ELSE IF at[k - 1] = NULL THEN NULL ELSE m.next[at[k - 1]]
  IN  at[index]

cJSON_GetArraySize(array) ==
  CHOOSE n \in Many : /\ get_array_item(array, n) = NULL
                      /\ \A k \in 0 .. n - 1 : get_array_item(array, k) # NULL

SameString(a, b, case_sensitive) ==
  IF case_sensitive THEN a = b ELSE Folded[a] = Folded[b]

(* The first field of that name; one without a name ends a search that looks *)
(* at the case.                                                              *)
object_item(object, string, case_sensitive) ==
  LET found == {k \in 0 .. cJSON_GetArraySize(object) - 1 :
                  LET s == name[get_array_item(object, k)]
                  IN  IF s = NULL THEN case_sensitive ELSE SameString(string, s, case_sensitive)}
      first == get_array_item(object, CHOOSE k \in found : \A j \in found : k <= j)
  IN  IF found = {} THEN NULL ELSE IF name[first] = NULL THEN NULL ELSE first

(* What cJSON_Delete() frees: the items after this one as well, and their    *)
(* children unless they are borrowed.                                        *)
Freed(h, item) ==
  LET Step(S) == S \cup ({h.next[i] : i \in S} \ {NULL})
                   \cup ({h.child[i] : i \in S \ ref} \ {NULL})
      reached[k \in Nat] == IF k = 0 THEN {item} ELSE Step(reached[k - 1])
  IN  reached[Cardinality(Items)]

(* The items of a value as they are read: through references too.            *)
Within(item) ==
  LET Chain(i) == {get_array_item(i, k) : k \in Many} \ {NULL}
      reached[k \in Nat] ==
        IF k = 0 THEN {item} ELSE reached[k - 1] \cup UNION {Chain(i) : i \in reached[k - 1]}
  IN  reached[Cardinality(Items)]

-----------------------------------------------------------------------------
(* Changing the pointers, one assignment after the other.                    *)
suffix_object(h, prev, item) == [h EXCEPT !.next[prev] = item, !.prev[item] = prev]

add_item_to_array(h, array, item) ==
  LET child == h.child[array]
  IN  IF child = NULL
      THEN [h EXCEPT !.child[array] = item, !.prev[item] = item, !.next[item] = NULL]
      ELSE IF h.prev[child] # NULL
      THEN [suffix_object(h, h.prev[child], item) EXCEPT !.prev[child] = item]
      ELSE h

DetachForgetsLast(h, parent, item) ==
  LET next == h.next[item]
      h1 == IF item # h.child[parent] THEN [h EXCEPT !.next[h.prev[item]] = next] ELSE h
      h2 == IF next # NULL THEN [h1 EXCEPT !.prev[next] = h1.prev[item]] ELSE h1
      h3 == IF item = h2.child[parent] THEN [h2 EXCEPT !.child[parent] = next] ELSE h2
  IN  [h3 EXCEPT !.prev[item] = NULL, !.next[item] = NULL]

DetachItemViaPointer(h, parent, item) ==
  LET next == h.next[item]
      h1 == IF item # h.child[parent] THEN [h EXCEPT !.next[h.prev[item]] = next] ELSE h
      h2 == IF next # NULL THEN [h1 EXCEPT !.prev[next] = h1.prev[item]] ELSE h1
      h3 == IF item = h2.child[parent] THEN [h2 EXCEPT !.child[parent] = next]
            ELSE IF next = NULL THEN [h2 EXCEPT !.prev[h2.child[parent]] = h2.prev[item]]
            ELSE h2
  IN  [h3 EXCEPT !.prev[item] = NULL, !.next[item] = NULL]

InsertBefore(h, array, after, newitem) ==
  LET h1 == [h EXCEPT !.next[newitem] = after, !.prev[newitem] = h.prev[after]]
      h2 == [h1 EXCEPT !.prev[after] = newitem]
  IN  IF after = h2.child[array] THEN [h2 EXCEPT !.child[array] = newitem]
      ELSE [h2 EXCEPT !.next[h2.prev[newitem]] = newitem]

(* Before the old item is deleted: it is cut from the list it was in.        *)
ReplaceLeavesNext(h, parent, item, replacement) ==
  LET next == h.next[item]
      h1 == [h EXCEPT !.next[replacement] = next, !.prev[replacement] = h.prev[item]]
      h2 == IF next # NULL THEN [h1 EXCEPT !.prev[next] = replacement] ELSE h1
  IN  IF h2.child[parent] = item
      THEN [h2 EXCEPT !.child[parent] = replacement,
                      !.prev[replacement] = IF h2.prev[item] = item THEN replacement ELSE @]
      ELSE LET h3 == [h2 EXCEPT !.next[h2.prev[replacement]] = replacement]
           IN  IF next = NULL THEN [h3 EXCEPT !.prev[h3.child[parent]] = replacement] ELSE h3

ReplaceItemViaPointer(h, parent, item, replacement) ==
  LET next == h.next[item]
      h1 == [h EXCEPT !.next[replacement] = next, !.prev[replacement] = h.prev[item]]
      h2 == IF next # NULL THEN [h1 EXCEPT !.prev[next] = replacement] ELSE h1
      first == h2.child[parent]
      h3 == IF first = item
            THEN [h2 EXCEPT !.child[parent] = replacement,
                            !.prev[replacement] = IF h2.prev[first] = first THEN replacement ELSE @]
            ELSE LET h4 == IF h2.prev[replacement] # NULL
                           THEN [h2 EXCEPT !.next[h2.prev[replacement]] = replacement] ELSE h2
                 IN  IF next = NULL THEN [h4 EXCEPT !.prev[first] = replacement] ELSE h4
  IN  [h3 EXCEPT !.next[item] = NULL, !.prev[item] = NULL]

-----------------------------------------------------------------------------
(* What a caller may do: give away an item it holds, to a value that owns its*)
(* children and does not belong to that item; and leave alone the children   *)
(* that references share.                                                    *)
Elements_(s) == {s[i] : i \in DOMAIN s}
Unshared(p) == p \in live \ ref /\ \A r \in ref \cap live : of[r] # p
MayGive(item, p) == item \in held /\ Unshared(p) /\ p \notin Within(item)
IsObject(p) == \A i \in DOMAIN kids[p] : name[kids[p][i]] # NULL

(* The items of a root, as they are meant.                                   *)
Meant(item) ==
  LET reached[k \in Nat] ==
        IF k = 0 THEN {item}
        ELSE reached[k - 1] \cup UNION {Elements_(kids[i]) : i \in reached[k - 1]}
  IN  reached[Cardinality(Items)]

(* A root may go when no reference that stays was made of an item of it.     *)
MayDelete(item) ==
  \A r \in (ref \cap live) \ Meant(item) : of[r] \notin Meant(item)

Without(s, i) == SubSeq(s, 1, i - 1) \o SubSeq(s, i + 1, Len(s))
With(s, i, x) == SubSeq(s, 1, i - 1) \o <<x>> \o SubSeq(s, i, Len(s))

(* The pointers h with those of some items cleared.                          *)
Cleared(h, S) ==
  LET Clear(g) == [i \in Items |-> IF i \in S THEN NULL ELSE g[i]]
  IN  [child |-> Clear(h.child), next |-> Clear(h.next), prev |-> Clear(h.prev)]

(* cJSON_Delete() of an item, with the pointers and names before it, and the *)
(* lists it is meant to leave.  What freed memory holds is the allocator's,  *)
(* NULL here.                                                                *)
Delete(h, names, k, item) ==
  LET freed == Freed(h, item)
  IN  /\ m' = Cleared(h, freed)
      /\ live' = live \ freed /\ ref' = ref \ freed
      /\ name' = [i \in Items |-> IF i \in freed THEN NULL ELSE names[i]]
      /\ of' = [i \in Items |-> IF i \in freed THEN NULL ELSE of[i]]
      /\ kids' = [i \in Items |-> IF i \in Meant(item) THEN <<>> ELSE k[i]]

-----------------------------------------------------------------------------
TreeInit ==
  /\ m = [child |-> [i \in Items |-> NULL], next |-> [i \in Items |-> NULL],
          prev |-> [i \in Items |-> NULL]]
  /\ name = [i \in Items |-> NULL]
  /\ of = [i \in Items |-> NULL]
  /\ kids = [i \in Items |-> <<>>]
  /\ ref = {} /\ live = {} /\ held = {}

(* cJSON_New_Item() clears the memory it gets.                               *)
New_Item(item) == item \in Items \ live

Create ==
  \E item \in Items :
    /\ New_Item(item)
    /\ m' = Cleared(m, {item})
    /\ name' = [name EXCEPT ![item] = NULL]
    /\ live' = live \cup {item} /\ held' = held \cup {item}
    /\ UNCHANGED <<ref, kids, of>>

(* An array with its elements: each is linked to the one before it, and at   *)
(* the end the first to the last.                                            *)
ArrayLinks(h, a, s, n) ==
  [child |-> [h.child EXCEPT ![a] = s[1]],
   next |-> [i \in Items |-> IF \E k \in 1 .. n - 1 : s[k] = i
                             THEN s[(CHOOSE k \in 1 .. n - 1 : s[k] = i) + 1]
                             ELSE h.next[i]],
   prev |-> [i \in Items |-> IF i = s[1] THEN s[n]
                             ELSE IF \E k \in 2 .. n : s[k] = i
                             THEN s[(CHOOSE k \in 2 .. n : s[k] = i) - 1]
                             ELSE h.prev[i]]]

CreateArrayOf ==
  \E a \in Items, n \in 1 .. Cardinality(Items) - 1 :
    \E s \in [1 .. n -> Items \ {a}] :
      LET all == {a} \cup Elements_(s)
      IN  /\ \A i, j \in 1 .. n : i # j => s[i] # s[j]
          /\ \A i \in all : New_Item(i)
          /\ m' = ArrayLinks(Cleared(m, all), a, s, n)
          /\ name' = [i \in Items |-> IF i \in all THEN NULL ELSE name[i]]
          /\ live' = live \cup all /\ held' = held \cup {a}
          /\ kids' = [kids EXCEPT ![a] = s]
          /\ UNCHANGED <<ref, of>>

Append_to(h, p, item) ==
  /\ m' = add_item_to_array(h, p, item)
  /\ kids' = [kids EXCEPT ![p] = Append(@, item)]

AddItemToArray(p, item) ==
  /\ MayGive(item, p)
  /\ Append_to(m, p, item)
  /\ held' = held \ {item}
  /\ UNCHANGED <<name, ref, live, of>>

AddItemToObject(p, string, item) ==
  /\ MayGive(item, p)
  /\ name' = [name EXCEPT ![item] = string]
  /\ Append_to(m, p, item)
  /\ held' = held \ {item}
  /\ UNCHANGED <<ref, live, of>>

(* cJSON_AddNullToObject() and the like create the item they add.            *)
AddNewToObject(p, string, item) ==
  /\ New_Item(item) /\ Unshared(p)
  /\ name' = [name EXCEPT ![item] = string]
  /\ Append_to(Cleared(m, {item}), p, item)
  /\ live' = live \cup {item}
  /\ UNCHANGED <<ref, of, held>>

(* A reference has the children of the item, and no name until it is added.  *)
create_reference(h, r, item) ==
  [Cleared(h, {r}) EXCEPT !.child[r] = h.child[item]]

AddItemReference(p, string, item, r) ==
  /\ New_Item(r) /\ item \in live
  /\ Unshared(p) /\ p \notin Within(item)
  /\ Append_to(create_reference(m, r, item), p, r)
  /\ name' = [name EXCEPT ![r] = string]
  /\ ref' = ref \cup {r} /\ live' = live \cup {r}
  /\ of' = [of EXCEPT ![r] = IF item \in ref THEN of[item] ELSE item]
  /\ UNCHANGED held

DetachItem(p, item, place) ==
  /\ item # NULL
  /\ m' = DetachItemViaPointer(m, p, item)
  /\ kids' = [kids EXCEPT ![p] = Without(@, place)]
  /\ held' = held \cup {kids[p][place]}
  /\ UNCHANGED <<name, ref, live, of>>

DetachItemFromArray(p, which) ==
  Unshared(p) /\ DetachItem(p, get_array_item(p, which), which + 1)

(* The place of the first field of that name, as it is meant.                *)
PlaceOf(p, string, case_sensitive) ==
  CHOOSE i \in DOMAIN kids[p] :
    /\ SameString(name[kids[p][i]], string, case_sensitive)
    /\ \A j \in 1 .. i - 1 : ~SameString(name[kids[p][j]], string, case_sensitive)

DetachItemFromObject(p, string, case_sensitive) ==
  /\ Unshared(p) /\ IsObject(p)
  /\ DetachItem(p, object_item(p, string, case_sensitive), PlaceOf(p, string, case_sensitive))

DeleteItem(p, item, place) ==
  /\ item # NULL /\ MayDelete(kids[p][place])
  /\ Delete(DetachItemViaPointer(m, p, item), name,
            [kids EXCEPT ![p] = Without(@, place)], item)
  /\ UNCHANGED held

DeleteItemFromArray(p, which) ==
  Unshared(p) /\ DeleteItem(p, get_array_item(p, which), which + 1)

DeleteItemFromObject(p, string, case_sensitive) ==
  /\ Unshared(p) /\ IsObject(p)
  /\ DeleteItem(p, object_item(p, string, case_sensitive), PlaceOf(p, string, case_sensitive))

(* At the end of the list, or beyond it, the item is added to it.            *)
InsertItemInArray(p, which, item) ==
  LET after == get_array_item(p, which)
  IN  /\ MayGive(item, p)
      /\ m' = IF after = NULL THEN add_item_to_array(m, p, item)
              ELSE InsertBefore(m, p, after, item)
      /\ kids' = [kids EXCEPT ![p] = With(@, which + 1, item)]
      /\ held' = held \ {item}
      /\ UNCHANGED <<name, ref, live, of>>

ReplaceItem(p, names, item, place, replacement) ==
  /\ MayDelete(kids[p][place])
  /\ Delete(ReplaceItemViaPointer(m, p, item, replacement), names,
            [kids EXCEPT ![p][place] = replacement], item)
  /\ held' = held \ {replacement}

ReplaceItemInArray(p, which, replacement) ==
  /\ MayGive(replacement, p) /\ get_array_item(p, which) # NULL
  /\ ReplaceItem(p, name, get_array_item(p, which), which + 1, replacement)

(* The replacement gets the name first, and keeps it if there is no such     *)
(* field.                                                                    *)
ReplaceItemInObject(p, string, replacement, case_sensitive) ==
  LET item == object_item(p, string, case_sensitive)
      named == [name EXCEPT ![replacement] = string]
  IN  /\ MayGive(replacement, p) /\ IsObject(p)
      /\ \/ item = NULL /\ name' = named /\ UNCHANGED <<m, ref, live, kids, of, held>>
         \/ /\ item # NULL
            /\ ReplaceItem(p, named, item, PlaceOf(p, string, case_sensitive), replacement)

cJSON_Delete(item) ==
  /\ item \in held /\ MayDelete(item)
  /\ Delete(m, name, kids, item)
  /\ held' = held \ {item}

(* The paths along which an item's children are read, through references too,*)
(* and where one leads.  What two paths lead to is read, and copied, twice.  *)
Reached(item, path) ==
  LET at[k \in 0 .. Len(path)] ==
        IF k = 0 THEN item ELSE get_array_item(at[k - 1], path[k])
  IN  at[Len(path)]

Paths(item) ==
  LET upto[k \in Nat] ==
        IF k = 0 THEN {<<>>}
        ELSE upto[k - 1] \cup
               UNION {{Append(p, i) : i \in 0 .. cJSON_GetArraySize(Reached(item, p)) - 1} :
                        p \in upto[k - 1]}
  IN  upto[Cardinality(Items)]

(* Each item read gets a copy that owns its children; without recurse only   *)
(* the item itself.  copy gives the places for the copies, by their paths.   *)
Duplicate(item, recurse, copy) ==
  LET new == {copy[p] : p \in DOMAIN copy}
      PathOf(y) == CHOOSE p \in DOMAIN copy : copy[p] = y
      Source(y) == Reached(item, PathOf(y))
      To(p) == IF p \in DOMAIN copy THEN copy[p] ELSE NULL
      Sibling(p, i) == [p EXCEPT ![Len(p)] = i]
      Last(p) == CHOOSE i \in Many : /\ Sibling(p, i) \in DOMAIN copy
                                     /\ Sibling(p, i + 1) \notin DOMAIN copy
      Next(p) == IF p = <<>> THEN NULL ELSE To(Sibling(p, p[Len(p)] + 1))
      Prev(p) == IF p = <<>> THEN NULL
                 ELSE To(Sibling(p, IF p[Len(p)] = 0 THEN Last(p) ELSE p[Len(p)] - 1))
      Meant_(x) == IF x \in ref THEN kids[of[x]] ELSE kids[x]
  IN  /\ m' = [child |-> [y \in Items |-> IF y \in new THEN To(Append(PathOf(y), 0))
                                          ELSE m.child[y]],
               next |-> [y \in Items |-> IF y \in new THEN Next(PathOf(y)) ELSE m.next[y]],
               prev |-> [y \in Items |-> IF y \in new THEN Prev(PathOf(y)) ELSE m.prev[y]]]
      /\ name' = [y \in Items |-> IF y \in new THEN name[Source(y)] ELSE name[y]]
      /\ kids' = [y \in Items |->
                    IF y \in new
                    THEN IF recurse THEN [i \in DOMAIN Meant_(Source(y)) |->
                                            To(Append(PathOf(y), i - 1))]
                         ELSE <<>>
                    ELSE kids[y]]
      /\ live' = live \cup new
      /\ held' = held \cup {copy[<<>>]}
      /\ UNCHANGED <<ref, of>>

Injections(S, T) ==
  {f \in [S -> T] : \A x, y \in S : x # y => f[x] # f[y]}

cJSON_Duplicate(item, recurse) ==
  /\ item \in live
  /\ \E copy \in Injections(IF recurse THEN Paths(item) ELSE {<<>>}, Items \ live) :
       Duplicate(item, recurse, copy)

TreeNext ==
  \/ Create \/ CreateArrayOf
  \/ \E p \in live, string \in Names, item \in Items :
       \/ AddItemToArray(p, item) \/ AddItemToObject(p, string, item)
       \/ AddNewToObject(p, string, item)
  \/ \E p \in live, string \in Names \cup {NULL}, item \in live, r \in Items :
       AddItemReference(p, string, item, r)
  \/ \E p \in live, which \in Many :
       \/ DetachItemFromArray(p, which) \/ DeleteItemFromArray(p, which)
       \/ which <= Len(kids[p]) /\ \E item \in held :
            InsertItemInArray(p, which, item) \/ ReplaceItemInArray(p, which, item)
  \/ \E p \in live, string \in Names, case_sensitive \in BOOLEAN :
       \/ DetachItemFromObject(p, string, case_sensitive)
       \/ DeleteItemFromObject(p, string, case_sensitive)
       \/ \E item \in held : ReplaceItemInObject(p, string, item, case_sensitive)
  \/ \E item \in live : cJSON_Delete(item)
  \/ \E item \in live, recurse \in BOOLEAN : cJSON_Duplicate(item, recurse)

TreeSpec == TreeInit /\ [][TreeNext]_tree_vars

-----------------------------------------------------------------------------
(* The pointers are the lists: child is the first element, next leads from   *)
(* each to the one after it and ends after the last, prev leads back, and    *)
(* from the first to the last, which is where the next item is added.  A root*)
(* points nowhere, and a reference to the children of the item it was made   *)
(* of.                                                                       *)
ListsSound ==
  /\ \A p \in live \ ref :
       LET s == kids[p]
           n == Len(s)
       IN  /\ m.child[p] = IF n = 0 THEN NULL ELSE s[1]
           /\ \A i \in 1 .. n :
                /\ m.next[s[i]] = IF i = n THEN NULL ELSE s[i + 1]
                /\ m.prev[s[i]] = IF i = 1 THEN s[n] ELSE s[i - 1]
  /\ \A r \in ref \cap live : of[r] \in live \ ref /\ m.child[r] = m.child[of[r]]
  /\ \A i \in held : m.next[i] = NULL /\ m.prev[i] = NULL

(* Every allocated item has one owner: the caller that holds it, or one place*)
(* in the children of one item; and what is owned is allocated.  So no call  *)
(* frees an item twice, leaves a list with a freed one, or loses one.        *)
OwnedOnce ==
  LET Places == {q \in Items \X (1 .. Cardinality(Items)) : q[2] \in DOMAIN kids[q[1]]}
  IN  /\ \A i \in live :
           Cardinality({q \in Places : kids[q[1]][q[2]] = i})
             = IF i \in held THEN 0 ELSE 1
      /\ held \subseteq live
      /\ \A q \in Places : q[1] \in live /\ kids[q[1]][q[2]] \in live
=============================================================================
