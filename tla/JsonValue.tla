----------------------------- MODULE JsonValue -----------------------------
(* A JSON value, as its tree of cJSON items holds it: the kind, the text of a*)
(* string or of a number, and for a container its items in order, with their *)
(* names in an object.                                                       *)
EXTENDS Ascii, FiniteSets

Value(kind, text, items, names) ==
  [kind |-> kind, text |-> text, items |-> items, names |-> names]

Null == Value("null", <<>>, <<>>, <<>>)
False == Value("false", <<>>, <<>>, <<>>)
True == Value("true", <<>>, <<>>, <<>>)
Number(digits) == Value("number", digits, <<>>, <<>>)
String(text) == Value("string", text, <<>>, <<>>)
Array(items) == Value("array", <<>>, items, <<>>)
Object(names, items) == Value("object", <<>>, items, names)

(* NULL: no item.                                                            *)
NoItem == Value("none", <<>>, <<>>, <<>>)

RECURSIVE Depth(_)
Depth(v) ==
  IF v.kind \notin {"array", "object"} THEN 0
  ELSE IF v.items = <<>> THEN 1
  ELSE 1 + (CHOOSE d \in {Depth(v.items[i]) : i \in DOMAIN v.items} :
              \A i \in DOMAIN v.items : Depth(v.items[i]) <= d)

cJSON_GetArrayItem(array, index) ==
  IF index < 0 \/ index >= Len(array.items) THEN NoItem ELSE array.items[index + 1]

SameName(a, b, case_sensitive) ==
  IF case_sensitive THEN a = b
  ELSE [i \in DOMAIN a |-> tolower(a[i])] = [i \in DOMAIN b |-> tolower(b[i])]

(* The first item of that name.  An item of an array has no name.            *)
get_object_item(object, name, case_sensitive) ==
  LET found == {i \in DOMAIN object.names : SameName(name, object.names[i], case_sensitive)}
  IN  IF found = {} THEN NoItem
      ELSE object.items[CHOOSE i \in found : \A j \in found : i <= j]

(* The type letters of a selector; any other letter passes for every value.  *)
HasType(v, letter) ==
  CASE letter = Lower(19) -> v.kind = "string"
    [] letter = Lower(14) -> v.kind = "number"
    [] letter = Lower(15) -> v.kind = "object"
    [] letter = Lower(1) -> v.kind = "array"
    [] letter = Lower(2) -> v.kind \in {"true", "false"}
    [] letter = 33 -> v.kind = "null"
    [] OTHER -> TRUE

(* Two values are equal when their items are: in order for arrays, by name   *)
(* for objects, and then in both directions.                                 *)
RECURSIVE cJSON_Compare(_, _, _)
Covers(a, b, case_sensitive) ==
  \A i \in DOMAIN a.items :
    cJSON_Compare(a.items[i], get_object_item(b, a.names[i], case_sensitive), case_sensitive)

FieldsCovered(a, b, case_sensitive) == Covers(a, b, case_sensitive)

SameFields(a, b, case_sensitive) ==
  Covers(a, b, case_sensitive) /\ Covers(b, a, case_sensitive)

cJSON_Compare(a, b, case_sensitive) ==
  /\ a.kind = b.kind /\ a.kind # "none"
  /\ a.kind \in {"number", "string"} => a.text = b.text
  /\ a.kind = "array" =>
       /\ Len(a.items) = Len(b.items)
       /\ \A i \in DOMAIN a.items : cJSON_Compare(a.items[i], b.items[i], case_sensitive)
  /\ a.kind = "object" => SameFields(a, b, case_sensitive)
=============================================================================
