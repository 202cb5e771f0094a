----------------------------- MODULE JsonSelect -----------------------------
(* json_wrap.c: cJSON_Select() walks down a tree by a format such as         *)
(* ".result.chat.id:n", whose stars take names and indexes from arguments.   *)
EXTENDS JsonValue

CONSTANT MAX_TOKEN   \* the longest name or index: 256

Dot == 46
Bang == 33
Selectors == {Dot, LBracket, Colon}

(* Where a selector ends the text of the format: at a special character.     *)
Special == Selectors \cup {RBracket}

(* What was read beyond the end of the format is not known.                  *)
Overread == Value("overread", <<>>, <<>>, <<>>)

RECURSIVE Digits(_, _)
Digits(token, n) ==
  IF token = <<>> \/ ~isdigit(token[1]) THEN n
  ELSE Digits(Tail(token), 10 * n + token[1] - 48)

atoi(token) ==
  IF token[1] = Minus THEN -Digits(Tail(token), 0) ELSE Digits(token, 0)

(* The argument of a star: the name itself, or an index as "%d" prints it.   *)
IndexText(n) == IF n < 0 THEN <<Minus, 48 - n>> ELSE <<48 + n>>

cJSON_GetObjectItemAnyCase(object, name) == get_object_item(object, name, FALSE)

cJSON_GetObjectItemCaseSensitive(object, name) == get_object_item(object, name, TRUE)

(* One selector with its whole token.                                        *)
Apply(o, next, token) ==
  CASE next = LBracket ->
         IF o.kind # "array" THEN NoItem ELSE cJSON_GetArrayItem(o, atoi(token))
    [] next = Dot ->
         IF o.kind # "object" THEN NoItem ELSE cJSON_GetObjectItemCaseSensitive(o, token)
    [] OTHER -> IF HasType(o, token[1]) THEN o ELSE NoItem

(* A token is read up to a special character, but an empty one is not ended: *)
(* the next character, be it special or the zero byte, becomes part of it.   *)
RECURSIVE Token(_, _, _, _, _)
NextSelector(o, fmt, args) ==
  LET p == IF fmt # <<>> /\ fmt[1] = RBracket THEN Tail(fmt) ELSE fmt
  IN  IF p = <<>> THEN o
      ELSE IF p[1] \in Selectors THEN Token(o, Tail(p), p[1], <<>>, args)
      ELSE NoItem

Token(o, fmt, next, token, args) ==
  LET ended == token # <<>> /\ (fmt = <<>> \/ fmt[1] \in Special)
      found == Apply(o, next, token)
  IN  CASE ended -> IF found = NoItem THEN NoItem ELSE NextSelector(found, fmt, args)
        [] ~ended /\ fmt = <<>> -> Overread
        [] ~ended /\ fmt # <<>> /\ fmt[1] = Star ->
             IF next = Colon \/ Len(token) + Len(args[1]) > MAX_TOKEN THEN NoItem
             ELSE Token(o, Tail(fmt), next, token \o args[1], Tail(args))
        [] OTHER ->
             IF Len(token) >= MAX_TOKEN THEN NoItem
             ELSE Token(o, Tail(fmt), next, Append(token, fmt[1]), args)

cJSON_Select(o, fmt, args) == NextSelector(o, fmt, args)

-----------------------------------------------------------------------------
(* What a path means.  A step is a name, an index or a type, and may be given*)
(* as an argument.                                                           *)
StepFinds(v, step) ==
  CASE step.kind = "name" ->
         IF v.kind = "object" /\ \E i \in DOMAIN v.names : v.names[i] = step.text
         THEN v.items[CHOOSE i \in DOMAIN v.names :
                        /\ v.names[i] = step.text
                        /\ \A j \in 1 .. i - 1 : v.names[j] # step.text]
         ELSE NoItem
    [] step.kind = "index" ->
         IF v.kind = "array" /\ step.index + 1 \in DOMAIN v.items
         THEN v.items[step.index + 1] ELSE NoItem
    [] OTHER ->
         IF (CASE step.text = <<Lower(19)>> -> v.kind = "string"
               [] step.text = <<Lower(14)>> -> v.kind = "number"
               [] step.text = <<Lower(15)>> -> v.kind = "object"
               [] step.text = <<Lower(1)>> -> v.kind = "array"
               [] step.text = <<Bang>> -> v.kind = "null"
               [] OTHER -> v.kind \in {"true", "false"})
         THEN v ELSE NoItem

RECURSIVE PathFinds(_, _)
PathFinds(v, path) ==
  IF path = <<>> \/ v = NoItem THEN v ELSE PathFinds(StepFinds(v, path[1]), Tail(path))

StepText(step) ==
  LET text == IF step.arg THEN <<Star>>
              ELSE IF step.kind = "index" THEN IndexText(step.index) ELSE step.text
  IN  CASE step.kind = "name" -> <<Dot>> \o text
        [] step.kind = "index" -> <<LBracket>> \o text \o <<RBracket>>
        [] OTHER -> <<Colon>> \o text

RECURSIVE WritePath(_)
WritePath(path) == IF path = <<>> THEN <<>> ELSE StepText(path[1]) \o WritePath(Tail(path))

RECURSIVE Arguments(_)
Arguments(path) ==
  IF path = <<>> THEN <<>>
  ELSE (IF path[1].arg
        THEN <<IF path[1].kind = "index" THEN IndexText(path[1].index) ELSE path[1].text>>
        ELSE <<>>) \o Arguments(Tail(path))
=============================================================================
