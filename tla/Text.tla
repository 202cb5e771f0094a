-------------------------------- MODULE Text --------------------------------
(* The functions of the library that make new values from old ones: patterns,*)
(* strings, JSON texts and selectors.  They keep no state, so a call is one  *)
(* step, and a program here is a caller that makes one call, or a few in a   *)
(* row on what the one before returned.                                      *)
EXTENDS TextCalls, JsonSelect, JsonPrint

CONSTANTS
  Values,       \* JSON values to write and read back
  Pairs,        \* two JSON values to compare
  SomePaths, Trees,   \* paths to follow, and in which values
  UnitLists,    \* UTF-16 code units to read as \uXXXX
  Prebuffers,   \* sizes of a first print buffer
  Damage,       \* characters that a text is damaged with
  Comments      \* blanks and comments that are put into a text

cJSON_Select_call ==
  /\ Free
  /\ \E v \in Trees, path \in SomePaths :
       Call([fn |-> "cJSON_Select", tree |-> v, path |-> path],
            cJSON_Select(v, WritePath(path), Arguments(path)))

cJSON_Compare_call ==
  /\ Free
  /\ \E pair \in Pairs, case_sensitive \in BOOLEAN :
       Call([fn |-> "cJSON_Compare", a |-> pair[1], b |-> pair[2], case |-> case_sensitive],
            cJSON_Compare(pair[1], pair[2], case_sensitive))

-----------------------------------------------------------------------------
(* A value is printed, and the text is read as it is, after a byte order     *)
(* mark, damaged in one place, or with comments in it, minified first.       *)
cJSON_Print_call ==
  /\ Free
  /\ \E v \in Values, format \in BOOLEAN :
       Call([fn |-> "cJSON_Print", value |-> v, format |-> format],
            IF format THEN cJSON_Print(v) ELSE cJSON_PrintUnformatted(v))

cJSON_PrintBuffered_call ==
  /\ Free
  /\ \E v \in Values, size \in Prebuffers, format \in BOOLEAN :
       Call([fn |-> "cJSON_PrintBuffered", value |-> v, format |-> format],
            cJSON_PrintBuffered(v, size, format))

(* A buffer of the length the text needs, or a little more or less.          *)
cJSON_PrintPreallocated_call ==
  /\ Free
  /\ \E v \in Values, format \in BOOLEAN, more \in -2 .. 6 :
       LET text == (IF format THEN cJSON_Print(v) ELSE cJSON_PrintUnformatted(v)).text
           length == Len(text) + 1 + more
       IN  Call([fn |-> "cJSON_PrintPreallocated", value |-> v, format |-> format,
                 text |-> text, length |-> length],
                cJSON_PrintPreallocated(v, length, format))

Printed_ == call.fn = "cJSON_Print"

cJSON_Parse_call ==
  /\ Printed_
  /\ \E bom \in BOOLEAN, whole \in BOOLEAN :
       LET text == (IF bom THEN BOM ELSE <<>>) \o answer.text
       IN  Call([fn |-> "cJSON_Parse", value |-> call.value, text |-> text],
                cJSON_ParseWithOpts(text, whole))

Deleted(t, i) == SubSeq(t, 1, i - 1) \o From(t, i + 1)
Inserted(t, i, s) == SubSeq(t, 1, i - 1) \o s \o From(t, i)

cJSON_Parse_damaged ==
  /\ Printed_ /\ \A i \in DOMAIN answer.text : answer.text[i] # Backslash
  /\ \E i \in DOMAIN answer.text, c \in Damage, whole \in BOOLEAN :
       \E text \in {SubSeq(answer.text, 1, i - 1), Deleted(answer.text, i),
                    Inserted(answer.text, i, <<c>>),
                    Inserted(Deleted(answer.text, i), i, <<c>>)} :
         Call([fn |-> "cJSON_ParseDamaged", text |-> text, whole |-> whole],
              cJSON_ParseWithOpts(text, whole))

Hex4(unit) ==
  [i \in 1 .. 4 |-> HexDigit((unit \div 16 ^ (4 - i)) % 16)]

cJSON_Parse_units ==
  /\ Free
  /\ \E units \in UnitLists :
       LET text == <<DQuote>> \o Concatenated([i \in DOMAIN units |->
                                            <<Backslash, LetterU>> \o Hex4(units[i])])
                   \o <<DQuote>>
       IN  Call([fn |-> "cJSON_ParseUnits", units |-> units,
                 room |-> StringRoom(text, 2, Len(text))],
                cJSON_Parse(text))

(* Where the text has a bracket, a comma or a colon that is not in a string. *)
RECURSIVE OutsideStrings(_, _)
OutsideStrings(t, i) ==
  IF i > Len(t) THEN {}
  ELSE IF t[i] = DQuote THEN OutsideStrings(t, StringEnd(t, i + 1) + 1)
  ELSE (IF t[i] \in {Comma, Colon, LBracket, RBracket, LBrace, RBrace} THEN {i} ELSE {})
       \cup OutsideStrings(t, i + 1)

(* A string that ends in a backslash is excluded: README, "Met while         *)
(* reading".                                                                 *)
EndsInBackslash(t) ==
  \E i \in 1 .. Len(t) - 2 : t[i] = Backslash /\ t[i + 1] = Backslash /\ t[i + 2] = DQuote

cJSON_Minify_call ==
  /\ Printed_ /\ ~EndsInBackslash(answer.text)
  /\ \E i \in OutsideStrings(answer.text, 1), comment \in Comments :
       Call([fn |-> "cJSON_Minify", value |-> call.value],
            cJSON_Minify(Inserted(answer.text, i, comment)))

TextNext ==
  \/ CallsNext
  \/ cJSON_Select_call \/ cJSON_Compare_call
  \/ cJSON_Print_call \/ cJSON_PrintBuffered_call \/ cJSON_PrintPreallocated_call
  \/ cJSON_Parse_call \/ cJSON_Parse_damaged \/ cJSON_Parse_units \/ cJSON_Minify_call

TextSpec == TextInit /\ [][TextNext]_text_vars

-----------------------------------------------------------------------------
(* cJSON_Select() walks the path that a format and its arguments name, to the*)
(* first field of each name, and finds nothing where a step does not apply.  *)
SelectFollowsPath ==
  call.fn = "cJSON_Select" => answer = PathFinds(call.tree, call.path)

(* What a value means: an array in order, an object by its names.            *)
RECURSIVE Meaning(_, _)
Meaning(v, case_sensitive) ==
  LET name(i) == IF case_sensitive THEN v.names[i]
                 ELSE [k \in DOMAIN v.names[i] |-> tolower(v.names[i][k])]
  IN  [kind |-> v.kind, text |-> v.text,
       items |-> IF v.kind = "object" THEN <<>>
                 ELSE [i \in DOMAIN v.items |-> Meaning(v.items[i], case_sensitive)],
       fields |-> {<<name(i), Meaning(v.items[i], case_sensitive)>> : i \in DOMAIN v.names}]

(* No object in it gives one name to fields that mean different things.      *)
RECURSIVE NamesOneThing(_, _)
NamesOneThing(v, case_sensitive) ==
  /\ \A i \in DOMAIN v.items : NamesOneThing(v.items[i], case_sensitive)
  /\ \A i, j \in DOMAIN v.names :
       SameName(v.names[i], v.names[j], case_sensitive)
         => Meaning(v.items[i], case_sensitive) = Meaning(v.items[j], case_sensitive)

(* cJSON_Compare() finds two trees equal exactly if they mean the same, the  *)
(* fields of an object in any order, and no object in them repeats a name    *)
(* with another meaning.  One that does is not even equal to its own copy:   *)
(* each field is compared with the first of that name (cJSON.c:3066, 3082).  *)
CompareIsEquality ==
  call.fn = "cJSON_Compare" =>
    answer = /\ Meaning(call.a, call.case) = Meaning(call.b, call.case)
             /\ NamesOneThing(call.a, call.case)

(* Printing writes only inside its buffer, grown as it goes or given by the  *)
(* caller; one that is given is filled with the whole text or refused, and   *)
(* with the five bytes to spare that cJSON.h asks for it is never refused.   *)
PrintStaysInside ==
  call.fn \in {"cJSON_Print", "cJSON_PrintBuffered", "cJSON_PrintPreallocated"} =>
    /\ answer.inside
    /\ call.fn # "cJSON_PrintPreallocated" => answer.ok
    /\ call.fn = "cJSON_PrintPreallocated" =>
         /\ answer.ok => answer.text = call.text /\ Len(call.text) < call.length
         /\ call.length >= Len(call.text) + 1 + 5 => answer.ok

(* The text of a value, formatted or not and after a byte order mark or not, *)
(* is read back as that value, unless it is nested too deep: then it is      *)
(* refused.                                                                  *)
ParseReadsBack ==
  call.fn = "cJSON_Parse" =>
    IF Depth(call.value) > NESTING_LIMIT THEN ~answer.ok
    ELSE answer = Parsed(call.value, Len(call.text) + 1)

(* Digits without the zeros in front of them.                                *)
Plainly(digits) ==
  LET counted == {i \in DOMAIN digits : digits[i] # 48}
  IN  IF counted = {} THEN <<48>>
      ELSE From(digits, CHOOSE i \in counted : \A j \in counted : i <= j)

(* A text without escapes as it is printed: without blanks and the zeros in  *)
(* front of a number, and with control characters escaped, which the parser  *)
(* takes as they are in a string.                                            *)
RECURSIVE Squeezed(_, _)
Squeezed(t, i) ==
  LET quote == StringEnd(t, i + 1)
      end == DigitsEnd(t, i)
  IN  IF i > Len(t) THEN <<>>
      ELSE IF t[i] = DQuote THEN
        <<DQuote>> \o Escaped(SubSeq(t, i + 1, quote - 1)) \o <<DQuote>> \o Squeezed(t, quote + 1)
      ELSE IF end > i THEN Plainly(SubSeq(t, i, end - 1)) \o Squeezed(t, end)
      ELSE (IF t[i] <= 32 THEN <<>> ELSE <<t[i]>>) \o Squeezed(t, i + 1)

(* A text damaged in one place is refused unless it is still JSON: what was  *)
(* accepted is the text of the value it was read as, but for blanks, control *)
(* characters in strings and zeros in front of a number, which JSON forbids  *)
(* and strtod() takes (cJSON.c:353); and it is all of the text when the      *)
(* caller asks that nothing follow.                                          *)
ParsesOnlyJson ==
  call.fn = "cJSON_ParseDamaged" /\ answer.ok =>
    /\ Squeezed(SubSeq(call.text, 1, answer.at - 1), 1)
         = cJSON_PrintUnformatted(answer.value).text
    /\ call.whole => \A i \in answer.at .. Len(call.text) : call.text[i] <= 32

(* The code points of UTF-16 code units, -1 for one without its partner.     *)
RECURSIVE Points(_)
Points(units) ==
  IF units = <<>> THEN <<>>
  ELSE IF units[1] \notin 55296 .. 57343 THEN <<units[1]>> \o Points(Tail(units))
  ELSE IF units[1] <= 56319 /\ Len(units) > 1 /\ units[2] \in 56320 .. 57343
  THEN <<(units[1] - 55296) * 1024 + (units[2] - 56320) + 65536>> \o Points(From(units, 3))
  ELSE <<-1>>

(* The code points of a UTF-8 text, each in its shortest form.               *)
RECURSIVE Decoded(_)
Decoded(t) ==
  LET n == CASE t[1] < 128 -> 1 [] t[1] \in 194 .. 223 -> 2
             [] t[1] \in 224 .. 239 -> 3 [] t[1] \in 240 .. 244 -> 4 [] OTHER -> 0
      part[i \in 1 .. n] ==
        IF i = 1 THEN IF n = 1 THEN t[1] ELSE t[1] % 2 ^ (7 - n)
        ELSE 64 * part[i - 1] + t[i] - 128
  IN  IF t = <<>> THEN <<>>
      ELSE IF n = 0 \/ n > Len(t) THEN <<-1>>
      ELSE <<part[n]>> \o Decoded(From(t, n + 1))

(* \uXXXX escapes are read as the UTF-8 text of the code points they stand   *)
(* for, pairs of surrogates as one; a surrogate alone is refused.  What is   *)
(* written never exceeds what was allocated, though an escape counts for one *)
(* character less than it has.                                               *)
Utf16Decodes ==
  call.fn = "cJSON_ParseUnits" =>
    LET points == Points(call.units)
    IN  /\ answer.ok = \A i \in DOMAIN points : points[i] >= 0
        /\ answer.ok => Decoded(answer.value.text) = points
        /\ answer.ok => Len(answer.value.text) + 1 <= call.room

(* cJSON_Minify() takes blanks and comments out and nothing else: the text   *)
(* that is left is the one cJSON_PrintUnformatted() writes.                  *)
MinifyKeepsValue ==
  call.fn = "cJSON_Minify" => answer = cJSON_PrintUnformatted(call.value).text
=============================================================================
