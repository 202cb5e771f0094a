----------------------------- MODULE JsonPrint -----------------------------
(* cJSON.c: writing a value to a text, through a buffer that grows, and      *)
(* cJSON_Minify(), which takes blanks and comments out of a text.            *)
EXTENDS JsonText

CONSTANT BufferSize   \* bytes cJSON_Print() starts with: 256

(* The print buffer: its size, what has been written up to the end of the    *)
(* text, and the place where the next part goes.  inside becomes FALSE when  *)
(* a byte outside the buffer is written or copied.                           *)
Buffer(length, noalloc, format) ==
  [ok |-> TRUE, length |-> length, text |-> <<>>, offset |-> 0, depth |-> 0,
   noalloc |-> noalloc, format |-> format, inside |-> TRUE]

ensureSmall(p, needed) ==
  IF p.length > 0 /\ p.offset >= p.length THEN [p EXCEPT !.ok = FALSE]
  ELSE IF needed + 1 <= p.length THEN p
  ELSE IF p.noalloc THEN [p EXCEPT !.ok = FALSE]
  ELSE [p EXCEPT !.length = 2 * (needed + 1), !.inside = @ /\ p.offset + 1 <= p.length]

ensure(p, needed) ==
  LET size == needed + p.offset + 1
  IN  IF p.length > 0 /\ p.offset >= p.length THEN [p EXCEPT !.ok = FALSE]
      ELSE IF size <= p.length THEN p
      ELSE IF p.noalloc THEN [p EXCEPT !.ok = FALSE]
      ELSE [p EXCEPT !.length = 2 * size, !.inside = @ /\ p.offset + 1 <= p.length]

(* Room for needed bytes is made, then the bytes are written, with or without*)
(* a zero byte, and the place moves on by advance: unless an earlier part    *)
(* failed, which ends it all.                                                *)
Put(p, bytes, zero, advance) ==
  IF ~p.ok THEN p
  ELSE [p EXCEPT !.text = SubSeq(@, 1, p.offset) \o bytes, !.offset = @ + advance,
                 !.inside = @ /\ p.offset + Len(bytes) + (IF zero THEN 1 ELSE 0) <= p.length]
Write(p, needed, bytes, zero, advance) ==
  IF ~p.ok THEN p ELSE Put(ensure(p, needed), bytes, zero, advance)

update_offset(p) == [p EXCEPT !.offset = Len(p.text)]

IsPlain(c) == c > 31 /\ c # DQuote /\ c # Backslash

Escape(c) ==
  IF IsPlain(c) THEN <<c>>
  ELSE IF \E e \in JsonEscapes : e[2] = c
  THEN <<Backslash, (CHOOSE e \in JsonEscapes : e[2] = c)[1]>>
  ELSE <<Backslash, LetterU, 48, 48, HexDigit(c \div 16), HexDigit(c % 16)>>

RECURSIVE Escaped(_)
Escaped(text) == IF text = <<>> THEN <<>> ELSE Escape(text[1]) \o Escaped(Tail(text))

print_string_ptr(text, p) ==
  Write(p, Len(Escaped(text)) + 3, <<DQuote>> \o Escaped(text) \o <<DQuote>>, TRUE, 0)

(* With a zero byte after it; the place stays for update_offset() to move.   *)
print_word(word, p) == Write(p, Len(word) + 1, word, TRUE, 0)

print_number(digits, p) == Write(p, Len(digits) + 1, digits, TRUE, Len(digits))

Tabs(n) == [i \in 1 .. n |-> TAB]
Deeper(p) == [p EXCEPT !.depth = @ + 1]
Shallower(p) == [p EXCEPT !.depth = @ - 1]

RECURSIVE print_value(_, _), Elements(_, _, _), Fields(_, _, _)
Elements(v, i, p) ==
  LET comma == IF p.format THEN <<Comma, SP>> ELSE <<Comma>>
      element == update_offset(print_value(v.items[i], p))
  IN  IF i > Len(v.items) \/ ~p.ok THEN p
      ELSE Elements(v, i + 1,
                    IF i = Len(v.items) THEN element
                    ELSE Write(element, Len(comma) + 1, comma, TRUE, Len(comma)))

print_array(v, p) ==
  Shallower(Write(Elements(v, 1, Deeper(Write(p, 1, <<LBracket>>, FALSE, 1))),
                  2, <<RBracket>>, TRUE, 0))

Fields(v, i, p) ==
  LET indent == IF p.format THEN Write(p, p.depth, Tabs(p.depth), FALSE, p.depth) ELSE p
      colon == IF p.format THEN <<Colon, TAB>> ELSE <<Colon>>
      name == Write(update_offset(print_string_ptr(v.names[i], indent)),
                    Len(colon), colon, FALSE, Len(colon))
      ending == (IF i < Len(v.items) THEN <<Comma>> ELSE <<>>)
                \o (IF p.format THEN <<LF>> ELSE <<>>)
  IN  IF i > Len(v.items) \/ ~p.ok THEN p
      ELSE Fields(v, i + 1, Write(update_offset(print_value(v.items[i], name)),
                                  Len(ending) + 1, ending, TRUE, Len(ending)))

CloseObject(p) ==
  Write(p, IF p.format THEN p.depth + 1 ELSE 2,
        (IF p.format THEN Tabs(p.depth - 1) ELSE <<>>) \o <<RBrace>>, TRUE, 0)

print_object(v, p) ==
  LET brace == <<LBrace>> \o IF p.format THEN <<LF>> ELSE <<>>
  IN  Shallower(CloseObject(Fields(v, 1,
        Deeper(Write(p, Len(brace) + 1, brace, FALSE, Len(brace))))))

print_value(v, p) ==
  CASE v.kind = "null" -> print_word(NullText, p)
    [] v.kind = "false" -> print_word(FalseText, p)
    [] v.kind = "true" -> print_word(TrueText, p)
    [] v.kind = "number" -> print_number(v.text, p)
    [] v.kind = "string" -> print_string_ptr(v.text, p)
    [] v.kind = "array" -> print_array(v, p)
    [] v.kind = "object" -> print_object(v, p)

(* The text is copied into memory of its own size, or handed over as it is.  *)
cJSON_Print(v) == update_offset(print_value(v, Buffer(BufferSize, FALSE, TRUE)))
cJSON_PrintUnformatted(v) == update_offset(print_value(v, Buffer(BufferSize, FALSE, FALSE)))
cJSON_PrintBuffered(v, prebuffer, fmt) == print_value(v, Buffer(prebuffer, FALSE, fmt))
cJSON_PrintPreallocated(v, length, format) == print_value(v, Buffer(length, TRUE, format))

-----------------------------------------------------------------------------
(* cJSON_Minify() writes over the text it reads.  t is the text from the     *)
(* place it has come to.                                                     *)
RECURSIVE skip_oneline_comment(_), skip_multiline_comment(_)
skip_oneline_comment(t) ==
  IF t = <<>> THEN t ELSE IF t[1] = LF THEN Tail(t) ELSE skip_oneline_comment(Tail(t))

skip_multiline_comment(t) ==
  IF t = <<>> THEN t
  ELSE IF Len(t) > 1 /\ t[1] = Star /\ t[2] = Slash THEN From(t, 3)
  ELSE skip_multiline_comment(Tail(t))

RECURSIVE minify_stringPlain(_, _)
minify_stringPlain(t, into) ==
  IF t = <<>> THEN [rest |-> t, into |-> into]
  ELSE IF t[1] = DQuote THEN [rest |-> Tail(t), into |-> Append(into, DQuote)]
  ELSE minify_stringPlain(Tail(t), Append(into, t[1]))

(* The string's text and what follows it: a backslash before a quote is taken*)
(* for the quote's, whatever it stands after.                                *)
RECURSIVE minify_string(_, _)
minify_string(t, into) ==
  IF t = <<>> THEN [rest |-> t, into |-> into]
  ELSE IF t[1] = DQuote THEN [rest |-> Tail(t), into |-> Append(into, DQuote)]
  ELSE IF t[1] = Backslash /\ Len(t) > 1 /\ t[2] = DQuote
  THEN minify_string(From(t, 3), into \o <<Backslash, DQuote>>)
  ELSE minify_string(Tail(t), Append(into, t[1]))

RECURSIVE Minified(_, _)
Minified(t, into) ==
  LET string == minify_string(Tail(t), Append(into, DQuote))
      Slashed(c) == Len(t) > 1 /\ t[1] = Slash /\ t[2] = c
  IN  IF t = <<>> THEN into
      ELSE IF t[1] \in {SP, TAB, CR, LF} THEN Minified(Tail(t), into)
      ELSE IF Slashed(Slash) THEN Minified(skip_oneline_comment(From(t, 3)), into)
      ELSE IF Slashed(Star) THEN Minified(skip_multiline_comment(From(t, 3)), into)
      ELSE IF t[1] = Slash THEN Minified(Tail(t), into)
      ELSE IF t[1] = DQuote THEN Minified(string.rest, string.into)
      ELSE Minified(Tail(t), Append(into, t[1]))

cJSON_Minify(json) == Minified(json, <<>>)
=============================================================================
