------------------------------ MODULE JsonText ------------------------------
(* cJSON.c: reading a value from a text.  Numbers are whole, with their      *)
(* digits for their value; what is read outside the buffer is no value of    *)
(* TLA+.                                                                     *)
EXTENDS JsonValue

CONSTANT NESTING_LIMIT   \* how deep containers may be nested in a text: 1000

NullText == <<110, 117, 108, 108>>
FalseText == <<102, 97, 108, 115, 101>>
TrueText == <<116, 114, 117, 101>>
BOM == <<239, 187, 191>>
LetterU == Lower(21)

-----------------------------------------------------------------------------
(* Reading.  b is the buffer with the zero byte that ends the text, at and i *)
(* are places in it.  A result is the value and the place after it.          *)
Parsed(v, at) == [ok |-> TRUE, value |-> v, at |-> at]
Failed == [ok |-> FALSE, value |-> NoItem, at |-> 0]

Reads(b, at, text) ==
  /\ at + Len(text) - 1 <= Len(b)
  /\ SubSeq(b, at, at + Len(text) - 1) = text
Is(b, at, c) == at <= Len(b) /\ b[at] = c

(* Control characters count as blanks, the zero byte too; at the end of the  *)
(* buffer one step is taken back.                                            *)
RECURSIVE SkipFrom(_, _)
SkipFrom(b, at) ==
  IF at <= Len(b) /\ b[at] <= 32 THEN SkipFrom(b, at + 1)
  ELSE IF at = Len(b) + 1 THEN at - 1 ELSE at

buffer_skip_whitespace(b, at) == IF at > Len(b) THEN at ELSE SkipFrom(b, at)

HexValue(c) == IF isdigit(c) THEN c - 48 ELSE tolower(c) - 87

(* Four digits; anything else among them makes it zero.                      *)
parse_hex4(b, i) ==
  LET digit(k) == b[i + k]
  IN  IF \A k \in 0 .. 3 : isdigit(digit(k)) \/ tolower(digit(k)) \in 97 .. 102
      THEN 4096 * HexValue(digit(0)) + 256 * HexValue(digit(1))
           + 16 * HexValue(digit(2)) + HexValue(digit(3))
      ELSE 0

Utf8OffByOne(code) ==
  LET tail(n) == 128 + ((code \div n) % 64)
  IN  CASE code < 128 -> <<code>>
        [] code \in 128 .. 2048 -> <<192 + (code \div 64), tail(1)>>
        [] code \in 2049 .. 65535 -> <<224 + (code \div 4096), tail(64), tail(1)>>
        [] OTHER -> <<240 + (code \div 262144), tail(4096), tail(64), tail(1)>>

Utf8(code) ==
  LET tail(n) == 128 + ((code \div n) % 64)
  IN  CASE code < 128 -> <<code>>
        [] code \in 128 .. 2047 -> <<192 + (code \div 64), tail(1)>>
        [] code \in 2048 .. 65535 -> <<224 + (code \div 4096), tail(64), tail(1)>>
        [] OTHER -> <<240 + (code \div 262144), tail(4096), tail(64), tail(1)>>

(* A \uXXXX, or two of them for a surrogate pair, before the end of the      *)
(* string: the bytes and how many characters it took, 0 if it is wrong.      *)
utf16_literal_to_utf8(b, i, end) ==
  LET first == parse_hex4(b, i + 2)
      second == parse_hex4(b, i + 8)
      Wrong == [taken |-> 0, bytes |-> <<>>]
  IN  IF end - i < 6 THEN Wrong
      ELSE IF first \in 56320 .. 57343 THEN Wrong
      ELSE IF first \notin 55296 .. 56319 THEN [taken |-> 6, bytes |-> Utf8(first)]
      ELSE IF end - i < 12 \/ b[i + 6] # Backslash \/ b[i + 7] # LetterU
              \/ second \notin 56320 .. 57343 THEN Wrong
      ELSE [taken |-> 12,
            bytes |-> Utf8(65536 + 1024 * (first % 1024) + (second % 1024))]

(* Escapes of one character: the letter and what it stands for.              *)
JsonEscapes == {<<Lower(2), BS>>, <<Lower(6), FF>>, <<Lower(14), LF>>,
                <<Lower(18), CR>>, <<Lower(20), TAB>>, <<DQuote, DQuote>>,
                <<Backslash, Backslash>>}
EscapedBy(letter) ==
  IF letter = Slash THEN {Slash} ELSE {e[2] : e \in {f \in JsonEscapes : f[1] = letter}}

(* The quote that ends a string begun before i, 0 if there is none.          *)
RECURSIVE StringEnd(_, _)
StringEnd(b, i) ==
  IF i > Len(b) THEN 0
  ELSE IF b[i] = DQuote THEN i
  ELSE StringEnd(b, IF b[i] = Backslash THEN i + 2 ELSE i + 1)

(* How much is allocated for what is read from i: an escape counts for one,  *)
(* and two bytes are added.                                                  *)
RECURSIVE StringRoom(_, _, _)
StringRoom(b, i, end) ==
  IF i >= end THEN 2
  ELSE 1 + StringRoom(b, IF b[i] = Backslash THEN i + 2 ELSE i + 1, end)

RECURSIVE Unescape(_, _, _, _)
Unescape(b, i, end, output) ==
  LET simple == EscapedBy(b[i + 1])
      literal == utf16_literal_to_utf8(b, i, end)
  IN  IF i >= end THEN [ok |-> TRUE, text |-> output]
      ELSE IF b[i] # Backslash THEN Unescape(b, i + 1, end, Append(output, b[i]))
      ELSE IF simple # {} THEN
        Unescape(b, i + 2, end, Append(output, CHOOSE c \in simple : TRUE))
      ELSE IF b[i + 1] = LetterU /\ literal.taken > 0 THEN
        Unescape(b, i + literal.taken, end, output \o literal.bytes)
      ELSE [ok |-> FALSE, text |-> output]

parse_string(b, at) ==
  LET Read(end) == Unescape(b, at + 1, end, <<>>)
      Result(read, end) ==
        IF read.ok THEN Parsed(String(CString(read.text)), end + 1) ELSE Failed
      Upto(end) == IF end = 0 THEN Failed ELSE Result(Read(end), end)
  IN  IF b[at] # DQuote THEN Failed ELSE Upto(StringEnd(b, at + 1))

RECURSIVE DigitsEnd(_, _)
DigitsEnd(b, i) == IF i <= Len(b) /\ isdigit(b[i]) THEN DigitsEnd(b, i + 1) ELSE i

RECURSIVE NoLeadingZero(_)
NoLeadingZero(digits) ==
  IF Len(digits) > 1 /\ digits[1] = 48 THEN NoLeadingZero(Tail(digits)) ELSE digits

(* strtod() takes the digits it can, and may be left with a sign alone.      *)
parse_number(b, at) ==
  LET sign == IF b[at] = Minus THEN <<Minus>> ELSE <<>>
      start == at + Len(sign)
      end == DigitsEnd(b, start)
  IN  IF end = start THEN Failed
      ELSE Parsed(Number(sign \o NoLeadingZero(SubSeq(b, start, end - 1))), end)

ClosesAny(b, at, object) == Is(b, at, RBrace) \/ Is(b, at, RBracket)

Closes(b, at, object) == Is(b, at, IF object THEN RBrace ELSE RBracket)

(* A name, its colon and the place where the element begins.               *)
Named(b, name) ==
  LET After(colon) ==
        IF Is(b, colon, Colon)
        THEN Parsed(name.value, buffer_skip_whitespace(b, colon + 1)) ELSE Failed
  IN  IF name.ok THEN After(buffer_skip_whitespace(b, name.at)) ELSE Failed

(* The elements of an array, or the names and elements of an object, from    *)
(* where the next one begins to the bracket that closes it.                  *)
RECURSIVE parse_value(_, _, _), Members(_, _, _, _, _, _)
Members(b, at, depth, object, names, items) ==
  LET Ending(v, after) ==
        IF Closes(b, after, object) THEN Parsed(v, after + 1) ELSE Failed
      More(after, allNames, allItems) ==
        IF Is(b, after, Comma)
        THEN Members(b, buffer_skip_whitespace(b, after + 1), depth, object, allNames, allItems)
        ELSE Ending(IF object THEN Object(allNames, allItems) ELSE Array(allItems), after)
      WithValue(name, v) ==
        IF v.ok THEN More(buffer_skip_whitespace(b, v.at),
                          Append(names, name), Append(items, v.value))
        ELSE Failed
      WithName(name) ==
        IF name.ok THEN WithValue(name.value.text, parse_value(b, name.at, depth)) ELSE Failed
  IN  WithName(IF object THEN Named(b, parse_string(b, at)) ELSE Parsed(NoItem, at))

parse_arrayDeeper(b, at, depth) ==
  LET first == buffer_skip_whitespace(b, at + 1)
  IN  IF depth > NESTING_LIMIT THEN Failed
      ELSE IF Is(b, first, RBracket) THEN Parsed(Array(<<>>), first + 1)
      ELSE Members(b, first, depth + 1, FALSE, <<>>, <<>>)

parse_array(b, at, depth) ==
  LET first == buffer_skip_whitespace(b, at + 1)
  IN  IF depth >= NESTING_LIMIT THEN Failed
      ELSE IF Closes(b, first, FALSE) THEN Parsed(Array(<<>>), first + 1)
      ELSE Members(b, first, depth + 1, FALSE, <<>>, <<>>)

parse_object(b, at, depth) ==
  LET first == buffer_skip_whitespace(b, at + 1)
  IN  IF depth >= NESTING_LIMIT THEN Failed
      ELSE IF Closes(b, first, TRUE) THEN Parsed(Object(<<>>, <<>>), first + 1)
      ELSE Members(b, first, depth + 1, TRUE, <<>>, <<>>)

parse_value(b, at, depth) ==
  CASE Reads(b, at, NullText) -> Parsed(Null, at + 4)
    [] Reads(b, at, FalseText) -> Parsed(False, at + 5)
    [] Reads(b, at, TrueText) -> Parsed(True, at + 4)
    [] Is(b, at, DQuote) -> parse_string(b, at)
    [] Is(b, at, LBracket) -> parse_array(b, at, depth)
    [] Is(b, at, LBrace) -> parse_object(b, at, depth)
    [] at <= Len(b) /\ (b[at] = Minus \/ isdigit(b[at])) -> parse_number(b, at)
    [] OTHER -> Failed

skip_utf8_bom(b) == IF Len(b) > 4 /\ Reads(b, 1, BOM) THEN 4 ELSE 1

(* What follows the value is looked at only when its end is asked for.       *)
cJSON_ParseWithOpts(text, require_null_terminated) ==
  LET b == Append(text, NUL)
      v == parse_value(b, buffer_skip_whitespace(b, skip_utf8_bom(b)), 0)
  IN  IF v.ok /\ require_null_terminated /\ b[buffer_skip_whitespace(b, v.at)] # NUL
      THEN Failed ELSE v

cJSON_Parse(text) == cJSON_ParseWithOpts(text, FALSE)
=============================================================================
