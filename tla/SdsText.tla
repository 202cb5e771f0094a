------------------------------ MODULE SdsText ------------------------------
(* The functions of sds.c that build new strings from old ones: comparing,   *)
(* writing numbers, splitting, joining, quoting and reading quoted words.  A *)
(* loop is a function of the number of its turns.                            *)
EXTENDS Ascii, FiniteSets

CONSTANTS
  LLONG_MAX,  \* the greatest long long: 2^63 - 1
  LLSTR_SIZE, \* bytes of the buffer a number is written to: 21
  StaticBuf,  \* bytes of the buffer on the stack of sdscatvprintf(): 1024
  FirstSlots  \* tokens sdssplitlen() makes room for at first: 5

(* The powers of ten: a number less than Ten[d] has at most d digits.        *)
Ten[d \in Nat] == IF d = 0 THEN 1 ELSE 10 * Ten[d - 1]

ASSUME SdsTextAssumption ==
  /\ LLONG_MAX \in Nat
  /\ LLSTR_SIZE \in Nat /\ LLSTR_SIZE >= 3
  /\ LLONG_MAX + 1 < Ten[LLSTR_SIZE - 2]
  /\ StaticBuf \in Nat /\ StaticBuf >= 2
  /\ FirstSlots \in Nat /\ FirstSlots >= 1

-----------------------------------------------------------------------------
(* Comparing: the first difference decides, then the length.                 *)
Sign(n) == IF n > 0 THEN 1 ELSE IF n < 0 THEN -1 ELSE 0

memcmp(s1, s2, n) ==
  LET differ == {i \in 1 .. n : s1[i] # s2[i]}
      first == CHOOSE i \in differ : \A j \in differ : i <= j
  IN  IF differ = {} THEN 0 ELSE s1[first] - s2[first]

sdscmpNoLengths(s1, s2) ==
  memcmp(s1, s2, IF Len(s1) < Len(s2) THEN Len(s1) ELSE Len(s2))

sdscmp(s1, s2) ==
  LET l1 == Len(s1)
      l2 == Len(s2)
      cmp == memcmp(s1, s2, IF l1 < l2 THEN l1 ELSE l2)
  IN  Sign(IF cmp = 0 THEN l1 - l2 ELSE cmp)

-----------------------------------------------------------------------------
(* Numbers.  The negative value without a positive one is its own negation.  *)
Unsigned(n) == n % (2 * (LLONG_MAX + 1))

(* What is left of v after some divisions by ten.                            *)
Divided(v) ==
  LET left[k \in Nat] == IF k = 0 THEN v ELSE left[k - 1] \div 10
  IN  left

(* A digit is written in each turn, the last one of the number first, until  *)
(* nothing is left.                                                          *)
DigitsBackwards(v) ==
  LET left == Divided(v)
      turns == CHOOSE k \in 1 .. v + 1 : left[k] = 0 /\ \A j \in 1 .. k - 1 : left[j] # 0
  IN  [k \in 1 .. turns |-> 48 + (left[k - 1] % 10)]

Reversed(text) == [i \in DOMAIN text |-> text[Len(text) + 1 - i]]

sdsull2str(v) == Reversed(DigitsBackwards(v))

sdsll2strPositive(value) ==
  sdsull2str(Unsigned(value))

sdsll2str(value) ==
  Reversed(DigitsBackwards(Unsigned(IF value < 0 THEN -value ELSE value))
           \o IF value < 0 THEN <<Minus>> ELSE <<>>)

(* sdscatvprintf() prints into buffers twice as large each time, until the   *)
(* byte before the last one is still zero: only then everything fitted.      *)
vsnprintf(text, buflen) ==
  SubSeq(text, 1, IF Len(text) < buflen THEN Len(text) ELSE buflen - 1)

Doubled(first) ==
  LET buflen[k \in Nat] == IF k = 0 THEN first ELSE 2 * buflen[k - 1]
  IN  buflen

Printed(text, first) ==
  LET buflen == Doubled(first)
      Fits(k) == Len(vsnprintf(text, buflen[k])) < buflen[k] - 1
      turn == CHOOSE k \in 0 .. Len(text) : Fits(k) /\ \A j \in 0 .. k - 1 : ~Fits(j)
  IN  vsnprintf(text, buflen[turn])

sdscatvprintfOnce(s, fmtlen, text) == s \o vsnprintf(text, StaticBuf)

sdscatvprintf(s, fmtlen, text) ==
  s \o Printed(text, IF 2 * fmtlen > StaticBuf THEN 2 * fmtlen ELSE StaticBuf)

-----------------------------------------------------------------------------
(* Splitting at a separator and joining with one.  The array has slots for   *)
(* tokens, and room is made for two more before each place that is looked at.*)
RoomForOne(slots, elements) == IF slots < elements + 1 THEN 2 * slots ELSE slots

Room(slots, elements) == IF slots < elements + 2 THEN 2 * slots ELSE slots

SplitTurn(s, sep, a) ==
  LET room == Room(a.slots, Len(a.tokens))
      next == a.j + Len(sep)
  IN  IF next - 1 > Len(s) THEN a
      ELSE IF SubSeq(s, a.j, next - 1) = sep
      THEN [start |-> next, j |-> next,
            tokens |-> Append(a.tokens, SubSeq(s, a.start, a.j - 1)), slots |-> room]
      ELSE [a EXCEPT !.j = @ + 1, !.slots = room]

Split(s, sep) ==
  LET after[k \in Nat] ==
        IF k = 0 THEN [start |-> 1, j |-> 1, tokens |-> <<>>, slots |-> FirstSlots]
        ELSE SplitTurn(s, sep, after[k - 1])
  IN  after

sdssplitlen(s, sep) ==
  LET last == Split(s, sep)[Len(s)]
  IN  IF s = <<>> THEN [tokens |-> <<>>, slots |-> FirstSlots]
      ELSE [tokens |-> Append(last.tokens, From(s, last.start)), slots |-> last.slots]

Joined(argv, sep) ==
  LET join[j \in 0 .. Len(argv)] ==
        IF j = 0 THEN <<>>
        ELSE join[j - 1] \o argv[j] \o (IF j # Len(argv) THEN sep ELSE <<>>)
  IN  join

sdsjoinsds(argv, sep) == Joined(argv, sep)[Len(argv)]

(* The same for C strings, which end at a zero byte.                         *)
sdsjoin(argv, sep) == sdsjoinsds([i \in DOMAIN argv |-> CString(argv[i])], CString(sep))

-----------------------------------------------------------------------------
(* Quoting.  sdscatrepr() writes a text that sdssplitargs() reads back.      *)
Escapes == {<<LF, Lower(14)>>, <<CR, Lower(18)>>, <<TAB, Lower(20)>>,
            <<BEL, Lower(1)>>, <<BS, Lower(2)>>}
IsEscaped(c) == \E e \in Escapes : e[1] = c
EscapeFor(c) == (CHOOSE e \in Escapes : e[1] = c)[2]
Unescaped(c) ==
  IF \E e \in Escapes : e[2] = c THEN (CHOOSE e \in Escapes : e[2] = c)[1] ELSE c

is_hex_digit(c) ==
  isdigit(c) \/ tolower(c) \in Lower(1) .. Lower(6)

hex_digit_to_int(c) ==
  IF isdigit(c) THEN c - 48 ELSE IF is_hex_digit(c) THEN tolower(c) - Lower(1) + 10 ELSE 0

ReprUnquoted(c) ==
  IF isprint(c) THEN <<c>>
  ELSE <<Backslash, Lower(24), HexDigit(c \div 16), HexDigit(c % 16)>>

Repr(c) ==
  IF c \in {Backslash, DQuote} THEN <<Backslash, c>>
  ELSE IF IsEscaped(c) THEN <<Backslash, EscapeFor(c)>>
  ELSE IF isprint(c) THEN <<c>>
  ELSE <<Backslash, Lower(24), HexDigit(c \div 16), HexDigit(c % 16)>>

(* The text of p after s, character by character.                            *)
Represented(s, p) ==
  LET text[i \in 0 .. Len(p)] ==
        IF i = 0 THEN s \o <<DQuote>> ELSE text[i - 1] \o Repr(p[i])
  IN  text

sdscatrepr(s, p) == Append(Represented(s, p)[Len(p)], DQuote)

(* The line that sdssplitargs() reads, with the zero byte that ends it.      *)
Char(line, p) == IF p \in 1 .. Len(line) THEN line[p] ELSE NUL

IsHexEscape(line, p) ==
  /\ Char(line, p) = Backslash /\ Char(line, p + 1) = Lower(24)
  /\ is_hex_digit(Char(line, p + 2)) /\ is_hex_digit(Char(line, p + 3))

(* Reading is at place p, between words (blanks), in a word (plain) and there*)
(* in quotes of either kind, or it has ended (words, error).                 *)
Reading(mode, p, current, vector) ==
  [mode |-> mode, p |-> p, current |-> current, vector |-> vector]

Unbalanced == Reading("error", 0, <<>>, <<>>)

WordDone(line, a) ==
  Reading("blanks", IF Char(line, a.p) = NUL THEN a.p ELSE a.p + 1, <<>>,
          Append(a.vector, a.current))

(* Closing quotes must be followed by a space or nothing at all.             *)
QuotesClosed(line, a) ==
  LET c == Char(line, a.p + 1)
  IN  IF c # NUL /\ ~isspace(c) THEN Unbalanced ELSE WordDone(line, a)

(* One turn of the loop over the line in each mode.  Add puts in a character *)
(* that n of the line stand for.                                             *)
Add(a, c, n) == [a EXCEPT !.current = Append(@, c), !.p = @ + n]

BlanksTurn(line, a) ==
  LET c == Char(line, a.p)
  IN  IF c = NUL THEN [a EXCEPT !.mode = "words"]
      ELSE IF isspace(c) THEN [a EXCEPT !.p = @ + 1]
      ELSE [a EXCEPT !.mode = "plain"]

PlainTurn(line, a) ==
  LET c == Char(line, a.p)
  IN  CASE c \in {SP, LF, CR, TAB, NUL} -> WordDone(line, a)
        [] c = DQuote -> [a EXCEPT !.mode = "quotes", !.p = @ + 1]
        [] c = SQuote -> [a EXCEPT !.mode = "single", !.p = @ + 1]
        [] OTHER -> Add(a, c, 1)

QuotesTurn(line, a) ==
  LET c == Char(line, a.p)
      next == Char(line, a.p + 1)
  IN  IF IsHexEscape(line, a.p)
      THEN Add(a, 16 * hex_digit_to_int(Char(line, a.p + 2))
                  + hex_digit_to_int(Char(line, a.p + 3)), 4)
      ELSE IF c = Backslash /\ next # NUL THEN Add(a, Unescaped(next), 2)
      ELSE IF c = DQuote THEN QuotesClosed(line, a)
      ELSE IF c = NUL THEN Unbalanced
      ELSE Add(a, c, 1)

SingleTurn(line, a) ==
  LET c == Char(line, a.p)
  IN  IF c = Backslash /\ Char(line, a.p + 1) = SQuote THEN Add(a, SQuote, 2)
      ELSE IF c = SQuote THEN QuotesClosed(line, a)
      ELSE IF c = NUL THEN Unbalanced
      ELSE Add(a, c, 1)

ArgsTurn(line, a) ==
  CASE a.mode = "blanks" -> BlanksTurn(line, a)
    [] a.mode = "plain" -> PlainTurn(line, a)
    [] a.mode = "quotes" -> QuotesTurn(line, a)
    [] a.mode = "single" -> SingleTurn(line, a)
    [] OTHER -> a

(* Each turn passes a character, begins a word or ends one.                  *)
Args(line) ==
  LET after[k \in Nat] ==
        IF k = 0 THEN Reading("blanks", 1, <<>>, <<>>) ELSE ArgsTurn(line, after[k - 1])
  IN  after

sdssplitargs(line) ==
  LET last == Args(line)[2 * Len(line) + 3]
  IN  [ok |-> last.mode = "words", argv |-> last.vector]
=============================================================================
