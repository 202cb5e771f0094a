-------------------------------- MODULE Glob --------------------------------
(* The patterns of botlib.c: strmatch(), by which a group message is kept or *)
(* dropped.  A pattern and a text are sequences of characters; the zero byte *)
(* that ends them in memory is what is read one place after their last.      *)
EXTENDS Ascii, FiniteSets

(* What is read at a place of the pattern: the zero byte after its end.  A   *)
(* place further out is outside the pattern's memory, and no value of TLA+.  *)
At(pattern, i) == Append(pattern, NUL)[i]

Same(a, b, nocase) ==
  IF nocase THEN tolower(a) = tolower(b) ELSE a = b

InRangeAsWritten(from, to, c, nocase) ==
  LET fold(x) == IF nocase THEN tolower(x) ELSE x
  IN  fold(from) <= fold(c) /\ fold(c) <= fold(to)

(* A range is put in order first and folded to lower case after that.        *)
InRange(from, to, c, nocase) ==
  LET start == IF from > to THEN to ELSE from
      end == IF from > to THEN from ELSE to
      fold(x) == IF nocase THEN tolower(x) ELSE x
  IN  fold(start) <= fold(c) /\ fold(c) <= fold(end)

(* The loop over the characters of a class: its place in the pattern, whether*)
(* one of them was c, and whether it goes on.  A class that is never closed  *)
(* ends with the pattern.                                                    *)
Scan(p, match, open) == [p |-> p, match |-> match, open |-> open]

ClassTurn(pattern, c, nocase, a) ==
  LET first == At(pattern, a.p)
      left == Len(pattern) + 1 - a.p
  IN  IF ~a.open THEN a
      ELSE IF first = Backslash /\ left >= 2 THEN
        Scan(a.p + 2, a.match \/ pattern[a.p + 1] = c, TRUE)
      ELSE IF first = RBracket THEN Scan(a.p + 1, a.match, FALSE)
      ELSE IF left = 0 THEN Scan(a.p, a.match, FALSE)
      ELSE IF left >= 3 /\ pattern[a.p + 1] = Minus THEN
        Scan(a.p + 3, a.match \/ InRange(first, pattern[a.p + 2], c, nocase), TRUE)
      ELSE Scan(a.p + 1, a.match \/ Same(first, c, nocase), TRUE)

(* The class that begins at place p, after "[" or "[^".                      *)
InClass(pattern, p, c, nocase) ==
  LET after[k \in Nat] ==
        IF k = 0 THEN Scan(p, FALSE, TRUE)
        ELSE ClassTurn(pattern, c, nocase, after[k - 1])
  IN  after

(* One character of the text against what is at place p of the pattern, and  *)
(* the place after that.                                                     *)
One(pattern, p, c, nocase) ==
  LET not == At(pattern, p + 1) = Caret
      class == InClass(pattern, IF not THEN p + 2 ELSE p + 1, c, nocase)[Len(pattern) + 1]
      q == IF pattern[p] = Backslash /\ p < Len(pattern) THEN p + 1 ELSE p
  IN  IF pattern[p] = Question THEN [match |-> TRUE, p |-> p + 1]
      ELSE IF pattern[p] = LBracket THEN [match |-> class.match # not, p |-> class.p]
      ELSE [match |-> Same(pattern[q], c, nocase), p |-> q + 1]

(* The first place from p on without a star.                                 *)
AfterStars(pattern, p) ==
  CHOOSE q \in p .. Len(pattern) + 1 :
    At(pattern, q) # Star /\ \A i \in p .. q - 1 : pattern[i] = Star

(* The rests of the text, by their lengths, that the last m characters of the*)
(* pattern match.  A star tries what follows it on one rest after the other. *)
Matches(pattern, string, nocase) ==
  LET n == Len(pattern)
      k == Len(string)
      match[m \in 0 .. n] ==
        LET p == n + 1 - m
            after == AfterStars(pattern, p)
            one(j) == One(pattern, p, string[k + 1 - j], nocase)
        IN  {j \in 0 .. k :
               IF m = 0 \/ j = 0 THEN m = j
               ELSE IF pattern[p] = Star
               THEN after = n + 1 \/ \E i \in 1 .. j : i \in match[n + 1 - after]
               ELSE /\ one(j).match
                    /\ IF j = 1 THEN AfterStars(pattern, one(j).p) = n + 1
                       ELSE j - 1 \in match[n + 1 - one(j).p]}
  IN  match

strmatch(pattern, string, nocase) ==
  Len(string) \in Matches(pattern, string, nocase)[Len(pattern)]

-----------------------------------------------------------------------------
(* The meaning of a pattern.  A pattern is written from a sequence of items: *)
(* "star", "any", or a class of characters, each character or range of it    *)
(* written plain or quoted; "one" is a class without brackets.               *)
Chars == 0 .. 127

Span(element) ==
  LET ends == {element.from, element.to}
  IN  {c \in Chars : \E a, b \in ends : a <= c /\ c <= b}

InSpan(element, c, nocase) ==
  \E x \in Span(element) : x = c \/ (nocase /\ tolower(x) = tolower(c))

Denotes(item, c, nocase) ==
  \/ item.kind = "any"
  \/ (\E i \in DOMAIN item.elements : InSpan(item.elements[i], c, nocase)) # item.not

WriteElement(element) ==
  IF element.from # element.to THEN <<element.from, Minus, element.to>>
  ELSE IF element.quoted THEN <<Backslash, element.from>>
  ELSE <<element.from>>

WriteElements(elements) == Concatenated([i \in DOMAIN elements |-> WriteElement(elements[i])])

WriteItem(item) ==
  CASE item.kind = "star" -> <<Star>>
    [] item.kind = "any" -> <<Question>>
    [] item.kind = "one" -> WriteElement(item.elements[1])
    [] item.kind = "class" -> <<LBracket>> \o (IF item.not THEN <<Caret>> ELSE <<>>)
                              \o WriteElements(item.elements) \o <<RBracket>>

WritePattern(items) == Concatenated([i \in DOMAIN items |-> WriteItem(items[i])])

(* What can be written so.  Outside a class a plain character has no meaning *)
(* of its own; inside, it does not close the class and is not taken for the  *)
(* "^" or the "-" of a range.  The code compares a quoted character of a     *)
(* class with its case, and folds the ends of a range: so a letter is not    *)
(* quoted there, and a range has only capital letters or none.               *)
Capitals == Upper(1) .. Upper(26)
Unquoted(element) == element.from = element.to /\ ~element.quoted

PlainOutside(element) ==
  /\ element.from = element.to
  /\ element.quoted \/ element.from \notin {Star, Question, LBracket, Backslash}

PlainInside(element) ==
  /\ element.from \in {RBracket, Backslash} => element.from = element.to /\ element.quoted
  /\ element.from = element.to /\ element.quoted => tolower(element.from) \notin Lower(1) .. Lower(26)
  /\ Span(element) \subseteq Capitals \/ Span(element) \cap Capitals = {}

PlainClass(item) ==
  /\ \A i \in DOMAIN item.elements :
       /\ PlainInside(item.elements[i])
       /\ i > 1 /\ Unquoted(item.elements[i - 1]) => WriteElement(item.elements[i])[1] # Minus
       /\ i = 1 /\ ~item.not => WriteElement(item.elements[i])[1] # Caret

PatternItems ==
  {item \in [kind : {"star", "any", "one", "class"}, not : BOOLEAN,
             elements : Seq([from : Chars, to : Chars, quoted : BOOLEAN])] :
     /\ item.kind = "one" => /\ Len(item.elements) = 1 /\ ~item.not
                             /\ PlainOutside(item.elements[1])
     /\ item.kind = "class" => PlainClass(item)}

(* Whether the items stand for the text: a star for any part of it, any      *)
(* other item for one character that it denotes.  stands[m] are the rests of *)
(* the text, by their lengths, for which the last m items stand.             *)
StandsFor(items, text, nocase) ==
  LET n == Len(items)
      k == Len(text)
      stands[m \in 0 .. n] ==
        LET item == items[n + 1 - m]
        IN  {j \in 0 .. k :
               IF m = 0 THEN j = 0
               ELSE IF item.kind = "star" THEN \E i \in 0 .. j : i \in stands[m - 1]
               ELSE j > 0 /\ Denotes(item, text[k + 1 - j], nocase) /\ j - 1 \in stands[m - 1]}
  IN  k \in stands[n]
=============================================================================
