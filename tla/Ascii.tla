------------------------------- MODULE Ascii -------------------------------
(* Characters by their codes, and the C library's questions about them in    *)
(* the C locale.  A text is a sequence of codes without the zero byte that   *)
(* ends it in memory.                                                        *)
EXTENDS Integers, Sequences

NUL == 0
BEL == 7
BS == 8
TAB == 9
LF == 10
VT == 11
FF == 12
CR == 13
SP == 32
DQuote == 34
Percent == 37
SQuote == 39
Star == 42
Comma == 44
Minus == 45
Slash == 47
Colon == 58
Question == 63
LBracket == 91
Backslash == 92
RBracket == 93
Caret == 94
LBrace == 123
RBrace == 125

Lower(letter) == 96 + letter          \* Lower(1) is a
Upper(letter) == 64 + letter          \* Upper(1) is A

isspace(c) == c = SP \/ c \in TAB .. CR
isprint(c) == c \in 32 .. 126
isdigit(c) == c \in 48 .. 57
tolower(c) == IF c \in 65 .. 90 THEN c + 32 ELSE c

(* strlen(), strcmp() and their like stop at the first zero byte.            *)
CString(bytes) ==
  IF \E i \in DOMAIN bytes : bytes[i] = NUL
  THEN SubSeq(bytes, 1, (CHOOSE i \in DOMAIN bytes : /\ bytes[i] = NUL
                                                     /\ \A j \in 1 .. i - 1 : bytes[j] # NUL) - 1)
  ELSE bytes

From(text, i) == SubSeq(text, i, Len(text))

(* The texts one after the other.                                            *)
Concatenated(texts) ==
  LET text[i \in 0 .. Len(texts)] == IF i = 0 THEN <<>> ELSE text[i - 1] \o texts[i]
  IN  text[Len(texts)]

(* The lower-case hexadecimal digit of 0 to 15, as printf("%x") writes it.   *)
HexDigit(n) == IF n < 10 THEN 48 + n ELSE Lower(n - 9)
=============================================================================
