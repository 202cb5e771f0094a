------------------------------ MODULE MCLibrary ------------------------------
(* Inputs for the functions of Text, names and items for JsonTree, and the   *)
(* results of queries for SqlRow.                                            *)
EXTENDS Library, TLC

UpTo(S, n) == UNION {[1 .. k -> S] : k \in 0 .. n}

La == Lower(1)
Lb == Lower(2)
Lc == Lower(3)
UA == Upper(1)
UC == Upper(3)
Zero == 48

Element(from, to, quoted) == [from |-> from, to |-> to, quoted |-> quoted]
Plain(c) == Element(c, c, FALSE)
Item(kind, not, elements) == [kind |-> kind, not |-> not, elements |-> elements]
One_(element) == Item("one", FALSE, <<element>>)

MCItems ==
  {Item("star", FALSE, <<>>), Item("any", FALSE, <<>>),
   One_(Plain(La)), One_(Plain(UA)), One_(Element(Star, Star, TRUE)),
   Item("class", FALSE, <<Element(La, Lb, FALSE), Plain(Star)>>),
   Item("class", FALSE, <<Element(UC, UA, FALSE), Element(RBracket, RBracket, TRUE)>>),
   Item("class", TRUE, <<Plain(La)>>)}
MCPatterns == UpTo(MCItems, 3)
MCStrings == UpTo({La, Lb, UA, Star}, 2) \cup UpTo({La, Lb}, 3)
             \cup {<<La, RBracket, La>>, <<RBracket>>, <<Lc, La, La, Lb>>}

MCLongs == -(LLONG_MAX + 1) .. LLONG_MAX
MCLines == UpTo({La, Lb}, 4) \cup {[i \in 1 .. n |-> La] : n \in 5 .. 13}
MCSeparators == {<<La>>, <<La, Lb>>, <<La, La>>, <<Lb, La, Lb>>}
MCWordLists == UpTo(UpTo({La, DQuote, SQuote, Backslash, SP, LF, 1, 255}, 2), 1)
               \cup UpTo(UpTo({Lower(24), DQuote, Backslash, TAB}, 1), 3)
MCTriples == [1 .. 3 -> UpTo({NUL, La, 255}, 2)]

Digits1 == Number(<<Minus, 49, Zero>>)
Scalars == {Null, True, False, Digits1, Number(<<Zero>>), String(<<>>),
            String(<<La, DQuote, Slash, Slash>>), String(<<Backslash, 1, LF>>),
            String(<<Comma, Colon, RBracket>>), String(<<Backslash>>)}
Few == {Null, Digits1, String(<<La, DQuote, Slash, Slash>>), String(<<Comma>>)}
Names2 == {<<La>>, <<UA>>, <<>>}
Flat == {Array(s) : s \in UpTo(Few, 2)} \cup {Array(<<v>>) : v \in Scalars}
        \cup {Object(<<>>, <<>>)} \cup {Object(<<n>>, <<v>>) : n \in Names2, v \in Scalars}
        \cup {Object(<<n, k>>, <<v, w>>) : n, k \in Names2, v, w \in Few}
Nested(S) == {Array(<<v>>) : v \in S} \cup {Object(<<<<La>>, <<Lb>>>>, <<v, Null>>) : v \in S}
             \cup {Array(<<Null, v>>) : v \in S}
Small == {Array(<<>>), Object(<<>>, <<>>), Array(<<Digits1, True>>),
          Object(<<<<La>>, <<La>>>>, <<Digits1, String(<<DQuote>>)>>)}
MCValues == Scalars \cup Flat \cup Nested(Small) \cup Nested(Nested(Small))

Comparable == {Null, True, False, Digits1, Number(<<Zero>>), String(<<La>>), String(<<UA>>)}
  \cup {Array(s) : s \in UpTo({Null, Digits1}, 2)}
  \cup {Object(<<>>, <<>>)} \cup {Object(<<n>>, <<v>>) : n \in Names2, v \in {Null, Digits1}}
  \cup {Object(<<n, k>>, <<v, w>>) : n, k \in Names2, v, w \in {Null, Array(<<>>)}}
MCPairs == LET S == Comparable \cup {Array(<<v>>) : v \in Small} IN S \X S

Step(kind, text, index, arg) == [kind |-> kind, text |-> text, index |-> index, arg |-> arg]
MCSteps == {Step("name", t, 0, a) : t \in {<<La>>, <<UA>>, <<La, Lb>>}, a \in BOOLEAN}
  \cup {Step("name", <<La, Dot, Lb>>, 0, TRUE)}
  \cup {Step("index", <<>>, i, a) : i \in {-1, 0, 1}, a \in BOOLEAN}
  \cup {Step("type", <<c>>, 0, FALSE) : c \in {Lower(19), Lower(14), Lower(15), Lower(1),
                                                Lower(2), Bang}}
MCPaths == UpTo(MCSteps, 3)
MCTrees == {Null, Digits1, True,
            Array(<<Null, String(<<La>>)>>),
            Object(<<<<UA>>, <<La>>>>, <<True, Array(<<Digits1, Null>>)>>),
            Object(<<<<La>>, <<La>>, <<La, Lb>>>>,
                   <<Object(<<<<La, Dot, Lb>>>>, <<Array(<<Null>>)>>), True, Null>>)}

MCUnits == {1, 65, 127, 128, 2047, 2048, 55295, 55296, 56319, 56320, 57343, 57344, 65535}
MCUnitLists == UpTo(MCUnits, 3)
MCPrebuffers == {1, 2, 9}
MCDamage == {Comma, DQuote, RBracket, RBrace, La, Zero, Minus}
MCComments == {<<SP>>, <<LF, TAB>>, <<Slash, Slash, DQuote, LF>>,
               <<Slash, Star, Star, DQuote, Slash, SP, Star, Slash>>}

MCFolded == [s \in Names |-> "a"]
ItemSymmetry == Permutations(Items)

Cell(type, n) == [type |-> type, n |-> n]
MCResults == {<<>>, <<<<Cell("INTEGER", 5), Cell("NULL", 0)>>>>,
              <<<<Cell("FLOAT", 3)>>, <<Cell("TEXT", 2)>>>>,
              <<<<Cell("NULL", 0)>>, <<Cell("INTEGER", 4)>>, <<Cell("BLOB", 1)>>>>}
=============================================================================
