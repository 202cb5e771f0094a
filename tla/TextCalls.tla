----------------------------- MODULE TextCalls -----------------------------
(* A program that calls the functions of SdsText and Glob.  They keep no     *)
(* state, so a call is one step, and the program makes one call, or a few in *)
(* a row on what the one before returned.                                    *)
EXTENDS SdsText, Glob

CONSTANTS
  Longs,        \* numbers to write
  Lines, Separators,  \* strings to split, and at what
  WordLists,    \* lists of words to quote
  Triples,      \* three strings to compare
  Patterns,     \* patterns as sequences of items
  Strings       \* texts they are matched with

Bytes == 0 .. 255

ASSUME TextCallsAssumption ==
  /\ Longs \subseteq -(LLONG_MAX + 1) .. LLONG_MAX
  /\ \A s \in Lines \cup Separators : s \in Seq(Bytes)
  /\ <<>> \notin Separators
  /\ \A words \in WordLists : words \in Seq(Seq(Bytes))
  /\ \A t \in Triples : t \in [1 .. 3 -> Seq(Bytes)]
  /\ \A items \in Patterns : items \in Seq(PatternItems)
  /\ \A text \in Strings : text \in Seq(Chars)

VARIABLES
  call,   \* the call made last and its arguments
  answer  \* what it returned

text_vars == <<call, answer>>

Idle == [fn |-> "none"]
TextInit == call = Idle /\ answer = <<>>

Free == call = Idle
Call(c, a) == call' = c /\ answer' = a

sdscmp_calls ==
  /\ Free
  /\ \E t \in Triples :
       Call([fn |-> "sdscmp", texts |-> t],
            [i \in 1 .. 3 |-> [j \in 1 .. 3 |-> sdscmp(t[i], t[j])]])

sdsfromlonglong_call ==
  /\ Free
  /\ \E n \in Longs :
       Call([fn |-> "sdsfromlonglong", number |-> n], sdsll2str(n))

sdscatprintf_call ==
  /\ Free
  /\ \E s \in Lines, text \in Lines, fmtlen \in 1 .. StaticBuf :
       Call([fn |-> "sdscatprintf", text |-> s \o text], sdscatvprintf(s, fmtlen, text))

sdssplitlen_call ==
  /\ Free
  /\ \E s \in Lines, sep \in Separators :
       Call([fn |-> "sdssplitlen", text |-> s, sep |-> sep], sdssplitlen(s, sep))

(* A caller that quotes words puts a space between them.                     *)
Quoted(words) ==
  LET line[i \in 0 .. Len(words)] ==
        IF i = 0 THEN <<>>
        ELSE sdscatrepr(IF i = 1 THEN <<>> ELSE Append(line[i - 1], SP), words[i])
  IN  line

sdscatrepr_calls ==
  /\ Free
  /\ \E words \in WordLists :
       Call([fn |-> "sdscatrepr", words |-> words], Quoted(words)[Len(words)])

sdssplitargs_call ==
  /\ call.fn = "sdscatrepr"
  /\ Call([call EXCEPT !.fn = "sdssplitargs"], sdssplitargs(answer))

strmatch_call ==
  /\ Free
  /\ \E items \in Patterns, text \in Strings, nocase \in BOOLEAN :
       Call([fn |-> "strmatch", items |-> items, text |-> text, nocase |-> nocase],
            strmatch(WritePattern(items), text, nocase))

Return == call # Idle /\ call' = Idle /\ answer' = <<>>

CallsNext ==
  \/ sdscmp_calls \/ sdsfromlonglong_call \/ sdscatprintf_call \/ sdssplitlen_call
  \/ sdscatrepr_calls \/ sdssplitargs_call
  \/ strmatch_call
  \/ Return

CallsSpec == TextInit /\ [][CallsNext]_text_vars

-----------------------------------------------------------------------------
(* sdscmp() orders the strings, so they can be sorted by it: two are equal   *)
(* only if they are the same, one prefix before the other, and no circle.    *)
CompareOrders ==
  call.fn = "sdscmp" =>
    \A i, j \in 1 .. 3 :
      /\ answer[i][j] = -answer[j][i]
      /\ (answer[i][j] = 0) = (call.texts[i] = call.texts[j])
      /\ \A k \in 1 .. 3 : answer[i][j] <= 0 /\ answer[j][k] <= 0 => answer[i][k] <= 0

(* The digits of every number of the width, the smallest included, read back *)
(* as that number, without leading zeros, and fit the buffer of              *)
(* sdsfromlonglong().                                                        *)
NumberReadsBack ==
  call.fn = "sdsfromlonglong" =>
    LET digits == IF answer[1] = Minus THEN Tail(answer) ELSE answer
        value[n \in 0 .. Len(digits)] ==
          IF n = 0 THEN 0 ELSE 10 * value[n - 1] + digits[n] - 48
    IN  /\ \A i \in DOMAIN digits : isdigit(digits[i])
        /\ value[Len(digits)] = IF answer = digits THEN call.number ELSE -call.number
        /\ digits[1] # 48 \/ answer = <<48>>
        /\ Len(answer) + 1 <= LLSTR_SIZE

(* sdscatprintf() appends the whole formatted text, however it compares with *)
(* the buffer on the stack and those that follow it.                         *)
PrintedWhole == call.fn = "sdscatprintf" => answer = call.text

(* sdssplitlen() cuts at the first place each separator is found: its tokens *)
(* joined with the separator are the string again, none holds a separator,   *)
(* and the array always had a slot for them.                                 *)
SplitJoin ==
  call.fn = "sdssplitlen" =>
    LET tokens == answer.tokens
        Holds(t) == \E i \in 1 .. Len(t) - Len(call.sep) + 1 :
                      SubSeq(t, i, i + Len(call.sep) - 1) = call.sep
    IN  /\ sdsjoinsds(tokens, call.sep) = call.text
        /\ \A i \in DOMAIN tokens : ~Holds(tokens[i])
        /\ Len(tokens) <= answer.slots

(* sdssplitargs() reads back any list of words that sdscatrepr() has quoted. *)
QuotingRoundTrips ==
  call.fn = "sdssplitargs" => answer = [ok |-> TRUE, argv |-> call.words]

(* strmatch() accepts exactly the texts a pattern stands for: stars in any   *)
(* number and place, classes, ranges, negations and quoted characters, with  *)
(* and without regard to case.  An empty text is matched by no pattern but   *)
(* the empty one, not even by a star.                                        *)
PatternMeaning ==
  call.fn = "strmatch" =>
    answer = IF call.text = <<>> THEN call.items = <<>>
             ELSE StandsFor(call.items, call.text, call.nocase)
=============================================================================
