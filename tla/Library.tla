------------------------------ MODULE Library -------------------------------
(* The code the bot is built on, each part used by a program of its own: the *)
(* functions on texts, the trees of cJSON and the rows of sqlite_wrap.c.     *)
(* They share no state, so programs that use one of them each say all.       *)
EXTENDS Text, JsonTree, SqlRow

VARIABLE part      \* what the program uses

vars == <<part, text_vars, tree_vars, row_vars>>

Init == part \in {"text", "tree", "row"} /\ TextInit /\ TreeInit /\ RowInit

TextProgram == part = "text" /\ TextNext /\ UNCHANGED <<part, tree_vars, row_vars>>
TreeProgram == part = "tree" /\ TreeNext /\ UNCHANGED <<part, text_vars, row_vars>>
RowProgram == part = "row" /\ RowNext /\ UNCHANGED <<part, text_vars, tree_vars>>

Next == TextProgram \/ TreeProgram \/ RowProgram

Spec == Init /\ [][Next]_vars
=============================================================================
