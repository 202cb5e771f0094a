------------------------------ MODULE MCMyBot -------------------------------
(* A small instance of MyBot: two handlers and what they may be started for, *)
(* files of different lengths, a stack that holds another's message id as an *)
(* int, and a chat that is new or whose next ids are too large for one.      *)
EXTENDS MyBot

MCFileId == [t \in Thread |-> "file of " \o t]
MCFile == {"audio.oga"} \cup {MCFileId[t] : t \in Thread}
MCSize == [t \in Thread |-> IF t = "h1" THEN 2 ELSE 1]

Example(voice, words) == [does |-> "example", voice |-> voice, words |-> words]
MCJobs ==
  [t \in Thread |->
     IF t = "h1" THEN {Example(TRUE, "question")}
     ELSE {Example(TRUE, "other"), Example(FALSE, "fact"),
           [does |-> "image"], [does |-> "name"], [does |-> "file"]}]
=============================================================================
