------------------------------- MODULE MyBot --------------------------------
(* The example bot: botMain() asks for the bot's name and then starts a      *)
(* thread for each message, which runs handleRequest() of mybot.c - or, of   *)
(* another author's callback, one call of the API.                           *)
EXTENDS BotApi

CONSTANTS
  Main,      \* the thread that runs botMain()
  Jobs,      \* what each handler may be started for, see IsJob
  Stack,     \* what a variable that was never written may hold
  IntHalf,   \* a C int holds -IntHalf .. IntHalf-1
  Audio      \* the file "audio.oga"

(* A request with or without a voice message, whose words are `foo is ...',  *)
(* `foo?' or others; or a callback that sends an image, asks for the name or *)
(* downloads a file under the name the request gives it.                     *)
IsJob(j) ==
  \/ j \in [does : {"example"}, voice : BOOLEAN, words : {"fact", "question", "other"}]
  \/ j \in [does : {"image", "name", "file"}]

ASSUME MyBotAssumption ==
  /\ Main \in Thread /\ Audio \in File
  /\ (\A t \in Thread : \A j \in Jobs[t] : IsJob(j)) /\ Stack \subseteq Nat
  /\ IntHalf \in Nat \ {0}

VARIABLES
  pc,        \* where each thread is
  job,       \* what each handler was started for
  ids,       \* sent_message_id of each handler, 0 while it was not written
  known      \* whether the key-value store has the key of the example

vars == <<api_vars, pc, job, ids, known>>
Handler == Thread \ {Main}

Init ==
  /\ ApiInit
  /\ pc = [t \in Thread |-> "idle"] /\ job = [t \in Handler |-> [does |-> "none"]]
  /\ ids = [t \in Handler |-> 0] /\ known = FALSE

-----------------------------------------------------------------------------
(* A call is asked at one place, and the thread goes on from another when it *)
(* returns, whatever the outcome.                                            *)
Goes(t, from, to) == pc[t] = from /\ pc' = [pc EXCEPT ![t] = to]
OnlyPc == UNCHANGED <<job, ids, known>>
Calls(t, from, request, to) == Goes(t, from, to) /\ Ask(t, request) /\ OnlyPc
Outcomes(t) == IF wire[t].state = "acted" THEN {Nothing, Result(t)} ELSE {Nothing}
Resumes(t, from, to) ==
  /\ Goes(t, from, to) /\ \E result \in Outcomes(t) : CallReturns(t, result)
  /\ OnlyPc

(* botGetUsername(), called by botMain() before its loop and by callbacks.   *)
AskName(t) ==
  \/ Goes(t, "name", "naming") /\ AsksUsername(t, Request("getMe", t, 0)) /\ OnlyPc
  \/ Goes(t, "name", "done") /\ username /\ UNCHANGED api_vars /\ OnlyPc
Named(t) ==
  /\ Goes(t, "naming", "done")
  /\ \E result \in Outcomes(t) : botGetUsername(t, result)
  /\ OnlyPc

MainBegins == Goes(Main, "idle", "name") /\ UNCHANGED api_vars /\ OnlyPc
MainPolls == pc[Main] = "done" /\ UNCHANGED vars

StartHandler(t) ==
  /\ pc[Main] = "done"
  /\ \E j \in Jobs[t] : job' = [job EXCEPT ![t] = j] /\ Goes(t, "idle", j.does)
  /\ UNCHANGED <<api_vars, ids, known>>

-----------------------------------------------------------------------------
(* "I just privately received": the ids of the message are written only when *)
(* the reply has them.                                                       *)
RememberStatic(t, result) ==
  ids' = IF result.answered THEN [u \in Handler |-> result.id] ELSE ids

Remember(t, result) ==
  ids' = IF result.answered THEN [ids EXCEPT ![t] = result.id] ELSE ids

Report(t) == Calls(t, "example", Request("send", t, 1), "reporting")
Reported(t) ==
  /\ Goes(t, "reporting", "reported")
  /\ \E result \in Outcomes(t) : CallReturns(t, result) /\ Remember(t, result)
  /\ UNCHANGED <<job, known>>

(* After a second the message is edited, whether or not its id is known.  The*)
(* 64-bit id becomes the `int message_id' of botEditMessageText().           *)
AsInt(n) == ((n + IntHalf) % (2 * IntHalf)) - IntHalf
FitsInt(n) == n < IntHalf
MessageId(t) == {AsInt(n) : n \in IF ids[t] = 0 THEN Stack ELSE {ids[t]}}
Edit(t) ==
  \E id \in MessageId(t) :
    Calls(t, "reported", Request("edit", t, id), "editing")
Edited(t) == Resumes(t, "editing", IF job[t].voice THEN "audio" ELSE "words")

-----------------------------------------------------------------------------
(* botGetFile(): the path is asked for; without it, without a handle or with *)
(* a file that cannot be opened, the call is over.                           *)
IsExample(t) == job[t].does = "example"
After(t) == IF IsExample(t) THEN "words" ELSE "done"
Target(t) == IF IsExample(t) THEN Audio ELSE FileId[t]

AskFile(t) ==
  \E from \in {"audio", "file"} : Calls(t, from, Request("getFile", t, 0), "path")
NoFilePath(t) == Goes(t, "path", After(t)) /\ CallReturns(t, Nothing) /\ OnlyPc
FilePath(t) == Goes(t, "path", "opening") /\ CallReturns(t, Result(t)) /\ OnlyPc
OpenFile(t) == Goes(t, "opening", "loading") /\ Open(t, Target(t)) /\ OnlyPc
CannotOpen(t) == Goes(t, "opening", After(t)) /\ UNCHANGED api_vars /\ OnlyPc
Load(t) == Goes(t, "loading", "loading") /\ makeHTTPGETCallWriterFILE(t) /\ OnlyPc
Loaded(t) ==
  Goes(t, "loading", After(t)) /\ (CloseFile(t) \/ CloseFails(t)) /\ OnlyPc

-----------------------------------------------------------------------------
(* "foo is bar" is stored and confirmed, whether or not kvSet() could store  *)
(* it; "foo?" is answered when kvGet() has something to answer.              *)
Fact(t) ==
  /\ IsExample(t) /\ job[t].words = "fact"
  /\ Goes(t, "words", "answering") /\ Ask(t, Request("send", t, 2))
  /\ known' \in {known, TRUE} /\ UNCHANGED <<job, ids>>
Question(t) ==
  /\ IsExample(t) /\ job[t].words = "question" /\ known
  /\ Calls(t, "words", Request("send", t, 2), "answering")
NoAnswer(t) ==
  /\ IsExample(t) /\ job[t].words # "fact"
  /\ Goes(t, "words", "done") /\ UNCHANGED api_vars /\ OnlyPc
Answered(t) == Resumes(t, "answering", "done")

botSendImage(t) == Calls(t, "image", Request("send", t, 1), "answering")

-----------------------------------------------------------------------------
HandlerStep(t) ==
  \/ Report(t) \/ Reported(t) \/ Edit(t) \/ Edited(t)
  \/ AskFile(t) \/ NoFilePath(t) \/ FilePath(t)
  \/ OpenFile(t) \/ CannotOpen(t) \/ Load(t) \/ Loaded(t)
  \/ Fact(t) \/ Question(t) \/ NoAnswer(t) \/ Answered(t)
  \/ botSendImage(t)
ThreadStep(t) == AskName(t) \/ Named(t) \/ (t # Main /\ HandlerStep(t))

ServerStep ==
  /\ \/ \E t \in Thread : ServerActs(t) \/ ServerRefuses(t)
     \/ ServerActsLate
  /\ UNCHANGED <<pc, job, ids, known>>

Next ==
  \/ MainBegins \/ MainPolls
  \/ \E t \in Handler : StartHandler(t)
  \/ \E t \in Thread : ThreadStep(t)
  \/ ServerStep

Spec == Init /\ [][Next]_vars

(* The system runs every thread, and curl_easy_perform() ends by its time    *)
(* limit: nothing is assumed of the server or of the network.                *)
FairSpec == Spec /\ WF_vars(MainBegins) /\ \A t \in Thread : WF_vars(ThreadStep(t))

-----------------------------------------------------------------------------
(* Whatever other threads send meanwhile and whenever the server carries an  *)
(* edit out, a handler edits the message it sent, with two exceptions that   *)
(* leave no choice of the message: one that never learned its message's id   *)
(* edits the one an unwritten variable names, and one whose id is too large  *)
(* for an int edits the one whose id the low bits of its own are             *)
(* (mybot.c:20-28; botlib.c:442-449, 468).                                   *)
EditsOwnMessage ==
  \A i \in DOMAIN chat : \A u \in chat[i].editors :
    \/ i = ids[u] /\ chat[i].by = u
    \/ ids[u] = 0 /\ \E n \in Stack : i = AsInt(n)
    \/ ~FitsInt(ids[u]) /\ i = AsInt(ids[u])

(* No message is sent twice: a call that was given up may have been carried  *)
(* out, or be carried out later, and is not made again (botlib.c:260-295).   *)
SentOnce ==
  /\ \A t \in Handler :
       Cardinality({i \in DOMAIN chat : chat[i].by = t})
         <= IF IsExample(t) /\ job[t].words # "other" THEN 2
            ELSE IF job[t].does \in {"example", "image"} THEN 1 ELSE 0
  /\ \A i \in DOMAIN chat : chat[i].by # Main

(* While nobody else opens or removes the file, a download has on disk what  *)
(* it has written, from the first piece on and nothing of an older file      *)
(* (botlib.c:247-252, 525-544).                                              *)
DownloadsOwn ==
  \A t \in Thread : stream[t].open /\ alone[t] =>
    disk[stream[t].file] = [k \in 1 .. stream[t].at |-> t]

(* Every handler returns, whatever the server does or fails to do, because   *)
(* each of its calls has a time limit (botlib.c:273, 369, 536).              *)
HandlersReturn == \A t \in Handler : (pc[t] # "idle") ~> (pc[t] = "done")
=============================================================================
