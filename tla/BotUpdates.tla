----------------------------- MODULE BotUpdates -----------------------------
(***************************************************************************)
(* The event loop of botlib: botMain() polls the Telegram server with      *)
(* getUpdates, botProcessUpdates() walks the reply, drops the messages the *)
(* bot must not see and starts one thread for each of the others.          *)
(*                                                                         *)
(* The only thing the bot remembers between polls is `nextid', the highest *)
(* update id it has walked over.  It is sent back, plus one, as the offset *)
(* of the next poll, and that is what makes the server forget an update.   *)
(* The bot keeps nothing on disk about updates, so a restart begins again  *)
(* from the server's queue: a message the process dies of is delivered to  *)
(* it once more.                                                           *)
(*                                                                         *)
(* The Telegram server and its users are external: the server keeps the    *)
(* updates sent to the bot, in increasing ids, until they are confirmed.   *)
(***************************************************************************)
EXTENDS Integers, FiniteSets, Sequences

CONSTANTS
  Shape,        (* the messages users may send: a set of records, see IsShape *)
  HasTriggers,  (* whether the bot was started with a list of triggers        *)
  Backlog,      (* how far back botMain() starts: 100 in the code             *)
  ServerLimit,  (* the most updates the server puts in one reply              *)
  IntHalf,      (* a C int holds -IntHalf .. IntHalf-1                        *)
  MaxThreads,   (* threads pthread_create() can make before it fails          *)
  StaleAfter,   (* age after which a message is ignored: 5 minutes            *)
  MaxUpdate,    (* bound: updates sent in a behaviour                         *)
  MaxClock,     (* bound: ticks of the clock                                  *)
  MaxCrash      (* bound: times the process dies of a cause outside the loop  *)

ChatType ==
  {"private", "group", "supergroup", "channel", "unknown", "missing"}

(* What botProcessUpdates() looks at in an update: whether it has a message *)
(* (or channel post) with a chat id at all, the type of the chat, whether   *)
(* the message has a date and a text, whether strmatch() accepts the text   *)
(* for one of the triggers, and whether the text mentions more users than   *)
(* the bytes of br->mentions, one for each, have room for.                  *)
IsShape(s) ==
  s \in [msg : BOOLEAN, type : ChatType, dated : BOOLEAN, text : BOOLEAN,
         match : BOOLEAN, crowded : BOOLEAN]

ASSUME ConstantsOK ==
  /\ \A s \in Shape : IsShape(s)
  /\ HasTriggers \in BOOLEAN
  /\ Backlog \in Nat /\ Backlog > 1
  /\ ServerLimit \in Nat \ {0}
  /\ IntHalf \in Nat \ {0} /\ Backlog <= IntHalf
  /\ MaxThreads \in Nat \ {0}
  /\ {StaleAfter, MaxUpdate, MaxClock, MaxCrash} \subseteq Nat

VARIABLES
  sent,       \* all updates sent to the bot so far; an update's id is its index
  pending,    \* ids the server still keeps for the bot
  clock,      \* wall-clock time, read by both sides
  pc,         \* where the main thread is
  nextid,     \* highest id walked over; botMain's nextid and the offset parameter
  previd,     \* botMain's copy of nextid, an int
  batch,      \* ids of the reply the main thread has still to walk over
  running,    \* ids whose handler thread has not returned yet
  exited,     \* handler threads that returned and that nobody joins
  spoiled,    \* whether the process wrote past the end of br->mentions
  crashes,    \* how often the process died of a cause outside the loop
  pollid,     \* history: nextid when the last poll began
  started,    \* history: ids given to a thread by this process, in order
  served,     \* history: ids given to a thread by this process or an earlier one
  dropped,    \* history: ids for which pthread_create() failed
  examined,   \* history: ids walked over by this process or an earlier one
  forgotten   \* history: ids the server discarded for a negative offset

serverVars == <<sent, pending, clock, forgotten>>
threadVars == <<running, exited, started, served, dropped>>
faultVars == <<spoiled, crashes>>
vars == <<sent, pending, clock, pc, nextid, previd, batch, running, exited,
          spoiled, crashes, pollid, started, served, dropped, examined,
          forgotten>>

Ids == 1 .. Len(sent)
PC == {"down", "poll", "walk", "sleep", "cron"}

-----------------------------------------------------------------------------
(* Conversions and checks of the code.                                       *)

(* `int previd; ... previd = nextid': the 64-bit id is cut to the width of   *)
(* an int, in two's complement.                                              *)
AsInt(n) == ((n + IntHalf) % (2 * IntHalf)) - IntHalf

(* The offset the next poll asks for: one past the last id walked over.      *)
OffsetOfLast == nextid
OffsetSkippingOne == nextid + 2
RequestOffset == nextid + 1

(* The updates the server keeps when asked with an offset: those not below   *)
(* it, or for a negative offset -n the newest n.                             *)
Kept(off) ==
  IF off > 0
    THEN {i \in pending : i >= off}
    ELSE {i \in pending : Cardinality({j \in pending : j > i}) < -off}

(* The checks of botProcessUpdates() on one update, in the code's order.  A   *)
(* chat without a type is no case of its own: its value is read through NULL. *)
HasMessage(u) == u.msg
Kills(u) == HasMessage(u) /\ u.type = "missing"
HasDate(u) == u.dated
FilteredAlsoPrivate(u) == u.text /\ HasTriggers /\ ~u.match
FilteredByTriggers(u) ==
  u.text /\ u.type # "private" /\ HasTriggers /\ ~u.match
Stale(u) == clock - u.date > StaleAfter
Accepted(u) ==
  HasMessage(u) /\ ~Kills(u) /\ HasDate(u) /\ ~FilteredByTriggers(u) /\ ~Stale(u)

(* The mentions of a message no check passed over are written to its request. *)
Spoils(u) == Accepted(u) /\ u.crowded

(* A thread that returned counts until it is joined, which never happens.    *)
ThreadsUsed == Cardinality(running) + exited
CanSpawn == ThreadsUsed < MaxThreads

-----------------------------------------------------------------------------
Init ==
  /\ sent = <<>> /\ pending = {} /\ clock = 0
  /\ pc = "poll" /\ nextid = -Backlog /\ previd = AsInt(-Backlog)
  /\ batch = {} /\ running = {} /\ exited = 0 /\ spoiled = FALSE /\ crashes = 0
  /\ pollid = -Backlog
  /\ started = <<>> /\ served = {} /\ dropped = {}
  /\ examined = {} /\ forgotten = {}

(* Users and the clock. *)

UserSends(s) ==
  /\ Len(sent) < MaxUpdate
  /\ sent' = Append(sent, [msg |-> s.msg, type |-> s.type, dated |-> s.dated,
                           text |-> s.text, match |-> s.match,
                           crowded |-> s.crowded, date |-> clock])
  /\ pending' = pending \cup {Len(sent) + 1}
  /\ UNCHANGED <<clock, pc, nextid, previd, batch, threadVars, faultVars, pollid,
                 examined, forgotten>>

Tick ==
  /\ clock < MaxClock
  /\ clock' = clock + 1
  /\ UNCHANGED <<sent, pending, pc, nextid, previd, batch, threadVars, faultVars,
                 pollid, examined, forgotten>>

(* One iteration of botMain()'s loop begins: previd = nextid.                *)
BeginPoll ==
  /\ pc = "poll"
  /\ previd' = AsInt(nextid)
  /\ pollid' = nextid
  /\ pc' = "walk"

(* The server takes the request: it discards what the offset confirms.       *)
ServerConfirms ==
  /\ pending' = Kept(RequestOffset)
  /\ forgotten' = IF RequestOffset > 0
                    THEN forgotten
                    ELSE forgotten \cup (pending \ Kept(RequestOffset))

(* The reply holds the oldest kept updates, in ascending order, and at least *)
(* one if there is any.                                                      *)
IsReply(reply) ==
  /\ \E m \in {0} \cup Ids : reply = {i \in Kept(RequestOffset) : i <= m}
  /\ Cardinality(reply) <= ServerLimit
  /\ Kept(RequestOffset) # {} => reply # {}

PollAnswered(reply) ==
  /\ BeginPoll
  /\ ServerConfirms
  /\ IsReply(reply)
  /\ batch' = reply
  /\ UNCHANGED <<sent, clock, nextid, threadVars, faultVars, examined>>

(* The request arrives but its reply does not (timeout, network error): the  *)
(* body does not parse as the expected JSON and the code goes to fmterr.     *)
ReplyLost ==
  /\ BeginPoll
  /\ ServerConfirms
  /\ batch' = {}
  /\ UNCHANGED <<sent, clock, nextid, threadVars, faultVars, examined>>

(* The request fails before the server takes it.                             *)
PollFails ==
  /\ BeginPoll
  /\ batch' = {}
  /\ UNCHANGED <<serverVars, nextid, threadVars, faultVars, examined>>

-----------------------------------------------------------------------------
(* One turn of cJSON_ArrayForEach(update,result).                            *)

OffsetAfterPastId(id) == IF id > nextid THEN id + 1 ELSE nextid
OffsetAfter(id) == IF id > nextid THEN id ELSE nextid

StartThread(id) ==
  IF CanSpawn
    THEN /\ running' = running \cup {id}
         /\ started' = Append(started, id)
         /\ served' = served \cup {id}
         /\ UNCHANGED <<exited, dropped>>
    ELSE /\ dropped' = dropped \cup {id}    \* freeBotRequest(br); continue
         /\ UNCHANGED <<running, exited, started, served>>

IsNextOf(id) == id \in batch /\ \A other \in batch : id <= other

WalkUpdate ==
  /\ pc = "walk"
  /\ \E id \in batch :
       /\ IsNextOf(id)
       /\ ~Kills(sent[id])
       /\ nextid' = OffsetAfter(id)
       /\ batch' = batch \ {id}
       /\ examined' = examined \cup {id}
       /\ spoiled' = (spoiled \/ Spoils(sent[id]))
       /\ IF Accepted(sent[id]) THEN StartThread(id) ELSE UNCHANGED threadVars
  /\ UNCHANGED <<serverVars, pc, previd, crashes, pollid>>

(* What is left when the process dies, at any point: the server's queue.     *)
Dies ==
  /\ pc' = "down"
  /\ batch' = {} /\ running' = {} /\ exited' = 0 /\ started' = <<>>
  /\ spoiled' = FALSE
  /\ UNCHANGED <<serverVars, nextid, previd, pollid, served, dropped, examined>>

(* The process dies in a turn of the loop: chattype->valuestring of a NULL   *)
(* chattype, or a mention written where the heap cannot bear it.  The offset *)
(* has not been sent, so no poll has confirmed the update.                   *)
WalkKills ==
  /\ pc = "walk"
  /\ \E id \in batch : IsNextOf(id) /\ (Kills(sent[id]) \/ Spoils(sent[id]))
  /\ Dies
  /\ UNCHANGED crashes

(* botProcessUpdates() returns to botMain(), which waits 100 milliseconds    *)
(* if the id did not advance.                                                *)
AfterWalkFirstPollsOnly == IF nextid < 0 THEN "sleep" ELSE "cron"
AfterWalk == IF nextid = previd THEN "sleep" ELSE "cron"

WalkEnds ==
  /\ pc = "walk" /\ batch = {}
  /\ pc' = AfterWalk
  /\ UNCHANGED <<serverVars, nextid, previd, batch, threadVars, faultVars, pollid,
                 examined>>

Sleep ==
  /\ pc = "sleep"
  /\ pc' = "cron"
  /\ UNCHANGED <<serverVars, nextid, previd, batch, threadVars, faultVars, pollid,
                 examined>>

(* cron_callback(DbHandle): what the bot's author does there is not modelled. *)
Cron ==
  /\ pc = "cron"
  /\ pc' = "poll"
  /\ UNCHANGED <<serverVars, nextid, previd, batch, threadVars, faultVars, pollid,
                 examined>>

(* botHandleRequest() returns.  The thread is neither detached nor joined,   *)
(* so the system keeps what it needs for a pthread_join().                   *)
HandlerReturns(id) ==
  /\ id \in running
  /\ running' = running \ {id}
  /\ exited' = exited + 1
  /\ UNCHANGED <<serverVars, pc, nextid, previd, batch, faultVars, pollid,
                 started, served, dropped, examined>>

-----------------------------------------------------------------------------
(* A heap written past the end of a block may kill the process later on, in  *)
(* any call that allocates, or never.                                        *)
HeapKills ==
  /\ pc # "down" /\ spoiled
  /\ Dies
  /\ UNCHANGED crashes

(* The process dies of something else, at any point.                         *)
Crash ==
  /\ pc # "down" /\ crashes < MaxCrash
  /\ crashes' = crashes + 1
  /\ Dies

(* startBot() begins again with nextid = -100.                               *)
Restart ==
  /\ pc = "down"
  /\ pc' = "poll"
  /\ nextid' = -Backlog
  /\ UNCHANGED <<serverVars, previd, batch, threadVars, faultVars, pollid,
                 examined>>

MainStep ==
  \/ \E reply \in SUBSET pending : PollAnswered(reply)
  \/ ReplyLost
  \/ PollFails
  \/ WalkUpdate
  \/ WalkKills
  \/ WalkEnds
  \/ Sleep
  \/ Cron

Next ==
  \/ \E s \in Shape : UserSends(s)
  \/ Tick
  \/ MainStep
  \/ \E id \in 1 .. MaxUpdate : HandlerReturns(id)
  \/ HeapKills
  \/ Crash
  \/ Restart

Spec == Init /\ [][Next]_vars

(* The main thread and the handlers are always scheduled, the process is     *)
(* restarted, and polls are not answered never again: a network that fails   *)
(* for ever is excluded, one that fails any number of times is not.          *)
Fairness ==
  /\ WF_vars(MainStep)
  /\ SF_vars(\E reply \in SUBSET pending : PollAnswered(reply))
  /\ WF_vars(Restart)
  /\ \A id \in 1 .. MaxUpdate : WF_vars(HandlerReturns(id))

FairSpec == Spec /\ Fairness

-----------------------------------------------------------------------------
(* Properties.                                                               *)

SentUpdate == [msg : BOOLEAN, type : ChatType, dated : BOOLEAN, text : BOOLEAN,
               match : BOOLEAN, crowded : BOOLEAN, date : Nat]

(* Every variable has its type: the ids the bot holds are ids of updates      *)
(* that were sent, or the initial -100.                                      *)
TypeOK ==
  /\ sent \in Seq(SentUpdate)
  /\ pending \subseteq Ids
  /\ clock \in Nat
  /\ pc \in PC
  /\ nextid \in Ids \cup {-Backlog} /\ pollid \in Ids \cup {-Backlog}
  /\ previd \in -IntHalf .. (IntHalf - 1)
  /\ batch \subseteq Ids
  /\ running \subseteq Ids /\ IsFiniteSet(running)
  /\ exited \in Nat
  /\ spoiled \in BOOLEAN
  /\ crashes \in Nat
  /\ started \in Seq(Ids)
  /\ served \subseteq Ids
  /\ dropped \subseteq Ids /\ examined \subseteq Ids /\ forgotten \subseteq Ids

(* Within one life of the process handlers are started in the order of the   *)
(* updates' ids and never twice for one update, however often the server     *)
(* repeats a reply because the offset was not sent or a poll failed          *)
(* (botlib.c:644, 667-668, 808).                                             *)
StartedInOrder ==
  \A i, j \in 1 .. Len(started) : i < j => started[i] < started[j]

(* The offset never confirms an update the bot has not walked over: whatever *)
(* the server has discarded was examined by some life of the process or was  *)
(* older than the backlog a starting bot asks for (botlib.c:644, 802).       *)
NoneLost == Ids \subseteq pending \cup examined \cup forgotten

(* No private message that is walked over is passed by: triggers do not apply *)
(* to it, and unless it has no date or was stale a thread was started for it, *)
(* or refused by the system, in the life of the process that walked over it   *)
(* or in another (botlib.c:673-678, 698, 715, 727, 776).                      *)
PrivateMessagesServed ==
  \A i \in examined :
     sent[i].msg /\ sent[i].type = "private" /\ sent[i].dated
       => i \in served \/ i \in dropped \/ Stale(sent[i])

(* A poll after which the id is where it was before it is followed by the    *)
(* sleep that keeps a failing loop from being a busy loop, and one that made *)
(* progress is not (botlib.c:809-813).  The exception is an id too large for *)
(* an int: previd is then another number, always below nextid, and the loop  *)
(* never waits.                                                              *)
FitsInt(n) == n < IntHalf
BackoffWhenIdle ==
  [][(pc = "walk" /\ pc' \in {"sleep", "cron"})
       => (pc' = "sleep" <=> nextid = pollid /\ FitsInt(pollid))]_vars

(* Every update is confirmed in the end, so the queue of the server drains,  *)
(* through failed polls, lost replies and crashes, whatever the bot thinks   *)
(* of the message (botlib.c:664-785).  Only a message the process may die of *)
(* keeps others waiting, those behind it and those that can come in one      *)
(* reply with it, and it does so until it is itself forgotten: it is back    *)
(* after each restart (botlib.c:690-691, 758).                               *)
CanKill(u) == Kills(u) \/ (HasMessage(u) /\ u.crowded)

-----------------------------------------------------------------------------
(* What the documentation says and the code does not do.                     *)

(* README.md:24-26: "For group messages, this function is ONLY called if one *)
(* of the patterns specified as "triggers" in startBot() matched".           *)
GroupOnlyIfTriggered ==
  HasTriggers =>
    \A i \in 1 .. Len(started) :
       sent[started[i]].type # "private" => sent[started[i]].match

(* botlib.h:38-40: "Each time the bot receives a command / message matching  *)
(* the list of trigger strings, it starts a thread": so it fails to start    *)
(* one only while the system's threads are all at work.                      *)
SpawnFailsOnlyWhenBusy ==
  [][dropped' # dropped => Cardinality(running) >= MaxThreads]_vars

=============================================================================
