------------------------- MODULE BotUpdates_proofs -------------------------
(***************************************************************************)
(* Proofs about BotUpdates for every value of its constants: its type      *)
(* invariant, that no update is lost, that handlers start in order, that   *)
(* private messages are served and that an idle loop waits.                *)
(***************************************************************************)
EXTENDS BotUpdates, FiniteSetTheorems, TLAPS

(* An update the server still keeps although its id is not above nextid has  *)
(* been walked over: it is only waiting for the next offset to confirm it.   *)
WaitingForOffset ==
  \A i \in pending : nextid > 0 /\ i <= nextid => i \in examined

(* The reply being walked has no gaps: a kept update older than one still to *)
(* be walked is itself in the reply or has been walked over.                 *)
ReplyHasNoGaps ==
  \A i \in pending, b \in batch : i < b => i \in batch \/ i \in examined

(* What is still to be walked is new.                                        *)
BatchIsNew == \A b \in batch : nextid < b

(* Handlers were started in order, and only for ids up to nextid.            *)
StartedUpTo ==
  \A k \in 1 .. Len(started) : nextid > 0 /\ started[k] <= nextid

(* Only a walk has a reply, and a dead process has nothing.                  *)
Idle ==
  /\ pc # "walk" => batch = {}
  /\ pc = "down" => started = <<>>

(* The id only grows while the process lives.                                *)
IdGrows == pc = "walk" => pollid <= nextid

IInv ==
  /\ TypeOK
  /\ WaitingForOffset
  /\ ReplyHasNoGaps
  /\ BatchIsNew
  /\ StartedUpTo
  /\ Idle
  /\ IdGrows
  /\ StartedInOrder
  /\ NoneLost

-----------------------------------------------------------------------------
(* A conversion to int yields an int ...                                     *)
LEMMA AsIntRange ==
  ASSUME NEW n \in Int, IntHalf \in Nat \ {0}
  PROVE  AsInt(n) \in -IntHalf .. (IntHalf - 1)
BY DEF AsInt

(* ... and an int that fits is not changed by it.                            *)
LEMMA AsIntIdentity ==
  ASSUME NEW n \in Int, IntHalf \in Nat \ {0}, -IntHalf <= n, n < IntHalf
  PROVE  AsInt(n) = n
BY DEF AsInt

(* The server never keeps what it did not keep before.                       *)
LEMMA KeptIsPending == Kept(RequestOffset) \subseteq pending
BY DEF Kept

LEMMA InitIInv == Init => IInv
<1> SUFFICES ASSUME Init PROVE IInv
  OBVIOUS
<1> USE ConstantsOK DEF Init
<1>1. previd \in -IntHalf .. (IntHalf - 1)
  <2>1. -Backlog \in Int /\ IntHalf \in Nat \ {0}
    OBVIOUS
  <2>2. AsInt(-Backlog) \in -IntHalf .. (IntHalf - 1)
    BY ONLY <2>1, AsIntRange
  <2> QED BY <2>2
<1>2. IsFiniteSet(running)
  BY FS_EmptySet
<1>3. TypeOK
  <2>1. spoiled \in BOOLEAN
    OBVIOUS
  <2>2. /\ nextid \in Ids \cup {-Backlog} /\ pollid \in Ids \cup {-Backlog}
        /\ pc \in PC /\ clock \in Nat /\ exited \in Nat /\ crashes \in Nat
    BY DEF PC
  <2>3. sent \in Seq(SentUpdate) /\ started \in Seq(Ids)
    OBVIOUS
  <2> QED BY <1>1, <1>2, <2>1, <2>2, <2>3 DEF TypeOK
<1>4. /\ WaitingForOffset /\ ReplyHasNoGaps /\ BatchIsNew /\ StartedUpTo
      /\ Idle /\ IdGrows /\ StartedInOrder /\ NoneLost
  BY DEF WaitingForOffset, ReplyHasNoGaps, BatchIsNew, StartedUpTo, Idle,
         IdGrows, StartedInOrder, NoneLost, Ids
<1> QED BY <1>3, <1>4 DEF IInv

-----------------------------------------------------------------------------
(* Each action preserves the invariant.                                      *)

LEMMA UserSendsIInv ==
  ASSUME IInv, NEW s \in Shape, UserSends(s)
  PROVE  IInv'
<1> USE ConstantsOK DEF UserSends, threadVars, faultVars, IInv, TypeOK
<1>1. /\ Len(sent') = Len(sent) + 1
      /\ Ids' = Ids \cup {Len(sent) + 1}
      /\ Len(sent) + 1 \notin Ids
  BY DEF Ids
<1>2. sent' \in Seq(SentUpdate)
  BY DEF SentUpdate, IsShape
<1>3. TypeOK'
  BY <1>1, <1>2 DEF PC
<1>4. WaitingForOffset' /\ ReplyHasNoGaps'
  BY <1>1 DEF WaitingForOffset, ReplyHasNoGaps, Ids
<1>5. BatchIsNew' /\ StartedUpTo' /\ Idle' /\ IdGrows' /\ StartedInOrder'
  BY DEF BatchIsNew, StartedUpTo, Idle, IdGrows, StartedInOrder
<1>6. NoneLost'
  BY <1>1 DEF NoneLost
<1> QED BY <1>3, <1>4, <1>5, <1>6

(* The three outcomes of a poll differ only in the reply, and in whether the *)
(* server has seen the offset.                                               *)
LEMMA ConfirmLosesNothing ==
  ASSUME IInv, ServerConfirms, examined' = examined, sent' = sent
  PROVE  /\ pending' \subseteq pending
         /\ forgotten' \subseteq Ids
         /\ NoneLost'
<1> USE ConstantsOK DEF ServerConfirms, IInv, TypeOK
<1>1. pending' \subseteq pending
  BY KeptIsPending
<1>2. forgotten \subseteq forgotten' /\ forgotten' \subseteq Ids
  BY DEF Ids
<1>3. ASSUME NEW i \in pending \ pending'
      PROVE  i \in examined \cup forgotten'
  <2>1. CASE RequestOffset > 0
    <3>1. i < nextid + 1 /\ nextid + 1 > 0
      BY <2>1, <1>3 DEF Kept, RequestOffset, Ids
    <3>2. nextid > 0 /\ i <= nextid
      BY <3>1 DEF Ids
    <3> QED BY <3>2 DEF WaitingForOffset
  <2>2. CASE ~(RequestOffset > 0)
    BY <2>2, <1>3
  <2> QED BY <2>1, <2>2
<1>4. NoneLost'
  BY <1>1, <1>2, <1>3 DEF NoneLost, Ids
<1> QED BY <1>1, <1>2, <1>4

LEMMA PollIInv ==
  ASSUME IInv, BeginPoll,
         \/ ServerConfirms
         \/ UNCHANGED <<pending, forgotten>>,
         UNCHANGED <<sent, clock, nextid, threadVars, faultVars, examined>>,
         batch' = {} \/ (ServerConfirms /\ IsReply(batch'))
  PROVE  IInv'
<1> USE ConstantsOK DEF BeginPoll, threadVars, faultVars, IInv, TypeOK
<1>1. Ids' = Ids
  BY DEF Ids
<1>2. pending' \subseteq pending /\ forgotten' \subseteq Ids /\ NoneLost'
  BY ConfirmLosesNothing DEF NoneLost, Ids
<1>3. batch' \subseteq pending' /\ \A b \in batch' : nextid < b
  <2>1. CASE batch' = {}
    BY <2>1
  <2>2. CASE ServerConfirms /\ IsReply(batch')
    <3>1. batch' \subseteq Kept(RequestOffset) /\ pending' = Kept(RequestOffset)
      BY <2>2 DEF ServerConfirms, IsReply
    <3>2. Kept(RequestOffset) \subseteq {i \in pending : nextid < i}
      BY DEF Kept, RequestOffset, Ids
    <3> QED BY <3>1, <3>2
  <2> QED BY <2>1, <2>2
<1>4. previd' \in -IntHalf .. (IntHalf - 1)
  <2>1. nextid \in Int /\ IntHalf \in Nat \ {0}
    BY DEF Ids
  <2>2. AsInt(nextid) \in -IntHalf .. (IntHalf - 1)
    BY ONLY <2>1, AsIntRange
  <2> QED BY ONLY <2>2, BeginPoll DEF BeginPoll
<1>5. TypeOK'
  BY <1>1, <1>2, <1>3, <1>4 DEF PC
<1>6. ReplyHasNoGaps'
  <2>1. CASE batch' = {}
    BY <2>1 DEF ReplyHasNoGaps
  <2>2. CASE ServerConfirms /\ IsReply(batch')
    <3>1. PICK m \in {0} \cup Ids : batch' = {i \in pending' : i <= m}
      BY <2>2, <1>1 DEF ServerConfirms, IsReply
    <3> QED BY <3>1, <1>2 DEF ReplyHasNoGaps, Ids
  <2> QED BY <2>1, <2>2
<1>7. WaitingForOffset' /\ BatchIsNew' /\ StartedUpTo' /\ Idle' /\ StartedInOrder'
  BY <1>2, <1>3
     DEF WaitingForOffset, BatchIsNew, StartedUpTo, Idle, StartedInOrder
<1>8. IdGrows'
  BY DEF IdGrows, Ids
<1> QED BY <1>2, <1>5, <1>6, <1>7, <1>8

(* One turn of the loop over the reply takes its oldest update, and that is  *)
(* newer than every handler started so far.                                  *)
LEMMA WalkUpdateIInv ==
  ASSUME IInv, WalkUpdate
  PROVE  IInv'
<1> USE ConstantsOK DEF IInv, TypeOK
<1>1. /\ pc = "walk"
      /\ UNCHANGED <<sent, pending, clock, forgotten, pc, previd, crashes,
                     pollid>>
  BY DEF WalkUpdate, serverVars
<1>2. PICK id \in batch :
        /\ \A other \in batch : id <= other
        /\ nextid' = OffsetAfter(id)
        /\ batch' = batch \ {id}
        /\ examined' = examined \cup {id}
        /\ spoiled' = (spoiled \/ Spoils(sent[id]))
        /\ \/ StartThread(id)
           \/ UNCHANGED threadVars
  BY DEF WalkUpdate, IsNextOf
<1>3. id \in Ids /\ nextid < id /\ nextid' = id /\ id > 0
  BY <1>2 DEF BatchIsNew, OffsetAfter, Ids
<1>4. Ids' = Ids /\ \A i \in Ids : i \in Nat
  BY <1>1 DEF Ids
<1>5. /\ started' = started \/ started' = Append(started, id)
      /\ running' = running \/ running' = running \cup {id}
      /\ dropped' = dropped \/ dropped' = dropped \cup {id}
      /\ served' = served \/ served' = served \cup {id}
      /\ exited' = exited
  BY <1>2 DEF StartThread, threadVars
<1>6. started' \in Seq(Ids) /\ StartedUpTo' /\ StartedInOrder'
  <2>1. started \in Seq(Ids) /\ Len(started) \in Nat
    OBVIOUS
  <2>2. \A k \in 1 .. Len(started) : started[k] \in Ids /\ started[k] < id
    BY <1>3, <1>4 DEF StartedUpTo
  <2>3. CASE started' = started
    <3>1. StartedUpTo'
      BY <2>2, <2>3, <1>3, <1>4 DEF StartedUpTo
    <3> QED BY <3>1, <2>3, <1>4 DEF StartedInOrder
  <2>4. CASE started' = Append(started, id)
    <3>1. /\ Len(started') = Len(started) + 1
          /\ started' \in Seq(Ids)
          /\ \A k \in 1 .. Len(started) : started'[k] = started[k]
          /\ started'[Len(started) + 1] = id
      BY ONLY <2>1, <2>4, <1>3
    <3>2. \A k \in 1 .. Len(started') :
             k \in 1 .. Len(started) \/ k = Len(started) + 1
      BY ONLY <2>1, <3>1
    <3>3. \A k \in 1 .. Len(started') : started'[k] <= id
      BY ONLY <2>2, <3>1, <3>2, <1>3, <1>4
    <3>4. StartedUpTo'
      BY ONLY <3>3, <1>3 DEF StartedUpTo
    <3>5. StartedInOrder'
      <4> SUFFICES ASSUME NEW i \in 1 .. Len(started'),
                          NEW j \in 1 .. Len(started'), i < j
                   PROVE  started'[i] < started'[j]
        BY DEF StartedInOrder
      <4>1. i \in 1 .. Len(started)
        BY ONLY <2>1, <3>1, i \in 1 .. Len(started'), j \in 1 .. Len(started'),
                i < j
      <4>2. CASE j = Len(started) + 1
        BY ONLY <4>1, <4>2, <3>1, <2>2
      <4>3. CASE j \in 1 .. Len(started)
        BY <4>1, <4>3, <3>1 DEF StartedInOrder
      <4> QED BY <4>2, <4>3, <3>2
    <3> QED BY <3>1, <3>4, <3>5
  <2> QED BY <2>3, <2>4, <1>5, <1>4
<1>7. running' \subseteq Ids /\ IsFiniteSet(running')
  <2>1. running \subseteq Ids /\ IsFiniteSet(running)
    OBVIOUS
  <2>2. IsFiniteSet(running \cup {id})
    BY ONLY <2>1, FS_AddElement
  <2> QED BY ONLY <2>1, <2>2, <1>3, <1>5
<1>8. TypeOK'
  BY <1>1, <1>2, <1>3, <1>4, <1>5, <1>6, <1>7
<1>9. WaitingForOffset'
  <2> SUFFICES ASSUME NEW i \in pending, i <= id
               PROVE  i \in examined'
    BY <1>1, <1>3 DEF WaitingForOffset
  <2>1. CASE i = id
    BY <2>1, <1>2
  <2>2. CASE i # id
    <3>1. i < id /\ id \in batch /\ i \notin batch
      BY <2>2, <1>2, <1>4
    <3>2. i \in examined
      BY <3>1 DEF ReplyHasNoGaps
    <3> QED BY <3>2, <1>2
  <2> QED BY <2>1, <2>2
<1>10. ReplyHasNoGaps'
  BY <1>1, <1>2, <1>4 DEF ReplyHasNoGaps
<1>11. BatchIsNew'
  BY <1>2, <1>3, <1>4 DEF BatchIsNew
<1>12. Idle' /\ NoneLost'
  BY <1>1, <1>2, <1>4 DEF Idle, NoneLost
<1>13. IdGrows'
  <2>1. pollid \in Int /\ nextid \in Int /\ id \in Int
    BY <1>3, <1>4 DEF Ids
  <2>2. pollid <= nextid /\ pollid' = pollid
    BY <1>1 DEF IdGrows
  <2>3. pollid' <= nextid'
    BY ONLY <2>1, <2>2, <1>3
  <2> QED BY <2>3 DEF IdGrows
<1> QED BY <1>6, <1>8, <1>9, <1>10, <1>11, <1>12, <1>13

(* The steps that change nothing the invariant speaks of but pc.             *)
LEMMA MainMovesOnIInv ==
  ASSUME IInv, WalkEnds \/ Sleep \/ Cron
  PROVE  IInv'
<1> USE DEF IInv, TypeOK
<1>1. /\ UNCHANGED <<serverVars, nextid, previd, batch, threadVars, faultVars,
                     pollid, examined>>
      /\ pc # "down" /\ pc' \in {"sleep", "cron", "poll"}
      /\ batch = {}
  BY DEF WalkEnds, AfterWalk, Sleep, Cron, Idle
<1> USE <1>1 DEF serverVars, threadVars, faultVars
<1>2. TypeOK'
  BY DEF PC, Ids
<1>3. WaitingForOffset' /\ ReplyHasNoGaps' /\ BatchIsNew' /\ NoneLost'
  BY DEF WaitingForOffset, ReplyHasNoGaps, BatchIsNew, NoneLost, Ids
<1>4. StartedUpTo' /\ StartedInOrder' /\ Idle' /\ IdGrows'
  BY DEF StartedUpTo, StartedInOrder, Idle, IdGrows
<1> QED BY <1>2, <1>3, <1>4

LEMMA TickIInv ==
  ASSUME IInv, Tick
  PROVE  IInv'
BY DEF IInv, TypeOK, Tick, threadVars, faultVars, Ids, WaitingForOffset,
       ReplyHasNoGaps, BatchIsNew, NoneLost, StartedUpTo, StartedInOrder, Idle,
       IdGrows

LEMMA HandlerReturnsIInv ==
  ASSUME IInv, NEW id \in 1 .. MaxUpdate, HandlerReturns(id)
  PROVE  IInv'
<1> USE DEF IInv, TypeOK, HandlerReturns, serverVars, faultVars
<1>1. IsFiniteSet(running')
  BY FS_RemoveElement
<1>2. TypeOK'
  BY <1>1 DEF Ids
<1> QED
  BY <1>2 DEF Ids, WaitingForOffset, ReplyHasNoGaps,
         BatchIsNew, NoneLost, StartedUpTo, StartedInOrder, Idle, IdGrows

(* A process that dies, of whatever cause, takes nothing from the server.    *)
LEMMA DiesIInv ==
  ASSUME IInv, Dies, crashes' \in Nat
  PROVE  IInv'
<1> USE ConstantsOK DEF IInv, TypeOK, serverVars, Dies
<1>1. TypeOK'
  <2>1. IsFiniteSet(running')
    BY FS_EmptySet
  <2>2. Ids' = Ids /\ exited' \in Nat /\ spoiled' \in BOOLEAN /\ pc' \in PC
    BY DEF PC, Ids
  <2>3. batch' \subseteq Ids /\ running' \subseteq Ids /\ started' \in Seq(Ids)
    OBVIOUS
  <2> QED BY <2>1, <2>2, <2>3
<1> QED BY <1>1 DEF Ids, WaitingForOffset, ReplyHasNoGaps,
       BatchIsNew, NoneLost, StartedUpTo, StartedInOrder, Idle, IdGrows

LEMMA DeathsIInv ==
  ASSUME IInv, WalkKills \/ HeapKills \/ Crash
  PROVE  IInv'
<1>1. Dies
  BY DEF WalkKills, HeapKills, Crash
<1>2. crashes \in Nat
  BY DEF IInv, TypeOK
<1>3. crashes' \in Nat
  BY <1>2 DEF WalkKills, HeapKills, Crash
<1> QED BY <1>1, <1>3, DiesIInv

LEMMA RestartIInv ==
  ASSUME IInv, Restart
  PROVE  IInv'
<1> USE ConstantsOK DEF IInv, TypeOK, serverVars, threadVars, faultVars, Restart
<1>1. TypeOK'
  BY DEF PC, Ids
<1>2. batch = {} /\ started = <<>>
  BY DEF Idle
<1> QED BY <1>1, <1>2 DEF Ids, WaitingForOffset, ReplyHasNoGaps,
       BatchIsNew, NoneLost, StartedUpTo, StartedInOrder, Idle, IdGrows

-----------------------------------------------------------------------------
LEMMA NextIInv == IInv /\ [Next]_vars => IInv'
<1> SUFFICES ASSUME IInv, [Next]_vars PROVE IInv'
  OBVIOUS
<1>1. CASE UNCHANGED vars
  BY <1>1 DEF vars, IInv, TypeOK, Ids, WaitingForOffset, ReplyHasNoGaps,
       BatchIsNew, NoneLost, StartedUpTo, StartedInOrder, Idle, IdGrows
<1>2. ASSUME NEW s \in Shape, UserSends(s) PROVE IInv'
  BY <1>2, UserSendsIInv
<1>3. CASE Tick
  BY <1>3, TickIInv
<1>4. ASSUME NEW reply \in SUBSET pending, PollAnswered(reply) PROVE IInv'
  BY <1>4, PollIInv DEF PollAnswered
<1>5. CASE ReplyLost
  BY <1>5, PollIInv DEF ReplyLost
<1>6. CASE PollFails
  BY <1>6, PollIInv DEF PollFails, serverVars
<1>7. CASE WalkUpdate
  BY <1>7, WalkUpdateIInv
<1>8. CASE WalkEnds \/ Sleep \/ Cron
  BY <1>8, MainMovesOnIInv
<1>9. ASSUME NEW id \in 1 .. MaxUpdate, HandlerReturns(id) PROVE IInv'
  BY <1>9, HandlerReturnsIInv
<1>10. CASE WalkKills \/ HeapKills \/ Crash
  BY <1>10, DeathsIInv
<1>11. CASE Restart
  BY <1>11, RestartIInv
<1> QED BY <1>1, <1>2, <1>3, <1>4, <1>5, <1>6, <1>7, <1>8, <1>9, <1>10, <1>11
        DEF Next, MainStep

(* The inductive invariant holds of every behaviour of the bot.              *)
THEOREM SpecIInv == Spec => []IInv
BY InitIInv, NextIInv, PTL DEF Spec

(* The types of botMain()'s and the server's state, for any number of        *)
(* updates, threads and crashes.                                             *)
THEOREM SpecTypeOK == Spec => []TypeOK
<1>1. IInv => TypeOK
  BY DEF IInv
<1> QED BY <1>1, SpecIInv, PTL

(* An update leaves the server's queue only once the bot has walked over it  *)
(* or a starting bot asked the server to discard it (botlib.c:644, 802).     *)
THEOREM SpecNoneLost == Spec => []NoneLost
<1>1. IInv => NoneLost
  BY DEF IInv
<1> QED BY <1>1, SpecIInv, PTL

(* No process starts two handlers for one update, or starts handlers out of  *)
(* order (botlib.c:667-668, 776).                                            *)
THEOREM SpecStartedInOrder == Spec => []StartedInOrder
<1>1. IInv => StartedInOrder
  BY DEF IInv
<1> QED BY <1>1, SpecIInv, PTL

-----------------------------------------------------------------------------
(* botMain()'s copy is the id the poll began with, cut to an int.            *)
PrevidIsPollid == pc = "walk" => previd = AsInt(pollid)

LEMMA NextPrevidIsPollid ==
  IInv /\ PrevidIsPollid /\ [Next]_vars => PrevidIsPollid'
<1> SUFFICES ASSUME IInv, PrevidIsPollid, [Next]_vars PROVE PrevidIsPollid'
  OBVIOUS
<1> USE DEF PrevidIsPollid, serverVars
<1>1. CASE UNCHANGED vars
  BY <1>1 DEF vars, AsInt
<1>2. ASSUME NEW s \in Shape, UserSends(s) PROVE PrevidIsPollid'
  BY <1>2 DEF UserSends, AsInt
<1>3. CASE Tick
  BY <1>3 DEF Tick, AsInt
<1>4. ASSUME BeginPoll, UNCHANGED nextid PROVE PrevidIsPollid'
  BY <1>4 DEF BeginPoll, AsInt
<1>5. ASSUME NEW reply \in SUBSET pending, PollAnswered(reply)
      PROVE  PrevidIsPollid'
  BY <1>5, <1>4 DEF PollAnswered
<1>6. CASE ReplyLost \/ PollFails
  BY <1>6, <1>4 DEF ReplyLost, PollFails
<1>7. CASE WalkUpdate
  BY <1>7 DEF WalkUpdate, AsInt
<1>8. CASE WalkEnds \/ Sleep \/ Cron
  BY <1>8 DEF WalkEnds, AfterWalk, Sleep, Cron
<1>9. ASSUME NEW id \in 1 .. MaxUpdate, HandlerReturns(id)
      PROVE  PrevidIsPollid'
  BY <1>9 DEF HandlerReturns, AsInt
<1>10. CASE WalkKills \/ HeapKills \/ Crash \/ Restart
  BY <1>10 DEF WalkKills, HeapKills, Crash, Dies, Restart
<1> QED BY <1>1, <1>2, <1>3, <1>5, <1>6, <1>7, <1>8, <1>9, <1>10
        DEF Next, MainStep

(* An id that does not fit becomes an int below every id the walk may reach. *)
LEMMA StepBacksOff ==
  ASSUME IInv, PrevidIsPollid, [Next]_vars,
         pc = "walk", pc' \in {"sleep", "cron"}
  PROVE  pc' = "sleep" <=> nextid = pollid /\ FitsInt(pollid)
<1>1. WalkEnds
  BY DEF Next, MainStep, vars, UserSends, Tick, PollAnswered, ReplyLost,
         PollFails, BeginPoll, WalkUpdate, WalkKills, HeapKills, Dies, Sleep,
         Cron, HandlerReturns, Crash, Restart
<1>2. /\ IntHalf \in Nat \ {0}
      /\ pollid \in Int /\ nextid \in Int
      /\ -IntHalf <= pollid /\ pollid <= nextid
      /\ previd = AsInt(pollid)
  BY ConstantsOK DEF IInv, TypeOK, Ids, IdGrows, PrevidIsPollid
<1>3. pc' = "sleep" <=> nextid = previd
  BY <1>1 DEF WalkEnds, AfterWalk
<1>4. CASE FitsInt(pollid)
  <2>1. previd = pollid
    BY ONLY <1>2, <1>4, AsIntIdentity DEF FitsInt
  <2> QED BY <1>3, <1>4, <2>1
<1>5. CASE ~FitsInt(pollid)
  <2>1. previd < IntHalf /\ previd \in Int
    BY ONLY <1>2, AsIntRange
  <2>2. nextid # previd
    BY ONLY <1>2, <1>5, <2>1 DEF FitsInt
  <2> QED BY <1>3, <1>5, <2>2
<1> QED BY <1>4, <1>5

(* A poll that made no progress is followed by the wait, and one that did is *)
(* not, except that the loop never waits once the id is too large for an int *)
(* (botlib.c:803, 809-813).                                                  *)
THEOREM SpecBackoffWhenIdle == Spec => BackoffWhenIdle
<1>1. Init => PrevidIsPollid
  BY DEF Init, PrevidIsPollid
<1>2. IInv /\ PrevidIsPollid /\ [Next]_vars
        => [(pc = "walk" /\ pc' \in {"sleep", "cron"})
             => (pc' = "sleep" <=> nextid = pollid /\ FitsInt(pollid))]_vars
  BY StepBacksOff
<1> QED
  BY <1>1, <1>2, SpecIInv, NextPrevidIsPollid, PTL DEF Spec, BackoffWhenIdle

-----------------------------------------------------------------------------
(* What has become of an update that was walked over.                        *)
Served(i) ==
  sent[i].msg /\ sent[i].type = "private" /\ sent[i].dated
    => i \in served \/ i \in dropped \/ Stale(sent[i])

(* What was served, refused or stale stays so: time only goes on, and nothing *)
(* is taken from what was served or refused.                                 *)
LEMMA ServedStays ==
  ASSUME IInv, NEW i \in Ids, Served(i),
         sent'[i] = sent[i], clock' \in Nat, clock' >= clock,
         served \subseteq served', dropped \subseteq dropped'
  PROVE  Served(i)'
<1> USE DEF IInv, TypeOK
<1>1. /\ sent[i].date \in Nat /\ clock \in Nat /\ StaleAfter \in Nat
      /\ sent'[i].date = sent[i].date
  <2>1. sent \in Seq(SentUpdate) /\ i \in 1 .. Len(sent)
    BY DEF Ids
  <2>2. sent[i] \in SentUpdate
    BY ONLY <2>1
  <2> QED BY <2>2, ConstantsOK DEF SentUpdate
<1>2. Stale(sent[i]) => Stale(sent[i])'
  BY <1>1 DEF Stale
<1> QED BY <1>2 DEF Served

LEMMA ServedUnfolded ==
  PrivateMessagesServed <=> \A i \in examined : Served(i)
BY DEF PrivateMessagesServed, Served

(* The update the walk has come to is served in this very step.              *)
LEMMA WalkServes ==
  ASSUME NEW id \in batch, sent' = sent, clock' = clock, ~Kills(sent[id]),
         IF Accepted(sent[id]) THEN StartThread(id) ELSE UNCHANGED threadVars
  PROVE  Served(id)'
<1>1. CASE Accepted(sent[id])
  BY <1>1 DEF StartThread, Served
<1>2. CASE ~Accepted(sent[id])
  <2>1. sent[id].msg /\ sent[id].type = "private" /\ sent[id].dated
          => Stale(sent[id])
    BY <1>2 DEF Accepted, HasMessage, HasDate, FilteredByTriggers
  <2>2. Stale(sent[id]) => Stale(sent[id])'
    BY DEF Stale
  <2> QED BY <2>1, <2>2 DEF Served
<1> QED BY <1>1, <1>2

LEMMA NextServes ==
  ASSUME IInv, PrivateMessagesServed, [Next]_vars
  PROVE  PrivateMessagesServed'
<1> USE DEF IInv, TypeOK, serverVars, threadVars
<1> SUFFICES ASSUME NEW i \in examined'
             PROVE  Served(i)'
  BY DEF PrivateMessagesServed, Served
<1>1. i \in examined => i \in Ids /\ Served(i)
  BY ServedUnfolded
<1>2. CASE UNCHANGED vars
  BY <1>1, <1>2 DEF vars, Served, Stale
<1>3. ASSUME NEW s \in Shape, UserSends(s) PROVE Served(i)'
  <2>1. i \in examined /\ i \in Ids
    BY <1>1, <1>3 DEF UserSends
  <2>2. sent'[i] = sent[i]
    BY <2>1, <1>3 DEF UserSends, Ids
  <2>3. UNCHANGED <<clock, served, dropped>>
    BY <1>3 DEF UserSends
  <2> QED BY <1>1, <2>1, <2>2, <2>3, ServedStays
<1>4. CASE Tick
  BY <1>1, <1>4, ServedStays DEF Tick
<1>5. CASE WalkUpdate
  <2>1. PICK id \in batch :
          /\ ~Kills(sent[id])
          /\ examined' = examined \cup {id}
          /\ IF Accepted(sent[id]) THEN StartThread(id) ELSE UNCHANGED threadVars
    BY <1>5 DEF WalkUpdate
  <2>2. sent' = sent /\ clock' = clock
    BY <1>5 DEF WalkUpdate
  <2>3. CASE i = id
    BY <2>1, <2>2, <2>3, WalkServes
  <2>4. CASE i # id
    <3>1. i \in Ids /\ Served(i)
      BY <1>1, <2>1, <2>4
    <3>2. served \subseteq served' /\ dropped \subseteq dropped'
      BY <2>1 DEF StartThread
    <3> QED BY <3>1, <3>2, <2>2, ServedStays
  <2> QED BY <2>3, <2>4
<1>6. CASE \/ \E reply \in SUBSET pending : PollAnswered(reply)
           \/ ReplyLost \/ PollFails \/ WalkEnds \/ Sleep \/ Cron \/ Restart
           \/ WalkKills \/ HeapKills \/ Crash
           \/ \E id \in 1 .. MaxUpdate : HandlerReturns(id)
  <2>1. UNCHANGED <<sent, clock, served, dropped, examined>>
    BY <1>6 DEF PollAnswered, ReplyLost, PollFails, WalkEnds, Sleep, Cron, Restart,
                WalkKills, HeapKills, Crash, Dies, HandlerReturns
  <2> QED BY <1>1, <2>1, ServedStays
<1> QED BY <1>2, <1>3, <1>4, <1>5, <1>6 DEF Next, MainStep

(* A handler has been started for each private message walked over, by this  *)
(* life of the process or another, unless the message had no date, was stale *)
(* or the system refused the thread (botlib.c:673-678, 698, 715, 727, 776).  *)
THEOREM SpecPrivateMessagesServed == Spec => []PrivateMessagesServed
<1>1. Init => PrivateMessagesServed
  BY DEF Init, PrivateMessagesServed
<1> QED BY <1>1, SpecIInv, NextServes, PTL DEF Spec
=============================================================================
