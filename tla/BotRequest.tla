----------------------------- MODULE BotRequest -----------------------------
(***************************************************************************)
(* The life of a BotRequest.  The main thread builds it from an update in  *)
(* the parsed reply, hands it to a new thread and goes on; the thread      *)
(* completes it, gives it to the bot author's callback and frees it.  Both *)
(* hold pointers to it and into the reply, which the main thread deletes   *)
(* when it has walked over it.                                             *)
(*                                                                         *)
(* A block of the heap is modelled by whether it was allocated and freed;  *)
(* what the C code does with a block that is not live is recorded in       *)
(* `faults' and the program goes on, as it may in any build.               *)
(***************************************************************************)
EXTENDS Integers

CONSTANTS
  Req,            (* the updates of the bot's life that become requests       *)
  MaxMentions,    (* bound: mentions of users in a message                    *)
  PtrSize         (* sizeof(sds)                                              *)

ASSUME RequestConstants ==
  /\ MaxMentions \in Nat
  /\ PtrSize \in Nat \ {0}

(* The blocks of a request: the object itself, and those that it points to.  *)
Part == {"br", "request", "from_username", "argv", "mentions"}

VARIABLES
  verbose,   \* Bot.verbose: whether --verbose was given
  heap,      \* heap[r][p]: whether block p of request r is "null", "live", "freed"
  file,      \* br->file_id: "null", or a string of the reply: "json" while
             \* the reply is there and "dangling" when it has been deleted
  mentions,  \* number and bytes of the array br->mentions
  walk,      \* the updates of the reply that are still to be walked over
  mpc,       \* the main thread
  cur,       \* the request the main thread is working on
  hpc,       \* the handler thread of each request
  faults     \* undefined behaviour there has been, and with which request

vars == <<verbose, heap, file, mentions, walk, mpc, cur, hpc, faults>>

Block == {"null", "live", "freed"}
FileId == {"null", "json", "dangling"}
MainPC == {"poll", "walk", "spawn", "verbose"}
HandlerPC == {"none", "start", "callback", "free", "done"}
Fault == {"use after free", "double free", "bad free"}

NoBlocks == [p \in Part |-> "null"]

Init ==
  /\ verbose \in BOOLEAN
  /\ heap = [r \in Req |-> NoBlocks]
  /\ file = [r \in Req |-> "null"]
  /\ mentions = [r \in Req |-> [num |-> 0, bytes |-> 0]]
  /\ walk = {} /\ mpc = "poll" /\ cur \in Req
  /\ hpc = [r \in Req |-> "none"]
  /\ faults = {}

-----------------------------------------------------------------------------
(* Uses of the heap.                                                         *)

(* Reading blocks ps of request r, by way of the object.                     *)
UseFaults(r, ps) ==
  {<<r, "use after free">> : p \in {p \in ps \cup {"br"} : heap[r][p] = "freed"}}

(* Reading br->file_id's string.                                             *)
FileFaults(r) ==
  IF file[r] = "dangling" THEN {<<r, "use after free">>} ELSE {}

(* freeBotRequest(br): every block that is there is freed; the string of the *)
(* reply is freed as if it were an sds, which it is not.                     *)
BlocksFreed(r) ==
  [p \in Part |-> IF heap[r][p] = "null" THEN "null" ELSE "freed"]

FreeFaults(r) ==
  {<<r, "double free">> : p \in {p \in Part : heap[r][p] = "freed"}}
    \cup IF file[r] # "null" THEN {<<r, "bad free">>} ELSE {}

freeBotRequest(r) ==
  /\ heap' = [heap EXCEPT ![r] = BlocksFreed(r)]
  /\ faults' = faults \cup FreeFaults(r)

-----------------------------------------------------------------------------
(* The main thread: botProcessUpdates().                                     *)

(* A reply is parsed.  The updates that are not passed on are left out here. *)
Poll(S) ==
  /\ mpc = "poll"
  /\ S \subseteq {r \in Req : heap[r] = NoBlocks}
  /\ walk' = S /\ mpc' = "walk"
  /\ UNCHANGED <<verbose, heap, file, mentions, cur, hpc, faults>>

(* The blocks of a new request: strings are copied out of the reply.         *)
NewBlocks(n) ==
  [p \in Part |->
     IF p = "argv" \/ (p = "mentions" /\ n = 0) THEN "null" ELSE "live"]

(* xrealloc(br->mentions,br->num_mentions) for each mention.                 *)
MentionArrayMiscounted(n) == [num |-> n + 1, bytes |-> n]
MentionArray(n) == [num |-> n, bytes |-> n]

Build(r, voice, n) ==
  /\ mpc = "walk" /\ r \in walk
  /\ heap' = [heap EXCEPT ![r] = NewBlocks(n)]
  /\ file' = [file EXCEPT ![r] = IF voice THEN "json" ELSE "null"]
  /\ mentions' = [mentions EXCEPT ![r] = MentionArray(n)]
  /\ walk' = walk \ {r} /\ cur' = r /\ mpc' = "spawn"
  /\ UNCHANGED <<verbose, hpc, faults>>

AfterSpawnPrint == "verbose"
AfterSpawn == IF verbose THEN "verbose" ELSE "walk"

Spawn ==
  /\ mpc = "spawn"
  /\ hpc' = [hpc EXCEPT ![cur] = "start"]
  /\ mpc' = AfterSpawn
  /\ UNCHANGED <<verbose, heap, file, mentions, walk, cur, faults>>

(* pthread_create() fails: the main thread frees the request.                *)
KeptWhenRefused == UNCHANGED <<heap, faults>>
FreedWhenRefused == freeBotRequest(cur)

SpawnFails ==
  /\ mpc = "spawn"
  /\ FreedWhenRefused
  /\ mpc' = "walk"
  /\ UNCHANGED <<verbose, file, mentions, walk, cur, hpc>>

(* "Starting thread to serve": br->request is printed.                       *)
PrintRequest ==
  /\ mpc = "verbose"
  /\ faults' = faults \cup UseFaults(cur, {"request"})
  /\ mpc' = "walk"
  /\ UNCHANGED <<verbose, heap, file, mentions, walk, cur, hpc>>

(* cJSON_Delete(json), and back to botMain().                                *)
DeleteReply ==
  /\ mpc = "walk" /\ walk = {}
  /\ file' = [r \in Req |-> IF file[r] = "json" THEN "dangling" ELSE file[r]]
  /\ mpc' = "poll"
  /\ UNCHANGED <<verbose, heap, mentions, walk, cur, hpc, faults>>

-----------------------------------------------------------------------------
(* The handler thread: botHandleRequest().                                   *)

(* br->argv = sdssplitargs(...), which is NULL when quotes are unbalanced.   *)
SplitArgs(r) ==
  /\ hpc[r] = "start"
  /\ faults' = faults \cup UseFaults(r, {"request"})
  /\ \E argv \in {"live", "null"} : heap' = [heap EXCEPT ![r]["argv"] = argv]
  /\ hpc' = [hpc EXCEPT ![r] = "callback"]
  /\ UNCHANGED <<verbose, file, mentions, walk, mpc, cur>>

(* The callback reads what the request has, as often as it likes.            *)
CallbackReads(r) ==
  /\ hpc[r] = "callback"
  /\ faults' = faults \cup UseFaults(r, Part) \cup FileFaults(r)
  /\ UNCHANGED <<verbose, heap, file, mentions, walk, mpc, cur, hpc>>

CallbackReturns(r) ==
  /\ hpc[r] = "callback"
  /\ hpc' = [hpc EXCEPT ![r] = "free"]
  /\ UNCHANGED <<verbose, heap, file, mentions, walk, mpc, cur, faults>>

(* The thread frees the request and closes its database handle.              *)
FreeRequest(r) ==
  /\ hpc[r] = "free"
  /\ freeBotRequest(r)
  /\ hpc' = [hpc EXCEPT ![r] = "done"]
  /\ UNCHANGED <<verbose, file, mentions, walk, mpc, cur>>

Main ==
  \/ \E S \in SUBSET Req : Poll(S)
  \/ \E r \in Req, n \in 0 .. MaxMentions, voice \in BOOLEAN : Build(r, voice, n)
  \/ Spawn \/ SpawnFails \/ PrintRequest \/ DeleteReply

Handler(r) ==
  SplitArgs(r) \/ CallbackReads(r) \/ CallbackReturns(r) \/ FreeRequest(r)

Next == Main \/ \E r \in Req : Handler(r)

Spec == Init /\ [][Next]_vars

(* Both kinds of thread are scheduled and a callback returns.                *)
FairSpec ==
  /\ Spec
  /\ WF_vars(Main)
  /\ \A r \in Req :
       WF_vars(SplitArgs(r) \/ CallbackReturns(r) \/ FreeRequest(r))

-----------------------------------------------------------------------------
(* Properties.                                                               *)

(* Every variable has its type; an array of mentions is counted as it is made. *)
TypeOK ==
  /\ verbose \in BOOLEAN
  /\ heap \in [Req -> [Part -> Block]]
  /\ file \in [Req -> FileId]
  /\ mentions \in [Req -> [num : 0 .. MaxMentions, bytes : Nat]]
  /\ walk \subseteq Req
  /\ mpc \in MainPC
  /\ cur \in Req
  /\ hpc \in [Req -> HandlerPC]
  /\ faults \subseteq Req \X Fault

(* Unless --verbose is given, every block of a request without a voice file  *)
(* is used and freed only while it is live, whoever of the two threads is    *)
(* faster and whatever else is in the reply (botlib.c:620-631, 776-788).     *)
NoFault ==
  \A fault \in faults : verbose \/ file[fault[1]] # "null"

(* Every request that was built is freed, whether or not its thread could be *)
(* started, and every block with it (botlib.c:549-559, 628, 777).            *)
AllFreed ==
  \A r \in Req, p \in Part : heap[r][p] = "live" ~> heap[r][p] = "freed"

(* botlib.h:17-18: "This structure is passed to the thread processing a given *)
(* user request, it's up to the thread to free it once it is done": so the   *)
(* main thread has no business with it any more.                             *)
HandedOverForGood ==
  [][mpc = "verbose" /\ mpc' = "walk" => faults' = faults]_vars

(* botlib.h:29: "File ID if a file is present in the message": the callback   *)
(* can read it.                                                              *)
FileIdReadable ==
  [][\A r \in Req :
       CallbackReads(r) /\ file[r] # "null" => faults' = faults]_vars

(* botlib.h:33-35: "List of mentioned usernames", with "Number of elements in *)
(* 'mentions' array": the array has room for its elements.                   *)
MentionsFit ==
  \A r \in Req : mentions[r].bytes >= mentions[r].num * PtrSize
=============================================================================
