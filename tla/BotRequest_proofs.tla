------------------------- MODULE BotRequest_proofs -------------------------
(***************************************************************************)
(* Proof that a request without a voice file is used and freed as it       *)
(* should be, for any number of requests and mentions, in a bot without    *)
(* --verbose.                                                              *)
(***************************************************************************)
EXTENDS BotRequest, TLAPS

(* A thread that is at work on a request, or the main thread before it has   *)
(* handed the request over.                                                  *)
Owned(r) ==
  hpc[r] \in {"start", "callback", "free"} \/ (mpc = "spawn" /\ cur = r)

OwnedIsLive(r) ==
  Owned(r) => heap[r]["br"] = "live" /\ \A p \in Part : heap[r][p] # "freed"

(* Nobody has touched an update that is still to be walked over.             *)
WalkIsUntouched(r) == r \in walk => heap[r] = NoBlocks
NotBuiltNotHandled(r) ==
  heap[r]["br"] = "null" => hpc[r] = "none" /\ file[r] = "null"

(* The main thread and a handler never own the same request.                 *)
OneOwner == mpc = "spawn" => hpc[cur] = "none" /\ cur \notin walk

IInv ==
  /\ TypeOK
  /\ \A r \in Req : OwnedIsLive(r) /\ WalkIsUntouched(r) /\ NotBuiltNotHandled(r)
  /\ OneOwner
  /\ mpc = "verbose" => verbose
  /\ NoFault

-----------------------------------------------------------------------------
LEMMA InitIInv == Init => IInv
BY RequestConstants
   DEF Init, IInv, TypeOK, OwnedIsLive, Owned, WalkIsUntouched,
       NotBuiltNotHandled, OneOwner, NoFault, NoBlocks, Part, Block, FileId,
       MainPC, HandlerPC, Fault

(* Freeing a request that is owned is no fault unless it has a file.         *)
LEMMA FreeingIsClean ==
  ASSUME IInv, NEW r \in Req, Owned(r), freeBotRequest(r)
  PROVE  /\ faults' \subseteq faults \cup {<<r, "bad free">>}
         /\ file[r] = "null" => faults' = faults
         /\ heap' \in [Req -> [Part -> Block]]
         /\ heap'[r]["br"] = "freed"
         /\ \A q \in Req \ {r} : heap'[q] = heap[q]
<1> USE DEF IInv, TypeOK, freeBotRequest
<1>1. OwnedIsLive(r)
  OBVIOUS
<1>2. FreeFaults(r) = IF file[r] = "null" THEN {} ELSE {<<r, "bad free">>}
  BY <1>1 DEF FreeFaults, OwnedIsLive
<1>3. BlocksFreed(r) \in [Part -> Block] /\ BlocksFreed(r)["br"] = "freed"
  BY <1>1 DEF BlocksFreed, OwnedIsLive, Part, Block
<1> QED BY <1>2, <1>3 DEF NoFault

(* A fault with a request that may have faults does not break NoFault.       *)
LEMMA FaultsStayExcused ==
  ASSUME IInv, NEW r \in Req,
         faults' \subseteq faults \cup {<<r, f>> : f \in Fault},
         faults' = faults \/ verbose \/ file[r] # "null",
         verbose' = verbose,
         \A q \in Req : file[q] # "null" => file'[q] # "null"
  PROVE  faults' \subseteq Req \X Fault /\ NoFault'
BY DEF IInv, TypeOK, NoFault

(* What is left of the invariant, request by request.                        *)
ReqInv(r) == OwnedIsLive(r) /\ WalkIsUntouched(r) /\ NotBuiltNotHandled(r)

LEMMA PollIInv ==
  ASSUME IInv, NEW S \in SUBSET Req, Poll(S)
  PROVE  IInv'
BY DEF Poll, IInv, TypeOK, OwnedIsLive, Owned, WalkIsUntouched,
       NotBuiltNotHandled, OneOwner, MainPC, NoFault

LEMMA BuildIInv ==
  ASSUME IInv, NEW r \in Req, NEW n \in 0 .. MaxMentions, NEW voice \in BOOLEAN,
         Build(r, voice, n)
  PROVE  IInv'
<1> USE RequestConstants DEF IInv, TypeOK, Build
<1>1. hpc[r] = "none" /\ file[r] = "null"
  BY DEF WalkIsUntouched, NotBuiltNotHandled, NoBlocks, Part
<1>2. /\ NewBlocks(n) \in [Part -> Block] /\ NewBlocks(n)["br"] = "live"
      /\ \A p \in Part : NewBlocks(n)[p] # "freed"
  BY DEF NewBlocks, Part, Block
<1>3. MentionArray(n) \in [num : 0 .. MaxMentions, bytes : Nat]
  BY DEF MentionArray
<1>4. \A q \in Req : file[q] # "null" => file'[q] # "null"
  BY <1>1
<1>5. faults' \subseteq Req \X Fault /\ NoFault'
  BY <1>4, FaultsStayExcused
<1>6. TypeOK'
  BY <1>2, <1>3, <1>5 DEF FileId, MainPC
<1>7. ASSUME NEW q \in Req PROVE ReqInv(q)'
  BY <1>1, <1>2
     DEF ReqInv, OwnedIsLive, Owned, WalkIsUntouched, NotBuiltNotHandled
<1> QED BY <1>1, <1>5, <1>6, <1>7 DEF OneOwner, ReqInv

LEMMA SpawnIInv ==
  ASSUME IInv, Spawn
  PROVE  IInv'
<1> USE DEF IInv, TypeOK, Spawn
<1>1. mpc' = AfterSpawn /\ AfterSpawn \in {"walk", "verbose"}
      /\ (AfterSpawn = "verbose" => verbose)
  BY DEF AfterSpawn
<1>2. OwnedIsLive(cur) /\ heap[cur]["br"] = "live"
  BY DEF OwnedIsLive, Owned
<1>3. ASSUME NEW q \in Req PROVE ReqInv(q)'
  BY <1>1, <1>2
     DEF ReqInv, OwnedIsLive, Owned, WalkIsUntouched, NotBuiltNotHandled
<1>4. TypeOK'
  BY <1>1 DEF MainPC, HandlerPC
<1> QED BY <1>1, <1>3, <1>4 DEF OneOwner, ReqInv, NoFault

LEMMA SpawnFailsIInv ==
  ASSUME IInv, SpawnFails
  PROVE  IInv'
<1> USE DEF IInv, TypeOK
<1>1. Owned(cur) /\ freeBotRequest(cur) /\ hpc[cur] = "none" /\ cur \notin walk
  BY DEF SpawnFails, FreedWhenRefused, Owned, OneOwner
<1>2. /\ faults' \subseteq faults \cup {<<cur, "bad free">>}
      /\ file[cur] = "null" => faults' = faults
      /\ heap' \in [Req -> [Part -> Block]]
      /\ heap'[cur]["br"] = "freed"
      /\ \A q \in Req \ {cur} : heap'[q] = heap[q]
  BY <1>1, FreeingIsClean
<1>3. mpc' = "walk" /\ UNCHANGED <<verbose, file, mentions, walk, cur, hpc>>
  BY DEF SpawnFails
<1>4. faults' \subseteq Req \X Fault /\ NoFault'
  BY <1>2, <1>3, FaultsStayExcused DEF Fault
<1>5. TypeOK'
  BY <1>2, <1>3, <1>4 DEF MainPC
<1>6. ASSUME NEW q \in Req PROVE ReqInv(q)'
  BY <1>1, <1>2, <1>3
     DEF ReqInv, OwnedIsLive, Owned, WalkIsUntouched, NotBuiltNotHandled
<1> QED BY <1>3, <1>4, <1>5, <1>6 DEF OneOwner, ReqInv

LEMMA PrintRequestIInv ==
  ASSUME IInv, PrintRequest
  PROVE  IInv'
<1> USE DEF IInv, TypeOK, PrintRequest
<1>1. verbose /\ UseFaults(cur, {"request"}) \subseteq {<<cur, f>> : f \in Fault}
  BY DEF UseFaults, Fault
<1>2. faults' \subseteq Req \X Fault /\ NoFault'
  BY <1>1, FaultsStayExcused
<1> QED
  BY <1>2 DEF OwnedIsLive, Owned, WalkIsUntouched, NotBuiltNotHandled, OneOwner,
              MainPC

LEMMA DeleteReplyIInv ==
  ASSUME IInv, DeleteReply
  PROVE  IInv'
<1> USE DEF IInv, TypeOK, DeleteReply
<1>1. file' \in [Req -> FileId]
      /\ \A q \in Req : file'[q] = "null" <=> file[q] = "null"
  BY DEF FileId
<1>2. NoFault'
  BY <1>1 DEF NoFault
<1> QED
  BY <1>1, <1>2 DEF OwnedIsLive, Owned, WalkIsUntouched, NotBuiltNotHandled,
                    OneOwner, MainPC

(* A handler at work finds the blocks of its request live.                   *)
LEMMA HandlerOwns ==
  ASSUME IInv, NEW r \in Req, hpc[r] \in {"start", "callback", "free"}
  PROVE  /\ Owned(r) /\ OwnedIsLive(r) /\ r \notin walk
         /\ \A p \in Part : heap[r][p] # "freed"
         /\ mpc = "spawn" => cur # r
BY DEF IInv, TypeOK, Owned, OwnedIsLive, WalkIsUntouched, NotBuiltNotHandled,
       NoBlocks, Part, OneOwner

LEMMA SplitArgsIInv ==
  ASSUME IInv, NEW r \in Req, SplitArgs(r)
  PROVE  IInv'
<1> USE DEF IInv, TypeOK
<1>1. /\ hpc[r] = "start" /\ hpc' = [hpc EXCEPT ![r] = "callback"]
      /\ UNCHANGED <<verbose, file, mentions, walk, mpc, cur>>
  BY DEF SplitArgs
<1>2. /\ Owned(r) /\ OwnedIsLive(r) /\ r \notin walk
      /\ \A p \in Part : heap[r][p] # "freed"
      /\ mpc = "spawn" => cur # r
  BY <1>1, HandlerOwns
<1>3. UseFaults(r, {"request"}) = {}
  BY <1>2 DEF UseFaults, Part
<1>4. faults' = faults
  BY <1>3 DEF SplitArgs
<1>5. PICK argv \in {"live", "null"} : heap' = [heap EXCEPT ![r]["argv"] = argv]
  BY DEF SplitArgs
<1>6. /\ heap' \in [Req -> [Part -> Block]]
      /\ heap'[r]["br"] = "live"
      /\ \A p \in Part : heap'[r][p] # "freed"
      /\ \A q \in Req \ {r} : heap'[q] = heap[q]
  BY <1>2, <1>5 DEF OwnedIsLive, Part, Block
<1>7. ASSUME NEW q \in Req PROVE ReqInv(q)'
  BY <1>1, <1>2, <1>6
     DEF ReqInv, OwnedIsLive, Owned, WalkIsUntouched, NotBuiltNotHandled
<1>8. TypeOK'
  BY <1>1, <1>4, <1>6 DEF HandlerPC
<1> QED BY <1>1, <1>2, <1>4, <1>7, <1>8 DEF OneOwner, ReqInv, NoFault

LEMMA CallbackReadsIInv ==
  ASSUME IInv, NEW r \in Req, CallbackReads(r)
  PROVE  IInv'
<1> USE DEF IInv, TypeOK, CallbackReads
<1>1. \A p \in Part : heap[r][p] # "freed"
  BY HandlerOwns
<1>2. UseFaults(r, Part) = {}
  BY <1>1 DEF UseFaults, Part
<1>3. /\ FileFaults(r) \subseteq {<<r, f>> : f \in Fault}
      /\ file[r] = "null" => FileFaults(r) = {}
  BY DEF FileFaults, Fault
<1>4. faults' \subseteq Req \X Fault /\ NoFault'
  BY <1>2, <1>3, FaultsStayExcused
<1> QED
  BY <1>4 DEF OwnedIsLive, Owned, WalkIsUntouched, NotBuiltNotHandled, OneOwner

LEMMA CallbackReturnsIInv ==
  ASSUME IInv, NEW r \in Req, CallbackReturns(r)
  PROVE  IInv'
<1> USE DEF IInv, TypeOK, CallbackReturns
<1>1. /\ Owned(r) /\ OwnedIsLive(r)
      /\ mpc = "spawn" => cur # r
  BY HandlerOwns
<1>2. ASSUME NEW q \in Req PROVE ReqInv(q)'
  BY <1>1 DEF ReqInv, OwnedIsLive, Owned, WalkIsUntouched, NotBuiltNotHandled
<1> QED BY <1>1, <1>2 DEF OneOwner, ReqInv, NoFault, HandlerPC

LEMMA FreeRequestIInv ==
  ASSUME IInv, NEW r \in Req, FreeRequest(r)
  PROVE  IInv'
<1> USE DEF IInv, TypeOK
<1>1. /\ hpc[r] = "free" /\ hpc' = [hpc EXCEPT ![r] = "done"]
      /\ UNCHANGED <<verbose, file, mentions, walk, mpc, cur>>
  BY DEF FreeRequest
<1>2. Owned(r) /\ r \notin walk /\ (mpc = "spawn" => cur # r)
  BY <1>1, HandlerOwns
<1>3. /\ faults' \subseteq faults \cup {<<r, "bad free">>}
      /\ file[r] = "null" => faults' = faults
      /\ heap' \in [Req -> [Part -> Block]]
      /\ heap'[r]["br"] = "freed"
      /\ \A q \in Req \ {r} : heap'[q] = heap[q]
  BY <1>2, FreeingIsClean DEF FreeRequest
<1>4. faults' \subseteq Req \X Fault /\ NoFault'
  BY <1>1, <1>3, FaultsStayExcused DEF Fault
<1>5. TypeOK'
  BY <1>1, <1>3, <1>4 DEF HandlerPC
<1>6. ASSUME NEW q \in Req PROVE ReqInv(q)'
  BY <1>1, <1>2, <1>3, ZenonT(60)
     DEF ReqInv, OwnedIsLive, Owned, WalkIsUntouched, NotBuiltNotHandled
<1> QED BY <1>1, <1>2, <1>4, <1>5, <1>6 DEF OneOwner, ReqInv

LEMMA NextIInv == IInv /\ [Next]_vars => IInv'
<1> SUFFICES ASSUME IInv, [Next]_vars PROVE IInv'
  OBVIOUS
<1>1. CASE UNCHANGED vars
  BY <1>1 DEF vars, IInv, TypeOK, OwnedIsLive, Owned, WalkIsUntouched,
              NotBuiltNotHandled, OneOwner, NoFault
<1>2. CASE Main
  BY <1>2, PollIInv, BuildIInv, SpawnIInv, SpawnFailsIInv, PrintRequestIInv,
     DeleteReplyIInv DEF Main
<1>3. ASSUME NEW r \in Req, Handler(r) PROVE IInv'
  BY <1>3, SplitArgsIInv, CallbackReadsIInv, CallbackReturnsIInv,
     FreeRequestIInv DEF Handler
<1> QED BY <1>1, <1>2, <1>3 DEF Next

(* Whoever of the main thread and the handlers is faster, no block of a      *)
(* request without a voice file is used or freed when it is not live, unless *)
(* --verbose is given (botlib.c:620-631, 776-788).                           *)
THEOREM SpecNoFault == Spec => []NoFault
<1>1. IInv => NoFault
  BY DEF IInv
<1> QED BY <1>1, InitIInv, NextIInv, PTL DEF Spec

(* The types of both threads' state, for any number of requests and mentions:*)
(* a block is null, live or freed, and an array of mentions counts at most   *)
(* the mentions of a message (botlib.c:549-559, 741-759).                    *)
THEOREM SpecTypeOK == Spec => []TypeOK
<1>1. IInv => TypeOK
  BY DEF IInv
<1> QED BY <1>1, InitIInv, NextIInv, PTL DEF Spec
=============================================================================
