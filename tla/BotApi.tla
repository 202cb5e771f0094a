------------------------------- MODULE BotApi -------------------------------
(* The calls of botlib.c to the Telegram server, as the threads of a bot make*)
(* them: sending, editing, asking for the bot's name, and downloading a file.*)
(* Each is one HTTP request that is answered, refused, lost on its way or on *)
(* the way back, or given up after a time; what was given up may still be    *)
(* carried out.                                                              *)
EXTENDS Integers, Sequences, FiniteSets

CONSTANTS
  Thread,    \* the threads that make calls
  File,      \* names of files in the working directory
  FileId,    \* br->file_id of each thread's request
  Size,      \* the pieces in which the file of each thread's request arrives
  NoFile,    \* there is no such file
  Hole,      \* a piece of a file that nobody wrote
  Before,    \* how many messages the chat may have when the bot is started
  Earlier,   \* who sent those: no thread of this process
  MaxLate    \* bound: requests on their way after they were given up

ASSUME ApiAssumption ==
  /\ NoFile \notin File
  /\ MaxLate \in Nat
  /\ Before \subseteq Nat /\ Earlier \notin Thread
  /\ FileId \in [Thread -> File] /\ Size \in [Thread -> Nat \ {0}]

VARIABLES
  wire,      \* the request each thread waits for, and how far the server is
  late,      \* requests that were given up before the server came to them
  chat,      \* the bot's messages in a chat, each under its place as its id:
             \* who sent it and who edited it
  username,  \* whether Bot.username is set
  disk,      \* the pieces of each file and who wrote them
  stream,    \* the file each thread is writing and how many pieces it wrote
  alone      \* history: whether no other thread has touched that file meanwhile

api_vars == <<wire, late, chat, username, disk, stream, alone>>
Request(what, by, id) == [what |-> what, by |-> by, id |-> id]
Waiting(request) == [state |-> "sent", request |-> request, id |-> 0]
NotWaiting == [state |-> "none"]
NoStream == [open |-> FALSE, file |-> NoFile, at |-> 0]

ApiInit ==
  /\ wire = [t \in Thread |-> NotWaiting]
  /\ late = {} /\ username = FALSE
  /\ \E n \in Before : chat = [i \in 1 .. n |-> [by |-> Earlier, editors |-> {}]]
  /\ disk = [f \in File |-> NoFile]
  /\ stream = [t \in Thread |-> NoStream]
  /\ alone = [t \in Thread |-> FALSE]

-----------------------------------------------------------------------------
(* The server.  It carries a request out and answers with the message's id,  *)
(* or refuses it.                                                            *)
Carried(request) ==
  CASE request.what = "send" -> Append(chat, [by |-> request.by, editors |-> {}])
    [] request.what = "edit" -> [chat EXCEPT ![request.id].editors = @ \cup {request.by}]
    [] OTHER -> chat

Changes(request) == request.what \in {"send", "edit"}
Possible(request) == request.what = "edit" => request.id \in DOMAIN chat

ServerActs(t) ==
  /\ wire[t].state = "sent" /\ Possible(wire[t].request)
  /\ chat' = Carried(wire[t].request)
  /\ wire' = [wire EXCEPT ![t].state = "acted", ![t].id = Len(chat')]
  /\ UNCHANGED <<late, username, disk, stream, alone>>

ServerRefuses(t) ==
  /\ wire[t].state = "sent"
  /\ wire' = [wire EXCEPT ![t].state = "refused"]
  /\ UNCHANGED <<late, chat, username, disk, stream, alone>>

ServerActsLate ==
  /\ \E request \in late :
       /\ late' = late \ {request}
       /\ Possible(request) /\ chat' = Carried(request)
  /\ UNCHANGED <<wire, username, disk, stream, alone>>

-----------------------------------------------------------------------------
(* makeGETBotRequest() and botSendImage(): a thread asks and waits, ...      *)
Ask(t, request) ==
  /\ wire[t] = NotWaiting
  /\ wire' = [wire EXCEPT ![t] = Waiting(request)]
  /\ UNCHANGED <<late, chat, username, disk, stream, alone>>

(* ... and goes on with an answer, or without one when the connection fails  *)
(* or CURLOPT_TIMEOUT has passed.                                            *)
NeverGivesUp == FALSE

GivesUp == TRUE

(* What is done about a request that was given up: nothing.                  *)
AfterGivingUpAgain(t) == wire' = [wire EXCEPT ![t] = Waiting(wire[t].request)]

AfterGivingUp(t) == wire' = [wire EXCEPT ![t] = NotWaiting]

(* What the caller gets: the result of the reply, with the id of a message,  *)
(* or none of it.  (res also tells a reply with 400 or 500 and a connection  *)
(* that failed from the other replies without a result; no caller here goes  *)
(* on differently for it.)  A call that got no handle from curl_easy_init()  *)
(* is like one that is lost on its way.                                      *)
Result(t) == [answered |-> TRUE, id |-> wire[t].id]
Nothing == [answered |-> FALSE, id |-> 0]

Returns(t, result) ==
  \/ /\ wire[t].state = "acted" /\ result = Result(t)
     /\ wire' = [wire EXCEPT ![t] = NotWaiting] /\ UNCHANGED late
  \/ /\ wire[t].state = "refused" /\ result = Nothing
     /\ wire' = [wire EXCEPT ![t] = NotWaiting] /\ UNCHANGED late
  \/ /\ wire[t].state \in {"sent", "acted"} /\ GivesUp /\ result = Nothing
     /\ AfterGivingUp(t)
     /\ late' = late \cup
          {r \in {wire[t].request} : /\ wire[t].state = "sent" /\ Changes(r)
                                   /\ Cardinality(late) < MaxLate}

(* The calls whose only trace is at the server.                              *)
CallReturns(t, result) ==
  Returns(t, result) /\ UNCHANGED <<chat, username, disk, stream, alone>>

(* botGetUsername(): a name that is known is not asked for; one that is not  *)
(* is kept when the reply has it, and asked for again by the next caller.    *)
AsksUsername(t, request) == ~username /\ Ask(t, request)

botGetUsername(t, result) ==
  /\ Returns(t, result)
  /\ username' = (username \/ result.answered)
  /\ UNCHANGED <<chat, disk, stream, alone>>

-----------------------------------------------------------------------------
(* botGetFile(), when it has the path of the file: the file is opened, which *)
(* makes it empty, written piece by piece, and closed.                       *)
Writes(t, f) == stream[t].open /\ stream[t].file = f
Untouched(t, f) == [u \in Thread |-> alone[u] /\ (u = t \/ ~Writes(u, f))]
IsAlone(t, f) == \A u \in Thread \ {t} : ~Writes(u, f)

OpenKeeps(t, f) ==
  /\ ~stream[t].open
  /\ disk' = [disk EXCEPT ![f] = IF @ = NoFile THEN <<>> ELSE @]
  /\ stream' = [stream EXCEPT ![t] = [open |-> TRUE, file |-> f, at |-> 0]]
  /\ alone' = [Untouched(t, f) EXCEPT ![t] = IsAlone(t, f)]
  /\ UNCHANGED <<wire, late, chat, username>>

Open(t, f) ==
  /\ ~stream[t].open
  /\ disk' = [disk EXCEPT ![f] = <<>>]
  /\ stream' = [stream EXCEPT ![t] = [open |-> TRUE, file |-> f, at |-> 0]]
  /\ alone' = [Untouched(t, f) EXCEPT ![t] = IsAlone(t, f)]
  /\ UNCHANGED <<wire, late, chat, username>>

(* A piece is written at the stream's own place, whatever others have made   *)
(* of the file; a file that was removed meanwhile has no name any more.      *)
Written(t, old) ==
  [k \in 1 .. IF stream[t].at < Len(old) THEN Len(old) ELSE stream[t].at + 1 |->
     IF k = stream[t].at + 1 THEN t ELSE IF k <= Len(old) THEN old[k] ELSE Hole]

makeHTTPGETCallWriterFILE(t) ==
  /\ stream[t].open /\ stream[t].at < Size[t]
  /\ disk' = IF stream[t].file = NoFile THEN disk
             ELSE [disk EXCEPT ![stream[t].file] = Written(t, @)]
  /\ stream' = [stream EXCEPT ![t].at = @ + 1]
  /\ UNCHANGED <<wire, late, chat, username, alone>>

CloseFile(t) ==
  /\ stream[t].open /\ stream[t].at = Size[t]
  /\ stream' = [stream EXCEPT ![t] = NoStream]
  /\ UNCHANGED <<wire, late, chat, username, disk, alone>>

(* After an error the file named by br->file_id is removed, whichever was    *)
(* being written, and under whoever else is writing it.                      *)
CloseFails(t) ==
  /\ stream[t].open
  /\ disk' = [disk EXCEPT ![FileId[t]] = NoFile]
  /\ stream' = [u \in Thread |->
                  IF u = t THEN NoStream
                  ELSE IF Writes(u, FileId[t]) THEN [stream[u] EXCEPT !.file = NoFile]
                  ELSE stream[u]]
  /\ alone' = Untouched(t, FileId[t])
  /\ UNCHANGED <<wire, late, chat, username>>
=============================================================================
