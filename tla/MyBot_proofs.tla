---------------------------- MODULE MyBot_proofs ----------------------------
(***************************************************************************)
(* Proofs about MyBot for any number of threads, files and pieces, and any *)
(* requests that were given up and are still on their way: what downloads  *)
(* leave on disk, whose messages are edited, and that none is sent twice.  *)
(***************************************************************************)
EXTENDS MyBot, FiniteSetTheorems, TLAPS

-----------------------------------------------------------------------------
(* The files.  Nothing else in the bot touches them, so what is said of them *)
(* needs nothing of the calls or of the handlers.                            *)
file_vars == <<disk, stream, alone>>
Streams == [open : BOOLEAN, file : File \cup {NoFile}, at : Nat]
Pieces == Seq(Thread \cup {Hole})

FileTypeOK ==
  /\ disk \in [File -> Pieces \cup {NoFile}]
  /\ stream \in [Thread -> Streams]
  /\ alone \in [Thread -> BOOLEAN]

(* A file that is being written and was not removed is there, ...            *)
WrittenExists ==
  \A t \in Thread : stream[t].open /\ stream[t].file \in File =>
    disk[stream[t].file] \in Pieces

(* ... and who is alone with a file is its only writer and has filled it.    *)
AloneWrites ==
  \A t \in Thread : stream[t].open /\ alone[t] =>
    /\ stream[t].file \in File
    /\ IsAlone(t, stream[t].file)
    /\ disk[stream[t].file] = [k \in 1 .. stream[t].at |-> t]

FileInv == FileTypeOK /\ WrittenExists /\ AloneWrites

FileStep ==
  \/ \E t \in Thread, f \in File : Open(t, f)
  \/ \E t \in Thread :
       makeHTTPGETCallWriterFILE(t) \/ CloseFile(t) \/ CloseFails(t)
  \/ UNCHANGED file_vars

-----------------------------------------------------------------------------
LEMMA InitFiles == Init => FileInv
<1> SUFFICES ASSUME Init PROVE FileInv
  OBVIOUS
<1> USE DEF Init, ApiInit
<1>1. NoStream \in Streams /\ ~NoStream.open
  BY DEF NoStream, Streams
<1>2. FileTypeOK
  BY <1>1 DEF FileTypeOK
<1>3. WrittenExists /\ AloneWrites
  BY <1>1 DEF WrittenExists, AloneWrites
<1> QED BY <1>2, <1>3 DEF FileInv

LEMMA WrittenIsPieces ==
  ASSUME NEW t \in Thread, NEW old \in Pieces, stream[t].at \in Nat
  PROVE  Written(t, old) \in Pieces
<1> DEFINE n == IF stream[t].at < Len(old) THEN Len(old) ELSE stream[t].at + 1
<1>1. n \in Nat /\ Len(old) \in Nat
  BY DEF Pieces
<1>2. \A k \in 1 .. n : (IF k = stream[t].at + 1 THEN t
                          ELSE IF k <= Len(old) THEN old[k] ELSE Hole)
                          \in Thread \cup {Hole}
  BY DEF Pieces
<1>3. Written(t, old) =
        [k \in 1 .. n |-> IF k = stream[t].at + 1 THEN t
                          ELSE IF k <= Len(old) THEN old[k] ELSE Hole]
  BY DEF Written
<1> HIDE DEF n
<1>4. Written(t, old) \in [1 .. n -> Thread \cup {Hole}]
  BY <1>2, <1>3, Zenon
<1> QED BY <1>1, <1>4 DEF Pieces

(* The next piece of a file that holds what its writer wrote.                *)
LEMMA WrittenOwn ==
  ASSUME NEW t \in Thread, NEW at \in Nat, stream[t].at = at
  PROVE  Written(t, [k \in 1 .. at |-> t]) = [k \in 1 .. at + 1 |-> t]
<1> DEFINE old == [k \in 1 .. at |-> t]
<1>1. old \in Seq({t}) /\ Len(old) = at
  OBVIOUS
<1>2. \A k \in 1 .. at : old[k] = t
  OBVIOUS
<1> HIDE DEF old
<1>3. (IF at < Len(old) THEN Len(old) ELSE at + 1) = at + 1
  BY <1>1
<1>4. Written(t, old) =
        [k \in 1 .. at + 1 |-> IF k = at + 1 THEN t ELSE IF k <= Len(old) THEN old[k] ELSE Hole]
  BY <1>3 DEF Written
<1>5. \A k \in 1 .. at + 1 : (IF k = at + 1 THEN t ELSE IF k <= Len(old) THEN old[k] ELSE Hole) = t
  BY <1>1, <1>2
<1>6. Written(t, old) = [k \in 1 .. at + 1 |-> t]
  BY <1>4, <1>5
<1> QED BY <1>6 DEF old

(* Who touches a file: after it, the others that are still alone with theirs *)
(* were so before, and with another file.                                    *)
LEMMA UntouchedAlone ==
  ASSUME FileInv, NEW t \in Thread, NEW f, NEW u \in Thread
  PROVE  /\ Untouched(t, f)[u] \in BOOLEAN
         /\ Untouched(t, f)[u] => alone[u] /\ (u = t \/ ~Writes(u, f))
  BY DEF Untouched, FileInv, FileTypeOK, Writes

LEMMA OpenPreserves ==
  ASSUME FileInv, NEW t \in Thread, NEW f \in File, Open(t, f)
  PROVE  FileInv'
<1> USE ApiAssumption DEF FileInv, FileTypeOK
<1>1. /\ ~stream[t].open
      /\ disk' = [disk EXCEPT ![f] = <<>>]
      /\ stream' = [stream EXCEPT ![t] = [open |-> TRUE, file |-> f, at |-> 0]]
      /\ alone' = [Untouched(t, f) EXCEPT ![t] = IsAlone(t, f)]
  BY DEF Open
<1>2. <<>> \in Pieces
  BY DEF Pieces
<1>3. disk' \in [File -> Pieces \cup {NoFile}]
  BY <1>1, <1>2
<1>4. [open |-> TRUE, file |-> f, at |-> 0] \in Streams
  BY DEF Streams
<1>5. stream' \in [Thread -> Streams]
  BY <1>1, <1>4
<1>6. Untouched(t, f) \in [Thread -> BOOLEAN]
  BY UntouchedAlone DEF Untouched
<1>7. IsAlone(t, f) \in BOOLEAN
  BY DEF IsAlone
<1>8. alone' \in [Thread -> BOOLEAN]
  BY <1>1, <1>6, <1>7
<1>9. WrittenExists'
  BY <1>1, <1>2 DEF WrittenExists
<1>10. ASSUME NEW u \in Thread, stream'[u].open, alone'[u]
       PROVE  /\ stream'[u].file \in File
              /\ IsAlone(u, stream[u].file)'
              /\ disk'[stream'[u].file] = [k \in 1 .. stream'[u].at |-> u]
  <2>1. CASE u = t
    <3>0. alone'[t] = IsAlone(t, f)
      BY ONLY <1>1, <1>6
    <3>1. stream'[t] = [open |-> TRUE, file |-> f, at |-> 0] /\ IsAlone(t, f)
      BY <1>1, <1>10, <2>1, <3>0
    <3>2. disk'[f] = <<>> /\ \A v \in Thread \ {t} : stream'[v] = stream[v]
      BY <1>1
    <3>3. IsAlone(t, f)'
      BY <3>1, <3>2 DEF IsAlone, Writes
    <3>4. <<>> = [k \in 1 .. 0 |-> t]
      OBVIOUS
    <3>5. IsAlone(u, stream[u].file)'
      BY ONLY <2>1, <3>1, <3>3 DEF IsAlone, Writes
    <3> QED BY <2>1, <3>1, <3>2, <3>4, <3>5
  <2>2. CASE u # t
    <3>1. stream'[u] = stream[u] /\ alone'[u] = Untouched(t, f)[u]
      BY <1>1, <1>6, <2>2
    <3>2. stream[u].open /\ alone[u] /\ ~Writes(u, f)
      BY <1>10, <2>2, <3>1, UntouchedAlone
    <3>3. stream[u].file # f
      BY <3>2 DEF Writes
    <3>4. /\ stream[u].file \in File /\ IsAlone(u, stream[u].file)
          /\ disk[stream[u].file] = [k \in 1 .. stream[u].at |-> u]
      BY <3>2 DEF AloneWrites
    <3>5. disk'[stream[u].file] = disk[stream[u].file]
      BY <1>1, <3>3, <3>4
    <3>6. \A v \in Thread \ {u} : stream'[v] = stream[v] \/ stream'[v].file = f
      BY ONLY <1>1, FileTypeOK, stream \in [Thread -> Streams]
    <3>7. IsAlone(u, stream[u].file)'
      BY ONLY <3>1, <3>3, <3>4, <3>6 DEF IsAlone, Writes
    <3> QED BY <3>1, <3>4, <3>5, <3>7
  <2> QED BY <2>1, <2>2
<1> QED BY <1>3, <1>5, <1>8, <1>9, <1>10 DEF AloneWrites
LEMMA WritePreserves ==
  ASSUME FileInv, NEW t \in Thread, makeHTTPGETCallWriterFILE(t)
  PROVE  FileInv'
<1> USE ApiAssumption DEF FileInv, FileTypeOK
<1> DEFINE f == stream[t].file
           at == stream[t].at
<1>1. /\ stream[t].open /\ alone' = alone
      /\ stream' = [stream EXCEPT ![t].at = @ + 1]
      /\ disk' = IF f = NoFile THEN disk ELSE [disk EXCEPT ![f] = Written(t, @)]
  BY DEF makeHTTPGETCallWriterFILE
<1>2. at \in Nat /\ f \in File \cup {NoFile} /\ stream[t] \in Streams
  BY DEF Streams
<1>3. f # NoFile => f \in File /\ disk[f] \in Pieces /\ Written(t, disk[f]) \in Pieces
  BY <1>1, <1>2, WrittenIsPieces DEF WrittenExists
<1>4. /\ disk' \in [File -> Pieces \cup {NoFile}]
      /\ \A g \in File : g # f => disk'[g] = disk[g]
      /\ f # NoFile => disk'[f] = Written(t, disk[f])
  BY ONLY <1>1, <1>3, FileInv, ApiAssumption DEF FileInv, FileTypeOK
<1>5. [stream[t] EXCEPT !.at = @ + 1] \in Streams
  BY <1>2 DEF Streams
<1>6. /\ stream' \in [Thread -> Streams]
      /\ \A u \in Thread : u # t => stream'[u] = stream[u]
      /\ stream'[t].at = at + 1 /\ stream'[t].open /\ stream'[t].file = f
  <2>1. /\ [stream[t] EXCEPT !.at = @ + 1].at = at + 1
        /\ [stream[t] EXCEPT !.at = @ + 1].open
        /\ [stream[t] EXCEPT !.at = @ + 1].file = f
    BY ONLY <1>1, <1>2 DEF Streams
  <2>2. stream' = [stream EXCEPT ![t] = [stream[t] EXCEPT !.at = @ + 1]]
    BY ONLY <1>1
  <2> QED BY <1>5, <2>1, <2>2
<1>7. WrittenExists'
  <2> SUFFICES ASSUME NEW u \in Thread, stream'[u].open, stream'[u].file \in File
               PROVE  disk'[stream'[u].file] \in Pieces
    BY DEF WrittenExists
  <2>1. stream[u].open /\ stream'[u].file = stream[u].file
    BY <1>1, <1>6
  <2>2. disk[stream[u].file] \in Pieces
    BY <2>1 DEF WrittenExists
  <2> QED BY <1>3, <1>4, <2>1, <2>2
<1>8. ASSUME NEW u \in Thread, stream'[u].open, alone'[u]
      PROVE  /\ stream'[u].file \in File
             /\ IsAlone(u, stream[u].file)'
             /\ disk'[stream'[u].file] = [k \in 1 .. stream'[u].at |-> u]
  <2>1. stream[u].open /\ stream'[u].file = stream[u].file /\ alone[u]
    BY <1>1, <1>6, <1>8
  <2>2. /\ stream[u].file \in File /\ IsAlone(u, stream[u].file)
        /\ disk[stream[u].file] = [k \in 1 .. stream[u].at |-> u]
    BY <2>1 DEF AloneWrites
  <2>3. IsAlone(u, stream[u].file)'
    <3>1. \A v \in Thread : /\ stream'[v].file = stream[v].file
                            /\ stream'[v].open => stream[v].open
      BY <1>1, <1>6
    <3> QED BY ONLY <2>2, <3>1 DEF IsAlone, Writes
  <2>4. CASE u = t
    <3>1. disk'[f] = Written(t, [k \in 1 .. at |-> t]) /\ f \in File
      BY <1>4, <2>2, <2>4
    <3>2. disk'[f] = [k \in 1 .. at + 1 |-> t]
      BY <1>2, <3>1, WrittenOwn
    <3> QED BY <1>6, <2>1, <2>3, <2>4, <3>1, <3>2
  <2>5. CASE u # t
    <3>1. stream[u].file # f
      BY <1>1, <2>2, <2>5 DEF IsAlone, Writes
    <3> QED BY <1>4, <1>6, <2>2, <2>3, <2>5, <3>1, ZenonT(60)
  <2> QED BY <2>4, <2>5
<1> QED BY <1>1, <1>4, <1>6, <1>7, <1>8 DEF AloneWrites

LEMMA ClosePreserves ==
  ASSUME FileInv, NEW t \in Thread, CloseFile(t)
  PROVE  FileInv'
<1> USE ApiAssumption DEF FileInv, FileTypeOK
<1>1. /\ stream' = [stream EXCEPT ![t] = NoStream] /\ disk' = disk /\ alone' = alone
      /\ NoStream \in Streams /\ ~NoStream.open
  BY DEF CloseFile, NoStream, Streams
<1>2. /\ stream' \in [Thread -> Streams] /\ ~stream'[t].open
      /\ \A u \in Thread : u # t => stream'[u] = stream[u]
  BY <1>1
<1>3. WrittenExists'
  BY <1>1, <1>2 DEF WrittenExists
<1>4. AloneWrites'
  BY <1>1, <1>2 DEF AloneWrites, IsAlone, Writes
<1> QED BY <1>1, <1>2, <1>3, <1>4

LEMMA ClosePreservesFailed ==
  ASSUME FileInv, NEW t \in Thread, CloseFails(t)
  PROVE  FileInv'
<1> USE ApiAssumption DEF FileInv, FileTypeOK
<1> DEFINE f == FileId[t]
<1>1. /\ disk' = [disk EXCEPT ![f] = NoFile] /\ alone' = Untouched(t, f) /\ f \in File
      /\ stream' = [u \in Thread |->
                      IF u = t THEN NoStream
                      ELSE IF Writes(u, f) THEN [stream[u] EXCEPT !.file = NoFile]
                      ELSE stream[u]]
  BY DEF CloseFails
<1>2. NoStream \in Streams /\ ~NoStream.open
  BY DEF NoStream, Streams
<1>3. \A u \in Thread : /\ [stream[u] EXCEPT !.file = NoFile] \in Streams
                        /\ [stream[u] EXCEPT !.file = NoFile].file = NoFile
  BY DEF Streams
<1>4. /\ stream' \in [Thread -> Streams]
      /\ ~stream'[t].open
      /\ \A u \in Thread \ {t} : ~Writes(u, f) => stream'[u] = stream[u]
      /\ \A u \in Thread \ {t} : Writes(u, f) => stream'[u].file = NoFile
  BY <1>1, <1>2, <1>3
<1>5. disk' \in [File -> Pieces \cup {NoFile}] /\ \A g \in File : g # f => disk'[g] = disk[g]
  BY <1>1
<1>6. alone' \in [Thread -> BOOLEAN]
  BY <1>1, UntouchedAlone DEF Untouched
<1>7. WrittenExists'
  <2> SUFFICES ASSUME NEW u \in Thread, stream'[u].open, stream'[u].file \in File
               PROVE  disk'[stream'[u].file] \in Pieces
    BY DEF WrittenExists
  <2>1. u # t /\ stream'[u] = stream[u] /\ ~Writes(u, f)
    BY <1>4
  <2>2. stream[u].file # f
    BY <2>1 DEF Writes
  <2> QED BY <1>5, <2>1, <2>2 DEF WrittenExists
<1>8. ASSUME NEW u \in Thread, stream'[u].open, alone'[u]
      PROVE  /\ stream'[u].file \in File
             /\ IsAlone(u, stream[u].file)'
             /\ disk'[stream'[u].file] = [k \in 1 .. stream'[u].at |-> u]
  <2>1. u # t /\ alone[u] /\ ~Writes(u, f)
    BY <1>1, <1>4, <1>8, UntouchedAlone
  <2>2. stream'[u] = stream[u]
    BY <1>4, <2>1
  <2>3. /\ stream[u].file \in File /\ IsAlone(u, stream[u].file) /\ stream[u].file # f
        /\ disk[stream[u].file] = [k \in 1 .. stream[u].at |-> u]
    BY <1>8, <2>1, <2>2 DEF AloneWrites, Writes
  <2>4. \A v \in Thread : stream'[v] = stream[v] \/ ~stream'[v].open \/ stream'[v].file = NoFile
    BY <1>4
  <2>5. IsAlone(u, stream[u].file)'
    BY ONLY <2>2, <2>3, <2>4, ApiAssumption DEF IsAlone, Writes
  <2> QED BY <1>5, <2>2, <2>3, <2>5
<1> QED BY <1>4, <1>5, <1>6, <1>7, <1>8 DEF AloneWrites

LEMMA FileStepPreserves ==
  ASSUME FileInv, FileStep
  PROVE  FileInv'
<1>1. CASE UNCHANGED file_vars
  BY <1>1 DEF file_vars, FileInv, FileTypeOK, WrittenExists, AloneWrites, IsAlone, Writes
<1> QED
  BY <1>1, OpenPreserves, WritePreserves, ClosePreserves, ClosePreservesFailed DEF FileStep

(* Every step of the bot is one of those, or leaves the files alone.         *)
LEMMA StepOfFiles == [Next]_vars => FileStep
<1> SUFFICES ASSUME [Next]_vars PROVE FileStep
  OBVIOUS
<1> USE DEF file_vars, api_vars
<1>1. CASE UNCHANGED vars
  BY <1>1 DEF vars, FileStep
<1>2. CASE MainBegins \/ MainPolls \/ (\E t \in Handler : StartHandler(t))
  BY <1>2 DEF MainBegins, MainPolls, StartHandler, vars, FileStep
<1>3. ASSUME NEW t \in Thread, AskName(t) \/ Named(t) PROVE FileStep
  BY <1>3 DEF AskName, AsksUsername, Ask, Named, botGetUsername, FileStep
<1>4. ASSUME NEW t \in Thread, t # Main, HandlerStep(t) PROVE FileStep
  <2>1. CASE OpenFile(t)
    <3>1. Target(t) \in File
      BY ApiAssumption, MyBotAssumption DEF Target
    <3> QED BY <2>1, <3>1 DEF OpenFile, FileStep
  <2>2. CASE Load(t) \/ Loaded(t)
    BY <2>2 DEF Load, Loaded, FileStep
  <2>3. CASE Report(t) \/ Edit(t) \/ AskFile(t) \/ Fact(t) \/ Question(t) \/ botSendImage(t)
    BY <2>3 DEF Report, Edit, AskFile, Fact, Question, botSendImage, Calls, Ask, FileStep
  <2>4. CASE Reported(t) \/ Edited(t) \/ NoFilePath(t) \/ FilePath(t) \/ Answered(t)
    BY <2>4 DEF Reported, Edited, NoFilePath, FilePath, Answered, Resumes, CallReturns, FileStep
  <2>5. CASE CannotOpen(t) \/ NoAnswer(t)
    BY <2>5 DEF CannotOpen, NoAnswer, FileStep
  <2> QED BY <1>4, <2>1, <2>2, <2>3, <2>4, <2>5 DEF HandlerStep
<1>5. CASE ServerStep
  BY <1>5 DEF ServerStep, ServerActs, ServerRefuses, ServerActsLate, FileStep
<1> QED BY <1>1, <1>2, <1>3, <1>4, <1>5 DEF Next, ThreadStep

(* While nobody else opens or removes the file, a download has on disk what  *)
(* it has written, whatever the other threads download and however many they *)
(* are (botlib.c:247-252, 525-544).                                          *)
THEOREM SpecDownloadsOwn == Spec => []DownloadsOwn
<1>1. FileInv /\ [Next]_vars => FileInv'
  BY StepOfFiles, FileStepPreserves
<1>2. FileInv => DownloadsOwn
  BY DEF FileInv, AloneWrites, DownloadsOwn
<1> QED BY InitFiles, <1>1, <1>2, PTL DEF Spec
-----------------------------------------------------------------------------
(* The calls.  A request is a sending, an edit or a question, and names its  *)
(* thread.                                                                   *)
Requests == [what : {"send", "edit", "getMe", "getFile"}, by : Thread, id : Int]
WireStates == {"sent", "acted", "refused"}
Wires == [state : {"none"}] \cup [state : WireStates, request : Requests, id : Nat]
Messages == [by : Thread \cup {Earlier}, editors : SUBSET Thread]

Waits(t) == wire[t] # NotWaiting
Asked(t) == wire[t].request

CallTypeOK ==
  /\ wire \in [Thread -> Wires]
  /\ \A t \in Thread : Waits(t) => Asked(t).by = t
  /\ late \subseteq Requests /\ IsFiniteSet(late)
  /\ chat \in Seq(Messages)

(* A wire is at rest, or has a request and its state.                        *)
LEMMA WireCases ==
  ASSUME CallTypeOK, NEW t \in Thread
  PROVE  /\ Waits(t) <=> wire[t].state \in WireStates
         /\ ~Waits(t) <=> wire[t].state = "none"
         /\ Waits(t) => Asked(t) \in Requests /\ wire[t].id \in Nat
         /\ Waits(t) => wire[t] = [state |-> wire[t].state, request |-> Asked(t),
                                    id |-> wire[t].id]
<1>1. wire[t] \in Wires
  BY DEF CallTypeOK
<1>2. CASE wire[t] \in [state : {"none"}]
  <2>1. wire[t] = NotWaiting
    BY <1>2 DEF NotWaiting
  <2> QED BY <2>1 DEF NotWaiting, Waits, WireStates
<1>3. CASE wire[t] \in [state : WireStates, request : Requests, id : Nat]
  <2>1. wire[t].state \in WireStates /\ wire[t].state # "none"
    BY <1>3 DEF WireStates
  <2>2. wire[t] # NotWaiting
    BY <2>1 DEF NotWaiting
  <2> QED BY <1>3, <2>1, <2>2 DEF Waits, Asked
<1> QED BY <1>1, <1>2, <1>3 DEF Wires

(* A thread asks: it waits for its request, and nothing else changes.        *)
LEMMA AskCalls ==
  ASSUME CallTypeOK, NEW t \in Thread, NEW r \in Requests, r.by = t, Ask(t, r)
  PROVE  /\ CallTypeOK'
         /\ ~Waits(t) /\ Waits(t)' /\ Asked(t)' = r /\ wire'[t].state = "sent"
         /\ \A u \in Thread \ {t} : wire'[u] = wire[u]
         /\ UNCHANGED <<late, chat>>
<1> USE DEF CallTypeOK
<1>1. /\ ~Waits(t) /\ wire' = [wire EXCEPT ![t] = Waiting(r)] /\ UNCHANGED <<late, chat>>
  BY DEF Ask, Waits
<1>2. /\ Waiting(r) \in Wires /\ Waiting(r).request = r /\ Waiting(r).state = "sent"
      /\ Waiting(r) # NotWaiting
  <2>1. Waiting(r).request = r /\ Waiting(r).state = "sent" /\ NotWaiting.state = "none"
    BY DEF Waiting, NotWaiting
  <2> QED BY <2>1 DEF Waiting, Wires, WireStates
<1>3. /\ wire' \in [Thread -> Wires] /\ wire'[t] = Waiting(r)
      /\ \A u \in Thread \ {t} : wire'[u] = wire[u]
  BY <1>1, <1>2
<1>4. Waits(t)' /\ Asked(t)' = r /\ wire'[t].state = "sent"
  BY <1>2, <1>3 DEF Waits, Asked
<1>5. \A u \in Thread : Waits(u)' => (Asked(u).by = u)'
  BY <1>3, <1>4 DEF Waits, Asked
<1> QED BY <1>1, <1>3, <1>4, <1>5

(* A call returns: the thread waits no more, and what it asked is answered,  *)
(* or was refused, or may be late.                                           *)
LEMMA ReturnCalls ==
  ASSUME CallTypeOK, NEW t \in Thread, NEW result, Returns(t, result), UNCHANGED chat
  PROVE  /\ CallTypeOK'
         /\ Waits(t) /\ ~Waits(t)' /\ Asked(t) \in Requests
         /\ \A u \in Thread \ {t} : wire'[u] = wire[u]
         /\ \/ late' = late
            \/ late' = late \cup {Asked(t)} /\ wire[t].state = "sent" /\ Changes(Asked(t))
         /\ \/ result = Result(t) /\ wire[t].state = "acted"
            \/ result = Nothing
<1> USE DEF CallTypeOK
<1>1. wire' = [wire EXCEPT ![t] = NotWaiting] /\ wire[t].state \in WireStates
  BY DEF Returns, AfterGivingUp, WireStates
<1>2. Waits(t) /\ Asked(t) \in Requests
  BY <1>1, WireCases
<1>3. \/ late' = late
      \/ late' = late \cup {Asked(t)} /\ wire[t].state = "sent" /\ Changes(Asked(t))
  BY DEF Returns, Asked
<1>4. \/ result = Result(t) /\ wire[t].state = "acted"
      \/ result = Nothing
  BY DEF Returns
<1>5. IsFiniteSet(late') /\ late' \subseteq Requests
  BY <1>2, <1>3, FS_AddElement
<1>6. NotWaiting \in Wires
  BY DEF NotWaiting, Wires
<1>7. /\ wire' \in [Thread -> Wires] /\ wire'[t] = NotWaiting
      /\ \A u \in Thread \ {t} : wire'[u] = wire[u]
  BY <1>1, <1>6
<1>8. \A u \in Thread : Waits(u)' => (Asked(u).by = u)'
  BY <1>7 DEF Waits, Asked
<1>9. ~Waits(t)'
  BY <1>7 DEF Waits
<1> QED BY <1>2, <1>3, <1>4, <1>5, <1>7, <1>8, <1>9

(* A request carried out adds a message of its thread, or makes its thread   *)
(* an editor of the message it names, or leaves the messages alone.          *)
LEMMA CarriedCases ==
  ASSUME CallTypeOK, NEW r \in Requests, Possible(r)
  PROVE  /\ Carried(r) \in Seq(Messages)
         /\ r.what = "send" => Carried(r) = Append(chat, [by |-> r.by, editors |-> {}])
         /\ r.what = "edit" => /\ r.id \in DOMAIN chat
                              /\ Carried(r) = [chat EXCEPT ![r.id].editors = @ \cup {r.by}]
         /\ ~Changes(r) => Carried(r) = chat
<1> USE DEF CallTypeOK
<1>1. CASE r.what = "send"
  BY <1>1 DEF Carried, Requests, Messages, Changes
<1>2. CASE r.what = "edit"
  <2>1. r.id \in DOMAIN chat /\ chat[r.id] \in Messages /\ r.by \in Thread
    BY <1>2 DEF Possible, Requests
  <2>2. Carried(r) = [chat EXCEPT ![r.id].editors = @ \cup {r.by}]
    BY <1>2 DEF Carried
  <2>3. [chat[r.id] EXCEPT !.editors = @ \cup {r.by}] \in Messages
    BY <2>1 DEF Messages
  <2> QED BY <1>2, <2>1, <2>2, <2>3 DEF Changes
<1>3. CASE ~Changes(r)
  BY <1>3 DEF Carried, Changes
<1> QED BY <1>1, <1>2, <1>3 DEF Changes
(* The server comes to a request that is waited for, ...                     *)
LEMMA MarkCalls ==
  ASSUME CallTypeOK, NEW t \in Thread, wire[t].state = "sent",
         NEW state \in WireStates, NEW id \in Nat, chat' \in Seq(Messages), late' = late,
         wire' = [wire EXCEPT ![t] = [state |-> state, request |-> Asked(t), id |-> id]]
  PROVE  /\ CallTypeOK'
         /\ Waits(t) /\ Asked(t) \in Requests
         /\ wire'[t] = [state |-> state, request |-> Asked(t), id |-> id]
         /\ \A u \in Thread \ {t} : wire'[u] = wire[u]
<1> USE DEF CallTypeOK
<1>1. Waits(t) /\ Asked(t) \in Requests
  BY WireCases DEF WireStates
<1>2. [state |-> state, request |-> Asked(t), id |-> id] \in Wires
  BY <1>1 DEF Wires
<1>3. /\ wire' \in [Thread -> Wires]
      /\ wire'[t] = [state |-> state, request |-> Asked(t), id |-> id]
      /\ \A u \in Thread \ {t} : wire'[u] = wire[u]
  BY <1>2
<1>4. \A u \in Thread : Waits(u)' => (Asked(u).by = u)'
  BY <1>1, <1>3 DEF Waits, Asked
<1> QED BY <1>1, <1>3, <1>4

LEMMA ActsCalls ==
  ASSUME CallTypeOK, NEW t \in Thread, ServerActs(t)
  PROVE  /\ CallTypeOK'
         /\ Waits(t) /\ Asked(t) \in Requests /\ wire[t].state = "sent"
         /\ Possible(Asked(t)) /\ chat' = Carried(Asked(t)) /\ late' = late
         /\ wire'[t] = [state |-> "acted", request |-> Asked(t), id |-> Len(chat')]
         /\ \A u \in Thread \ {t} : wire'[u] = wire[u]
<1>1. /\ wire[t].state = "sent" /\ Possible(Asked(t))
      /\ chat' = Carried(Asked(t)) /\ late' = late
      /\ wire' = [wire EXCEPT ![t].state = "acted", ![t].id = Len(chat')]
  BY DEF ServerActs, Asked
<1>2. Waits(t) /\ Asked(t) \in Requests
  BY <1>1, WireCases DEF WireStates
<1>3. chat' \in Seq(Messages) /\ Len(chat') \in Nat
  <2>1. Carried(Asked(t)) \in Seq(Messages)
    BY ONLY <1>1, <1>2, CallTypeOK, CarriedCases
  <2>2. \A c \in Seq(Messages) : Len(c) \in Nat
    OBVIOUS
  <2> QED BY ONLY <1>1, <2>1, <2>2
<1>4. wire[t] = [state |-> "sent", request |-> Asked(t), id |-> wire[t].id]
  BY <1>1, <1>2, WireCases
<1>5. wire' = [wire EXCEPT ![t] = [state |-> "acted", request |-> Asked(t),
                                   id |-> Len(chat')]]
  <2>1. wire \in [Thread -> Wires]
    BY DEF CallTypeOK
  <2>2. wire' = [wire EXCEPT ![t] = [[wire[t] EXCEPT !.state = "acted"]
                                        EXCEPT !.id = Len(chat')]]
    <3> DEFINE a == [wire[t] EXCEPT !.state = "acted"]
               w == [wire EXCEPT ![t] = a]
    <3>1. w[t] = a /\ DOMAIN w = Thread /\ DOMAIN wire = Thread
      BY <2>1
    <3>2. wire' = [w EXCEPT ![t] = [w[t] EXCEPT !.id = Len(chat')]]
      BY ONLY <1>1
    <3>3. wire' = [w EXCEPT ![t] = [a EXCEPT !.id = Len(chat')]]
      BY ONLY <3>1, <3>2
    <3> HIDE DEF a
    <3>4. wire' = [wire EXCEPT ![t] = [a EXCEPT !.id = Len(chat')]]
      BY ONLY <3>1, <3>3
    <3> QED BY <3>4 DEF a
  <2>3. [[wire[t] EXCEPT !.state = "acted"] EXCEPT !.id = Len(chat')]
          = [state |-> "acted", request |-> Asked(t), id |-> Len(chat')]
    <3>1. [wire[t] EXCEPT !.state = "acted"]
            = [state |-> "acted", request |-> Asked(t), id |-> wire[t].id]
      BY ONLY <1>4
    <3>2. [[state |-> "acted", request |-> Asked(t), id |-> wire[t].id]
             EXCEPT !.id = Len(chat')]
            = [state |-> "acted", request |-> Asked(t), id |-> Len(chat')]
      OBVIOUS
    <3> QED BY ONLY <3>1, <3>2
  <2> QED BY ONLY <2>2, <2>3
<1>6. "acted" \in WireStates
  BY DEF WireStates
<1> QED BY <1>1, <1>2, <1>3, <1>5, <1>6, MarkCalls

LEMMA RefusesCalls ==
  ASSUME CallTypeOK, NEW t \in Thread, ServerRefuses(t)
  PROVE  /\ CallTypeOK' /\ UNCHANGED <<late, chat>>
         /\ Waits(t) /\ Asked(t) \in Requests /\ wire[t].state = "sent"
         /\ wire'[t].state = "refused" /\ Asked(t)' = Asked(t) /\ Waits(t)'
         /\ \A u \in Thread \ {t} : wire'[u] = wire[u]
<1>1. /\ wire[t].state = "sent" /\ UNCHANGED <<late, chat>>
      /\ wire' = [wire EXCEPT ![t].state = "refused"]
  BY DEF ServerRefuses
<1>2. wire[t] = [state |-> "sent", request |-> Asked(t), id |-> wire[t].id] /\ wire[t].id \in Nat
  BY <1>1, WireCases DEF WireStates
<1>3. wire' = [wire EXCEPT ![t] = [state |-> "refused", request |-> Asked(t),
                                   id |-> wire[t].id]]
  <2>1. wire' = [wire EXCEPT ![t] = [wire[t] EXCEPT !.state = "refused"]]
    BY ONLY <1>1
  <2>2. [wire[t] EXCEPT !.state = "refused"]
          = [state |-> "refused", request |-> Asked(t), id |-> wire[t].id]
    BY ONLY <1>2
  <2> QED BY ONLY <2>1, <2>2
<1>4. "refused" \in WireStates /\ chat' \in Seq(Messages)
  BY <1>1 DEF WireStates, CallTypeOK
<1>5. /\ CallTypeOK' /\ Waits(t) /\ Asked(t) \in Requests
      /\ wire'[t] = [state |-> "refused", request |-> Asked(t), id |-> wire[t].id]
      /\ \A u \in Thread \ {t} : wire'[u] = wire[u]
  BY <1>1, <1>2, <1>3, <1>4, MarkCalls, ZenonT(60)
<1> QED BY <1>1, <1>5 DEF Waits, Asked, NotWaiting

(* ... or to one that nobody waits for any more.                             *)
LEMMA ActsLateCalls ==
  ASSUME CallTypeOK, ServerActsLate
  PROVE  /\ CallTypeOK' /\ wire' = wire
         /\ \E r \in late : /\ r \in Requests /\ late' = late \ {r}
                            /\ Possible(r) /\ chat' = Carried(r)
<1>1. PICK r \in late : late' = late \ {r} /\ Possible(r) /\ chat' = Carried(r)
  BY DEF ServerActsLate
<1>2. r \in Requests /\ IsFiniteSet(late') /\ late' \subseteq Requests /\ wire' = wire
  BY <1>1, FS_RemoveElement DEF CallTypeOK, ServerActsLate
<1>3. chat' \in Seq(Messages)
  BY <1>1, <1>2, CarriedCases
<1> QED BY <1>1, <1>2, <1>3 DEF CallTypeOK, Waits, Asked
-----------------------------------------------------------------------------
(* The threads.                                                              *)
PC == {"idle", "name", "naming", "example", "reporting", "reported", "editing",
       "audio", "file", "path", "opening", "loading", "words", "answering", "image",
       "done"}
JobTypes ==
  [does : {"example"}, voice : BOOLEAN, words : {"fact", "question", "other"}]
    \cup [does : {"image", "name", "file", "none"}]

ThreadTypeOK ==
  /\ pc \in [Thread -> PC]
  /\ job \in [Handler -> JobTypes]
  /\ ids \in [Handler -> Nat]

(* A thread waits at the places where it has asked for something, and for    *)
(* what it asks there.                                                       *)
WireFitsPc(t) ==
  Waits(t) =>
    /\ pc[t] \in {"naming", "reporting", "editing", "path", "answering"}
    /\ Asked(t).what = "send" <=> pc[t] \in {"reporting", "answering"}
    /\ Asked(t).what = "edit" <=> pc[t] = "editing"

(* The main thread only asks for the name; a handler is where its job is.    *)
PcFitsJob(t) ==
  IF t = Main THEN pc[t] \in {"idle", "name", "naming", "done"}
  ELSE /\ pc[t] = "idle" => job[t].does = "none"
       /\ pc[t] \in {"example", "reporting", "reported", "editing", "audio", "words"}
            => IsExample(t)
       /\ pc[t] = "image" => job[t].does = "image"
       /\ pc[t] = "answering" =>
            job[t].does = "image" \/ (IsExample(t) /\ job[t].words # "other")

(* Before the reply to its first message a handler has edited nothing, and   *)
(* nothing of it that was given up is an edit; ...                           *)
Early == {"idle", "example", "reporting"}
NoEditYet(t) ==
  pc[t] \in Early =>
    /\ ids[t] = 0
    /\ \A r \in late : r.by = t => r.what # "edit"
    /\ \A i \in DOMAIN chat : t \notin chat[i].editors

(* ... that reply names a message of its own; ...                            *)
ReplyIsOwn(t) ==
  pc[t] = "reporting" /\ wire[t].state = "acted" =>
    wire[t].id \in DOMAIN chat /\ chat[wire[t].id].by = t

(* ... and every edit it made, waits for or gave up is one of the message    *)
(* that the id it has now becomes as an int.                                 *)
KnowsOwn(t) ==
  /\ ids[t] # 0 => ids[t] \in DOMAIN chat /\ chat[ids[t]].by = t
  /\ Waits(t) /\ Asked(t).what = "edit" => Asked(t).id \in MessageId(t)
  /\ \A r \in late : r.by = t /\ r.what = "edit" => r.id \in MessageId(t)
  /\ \A i \in DOMAIN chat : t \in chat[i].editors => i \in MessageId(t)

MainSilent ==
  /\ \A r \in late : r.by # Main
  /\ \A i \in DOMAIN chat : chat[i].by # Main /\ Main \notin chat[i].editors

(* The messages of a handler, those still on their way after they were given *)
(* up, and the one it waits for; and how many it has asked for at most.      *)
Sent(t) == {i \in DOMAIN chat : chat[i].by = t}
LateSends(t) == {r \in late : r.by = t /\ r.what = "send"}
OnWire(t) == IF wire[t].state = "sent" /\ Asked(t).what = "send" THEN 1 ELSE 0
Tries(t) == Cardinality(Sent(t)) + Cardinality(LateSends(t)) + OnWire(t)
Allowed(t) ==
  IF IsExample(t)
  THEN IF pc[t] = "example" THEN 0
       ELSE IF pc[t] \in {"answering", "done"} /\ job[t].words # "other" THEN 2 ELSE 1
  ELSE IF job[t].does = "image" /\ pc[t] # "image" THEN 1 ELSE 0

ThreadInv ==
  /\ CallTypeOK /\ ThreadTypeOK /\ MainSilent
  /\ \A t \in Thread : WireFitsPc(t) /\ PcFitsJob(t)
  /\ \A t \in Handler : NoEditYet(t) /\ ReplyIsOwn(t) /\ KnowsOwn(t)
  /\ \A t \in Handler : Tries(t) <= Allowed(t)

-----------------------------------------------------------------------------
LEMMA InitThreads == Init => ThreadInv
<1> SUFFICES ASSUME Init PROVE ThreadInv
  OBVIOUS
<1> USE ApiAssumption, MyBotAssumption DEF Init, ApiInit
<1>1. NotWaiting \in Wires /\ [does |-> "none"] \in JobTypes /\ NotWaiting.state = "none"
  BY DEF NotWaiting, Wires, JobTypes
<1>2. /\ wire \in [Thread -> Wires]
      /\ \A t \in Thread : wire[t] = NotWaiting /\ ~Waits(t)
  BY <1>1 DEF Waits
<1>a. /\ chat \in Seq(Messages)
      /\ \A i \in DOMAIN chat : chat[i].by = Earlier /\ chat[i].editors = {}
  <2>1. PICK n \in Before : chat = [i \in 1 .. n |-> [by |-> Earlier, editors |-> {}]]
    OBVIOUS
  <2>2. n \in Nat /\ [by |-> Earlier, editors |-> {}] \in Messages
    BY DEF Messages
  <2> DEFINE first == [by |-> Earlier, editors |-> {}]
  <2>3. first.by = Earlier /\ first.editors = {}
    OBVIOUS
  <2> HIDE DEF first
  <2>4. DOMAIN chat = 1 .. n /\ \A i \in 1 .. n : chat[i] = first
    BY <2>1 DEF first
  <2>5. chat \in Seq(Messages)
    BY ONLY <2>1, <2>2
  <2> QED BY ONLY <2>3, <2>4, <2>5
<1>3. CallTypeOK
  BY <1>2, <1>a, FS_EmptySet DEF CallTypeOK
<1>4. ThreadTypeOK
  BY <1>1 DEF ThreadTypeOK, PC
<1>5. MainSilent
  BY <1>a DEF MainSilent
<1>6. \A t \in Thread : WireFitsPc(t) /\ PcFitsJob(t)
  BY <1>2 DEF WireFitsPc, PcFitsJob, IsExample, Handler
<1>7. \A t \in Handler : NoEditYet(t) /\ ReplyIsOwn(t) /\ KnowsOwn(t)
  BY <1>2, <1>a DEF NoEditYet, ReplyIsOwn, KnowsOwn, Handler
<1>8. ASSUME NEW t \in Handler PROVE Tries(t) <= Allowed(t)
  <2>1. Sent(t) = {} /\ LateSends(t) = {}
    BY <1>a DEF Sent, LateSends, Handler
  <2>2. OnWire(t) = 0
    BY <1>1, <1>2 DEF OnWire, Handler
  <2>3. Tries(t) = 0
    BY <2>1, <2>2, FS_EmptySet DEF Tries
  <2>4. Allowed(t) \in {0, 1, 2}
    BY DEF Allowed
  <2> QED BY <2>3, <2>4
<1> QED BY <1>3, <1>4, <1>5, <1>6, <1>7, <1>8 DEF ThreadInv

(* An id that fits is the int itself, every other one becomes some int; and  *)
(* what a handler would edit changes with its id only.                       *)
LEMMA IntIds ==
  ASSUME NEW n \in Nat
  PROVE  AsInt(n) \in Int /\ (FitsInt(n) => AsInt(n) = n)
<1>1. IntHalf \in Nat \ {0}
  BY MyBotAssumption
<1>2. (n + IntHalf) % (2 * IntHalf) \in Int
  BY <1>1
<1>3. ASSUME n < IntHalf PROVE (n + IntHalf) % (2 * IntHalf) = n + IntHalf
  BY <1>1, <1>3
<1> QED BY <1>1, <1>2, <1>3 DEF AsInt, FitsInt

LEMMA SameMessageId ==
  ASSUME NEW t, ids'[t] = ids[t]
  PROVE  MessageId(t)' = MessageId(t)
BY DEF MessageId, AsInt

LEMMA Counted ==
  ASSUME CallTypeOK, NEW t
  PROVE  /\ IsFiniteSet(Sent(t)) /\ IsFiniteSet(LateSends(t))
         /\ Cardinality(Sent(t)) \in Nat /\ Cardinality(LateSends(t)) \in Nat
         /\ OnWire(t) \in {0, 1} /\ Allowed(t) \in {0, 1, 2}
<1>1. DOMAIN chat = 1 .. Len(chat) /\ Len(chat) \in Nat
  BY DEF CallTypeOK
<1>2. IsFiniteSet(DOMAIN chat)
  BY <1>1, FS_Interval
<1>3. IsFiniteSet(Sent(t))
  BY <1>2, FS_Subset DEF Sent
<1>4. IsFiniteSet(LateSends(t))
  BY FS_Subset DEF LateSends, CallTypeOK
<1> QED BY <1>3, <1>4, FS_CardinalityType DEF OnWire, Allowed
-----------------------------------------------------------------------------
(* A thread that goes on leaves the others where they are.                   *)
LEMMA GoesTypes ==
  ASSUME ThreadInv, NEW t \in Thread, NEW from, NEW to \in PC, Goes(t, from, to)
  PROVE  /\ pc' \in [Thread -> PC] /\ pc[t] = from /\ pc'[t] = to
         /\ \A u \in Thread \ {t} : pc'[u] = pc[u]
  BY DEF ThreadInv, ThreadTypeOK, Goes

(* A call is asked.                                                          *)
LEMMA AskKeeps ==
  ASSUME ThreadInv, NEW t \in Thread, NEW from, NEW to \in PC,
         NEW r \in Requests, r.by = t,
         Goes(t, from, to), Ask(t, r), UNCHANGED <<job, ids>>,
         to \in {"naming", "reporting", "editing", "path", "answering"},
         r.what = "send" <=> to \in {"reporting", "answering"},
         r.what = "edit" <=> to = "editing",
         PcFitsJob(t)',
         to \in Early => from \in Early,
         t = Main => ~Changes(r),
         r.what = "edit" => r.id \in MessageId(t),
         t # Main => Allowed(t) + (IF r.what = "send" THEN 1 ELSE 0) <= Allowed(t)'
  PROVE  ThreadInv'
<1>1. /\ CallTypeOK /\ ThreadTypeOK /\ MainSilent
      /\ \A u \in Thread : WireFitsPc(u) /\ PcFitsJob(u)
      /\ \A u \in Handler : NoEditYet(u) /\ ReplyIsOwn(u) /\ KnowsOwn(u)
      /\ \A u \in Handler : Tries(u) <= Allowed(u)
  BY DEF ThreadInv
<1>2. /\ CallTypeOK' /\ UNCHANGED <<late, chat>>
      /\ ~Waits(t) /\ Waits(t)' /\ Asked(t)' = r /\ wire'[t].state = "sent"
      /\ \A u \in Thread \ {t} : wire'[u] = wire[u]
  BY <1>1, AskCalls
<1>3. /\ pc' \in [Thread -> PC] /\ pc[t] = from /\ pc'[t] = to
      /\ \A u \in Thread \ {t} : pc'[u] = pc[u]
  BY GoesTypes
<1>4. ThreadTypeOK' /\ MainSilent'
  BY <1>1, <1>2, <1>3 DEF ThreadTypeOK, MainSilent
<1>5. \A u \in Thread : WireFitsPc(u)' /\ PcFitsJob(u)'
  BY <1>1, <1>2, <1>3 DEF WireFitsPc, PcFitsJob, Waits, Asked, IsExample
<1>6. \A u \in Handler : NoEditYet(u)'
  BY <1>1, <1>2, <1>3 DEF NoEditYet, Handler
<1>7. \A u \in Handler : ReplyIsOwn(u)'
  BY <1>1, <1>2, <1>3 DEF ReplyIsOwn, Handler
<1>8. \A u \in Handler : KnowsOwn(u)'
  <2> SUFFICES ASSUME NEW u \in Handler PROVE KnowsOwn(u)'
    OBVIOUS
  <2>1. MessageId(u)' = MessageId(u)
    BY SameMessageId
  <2>2. CASE u = t
    BY <1>1, <1>2, <2>1, <2>2 DEF KnowsOwn
  <2>3. CASE u # t
    BY <1>1, <1>2, <2>1, <2>3 DEF KnowsOwn, Handler, Waits, Asked
  <2> QED BY <2>2, <2>3
<1>9. ASSUME NEW u \in Handler PROVE (Tries(u) <= Allowed(u))'
  <2>1. Sent(u)' = Sent(u) /\ LateSends(u)' = LateSends(u)
    BY <1>2 DEF Sent, LateSends
  <2>2. CASE u = t
    <3>1. OnWire(t) = 0 /\ OnWire(t)' = IF r.what = "send" THEN 1 ELSE 0
      BY <1>1, <1>2, WireCases DEF OnWire, Asked, WireStates
    <3>2. Tries(t) \in Nat /\ Tries(t)' = Tries(t) + (IF r.what = "send" THEN 1 ELSE 0)
      BY <1>1, <2>1, <2>2, <3>1, Counted DEF Tries
    <3>3. Allowed(t) \in {0, 1, 2} /\ Allowed(t)' \in {0, 1, 2} /\ Tries(t) <= Allowed(t)
      BY <1>1, <2>2 DEF Allowed
    <3> QED BY <2>2, <3>2, <3>3 DEF Handler
  <2>3. CASE u # t
    <3>1. OnWire(u)' = OnWire(u) /\ Allowed(u)' = Allowed(u)
      BY <1>2, <1>3, <2>3 DEF OnWire, Asked, Allowed, IsExample, Handler
    <3> QED BY <1>1, <2>1, <3>1 DEF Tries
  <2> QED BY <2>2, <2>3
<1> QED BY <1>2, <1>4, <1>5, <1>6, <1>7, <1>8, <1>9 DEF ThreadInv

(* A call returns, and a reply tells the handler its message's id at most.   *)
LEMMA ReturnKeeps ==
  ASSUME ThreadInv, NEW t \in Thread, NEW from, NEW to \in PC \ Early, NEW result,
         Goes(t, from, to), Returns(t, result), UNCHANGED <<chat, job>>,
         ids' = ids \/ (/\ t # Main /\ from = "reporting" /\ result.answered
                        /\ ids' = [ids EXCEPT ![t] = result.id]),
         PcFitsJob(t)',
         t # Main => Allowed(t) <= Allowed(t)'
  PROVE  ThreadInv'
<1>1. /\ CallTypeOK /\ ThreadTypeOK /\ MainSilent
      /\ \A u \in Thread : WireFitsPc(u) /\ PcFitsJob(u)
      /\ \A u \in Handler : NoEditYet(u) /\ ReplyIsOwn(u) /\ KnowsOwn(u)
      /\ \A u \in Handler : Tries(u) <= Allowed(u)
  BY DEF ThreadInv
<1>2. /\ CallTypeOK' /\ Waits(t) /\ ~Waits(t)' /\ Asked(t) \in Requests
      /\ \A u \in Thread \ {t} : wire'[u] = wire[u]
      /\ \/ late' = late
         \/ late' = late \cup {Asked(t)} /\ wire[t].state = "sent" /\ Changes(Asked(t))
      /\ \/ result = Result(t) /\ wire[t].state = "acted"
         \/ result = Nothing
  BY <1>1, ReturnCalls
<1>3. /\ pc' \in [Thread -> PC] /\ pc[t] = from /\ pc'[t] = to
      /\ \A u \in Thread \ {t} : pc'[u] = pc[u]
  BY GoesTypes
<1>4. /\ Asked(t).by = t /\ wire'[t].state = "none"
      /\ \A u \in Thread : u # t => (Waits(u)' <=> Waits(u)) /\ Asked(u)' = Asked(u)
  BY <1>1, <1>2, WireCases DEF CallTypeOK, Waits, Asked, NotWaiting
<1>5. late' # late => t # Main
  BY <1>1, <1>2 DEF WireFitsPc, PcFitsJob, Changes
<1>6. ids' # ids => /\ t \in Handler /\ from = "reporting"
                    /\ ids' = [ids EXCEPT ![t] = wire[t].id]
                    /\ wire[t].id \in DOMAIN chat /\ chat[wire[t].id].by = t
                    /\ wire[t].id \in Nat /\ late' = late
  <2> SUFFICES ASSUME ids' # ids PROVE /\ t \in Handler /\ from = "reporting"
                    /\ ids' = [ids EXCEPT ![t] = wire[t].id]
                    /\ wire[t].id \in DOMAIN chat /\ chat[wire[t].id].by = t
                    /\ wire[t].id \in Nat /\ late' = late
    OBVIOUS
  <2>1. t \in Handler /\ from = "reporting" /\ result.answered
    BY DEF Handler
  <2>2. result = Result(t) /\ wire[t].state = "acted" /\ late' = late
    BY <1>2, <2>1 DEF Nothing
  <2> QED BY <1>1, <1>2, <1>3, <2>1, <2>2, WireCases DEF Result, ReplyIsOwn
<1>7. ThreadTypeOK'
  BY <1>1, <1>3, <1>6 DEF ThreadTypeOK
<1>8. MainSilent'
  BY <1>1, <1>2, <1>4, <1>5 DEF MainSilent
<1>9. \A u \in Thread : WireFitsPc(u)' /\ PcFitsJob(u)'
  BY <1>1, <1>2, <1>3, <1>4 DEF WireFitsPc, PcFitsJob, IsExample
<1>10. \A u \in Handler : u # t => ids'[u] = ids[u]
  BY <1>1, <1>6 DEF ThreadTypeOK
<1>11. \A u \in Handler : NoEditYet(u)'
  BY <1>1, <1>2, <1>3, <1>4, <1>10 DEF NoEditYet, Handler
<1>12. \A u \in Handler : ReplyIsOwn(u)'
  BY <1>1, <1>2, <1>3, <1>4 DEF ReplyIsOwn, Handler
<1>13. ASSUME NEW u \in Handler PROVE KnowsOwn(u)'
  <2>1. CASE u # t
    <3>1. MessageId(u)' = MessageId(u)
      BY <1>10, <2>1, SameMessageId
    <3> QED BY <1>1, <1>2, <1>4, <1>10, <2>1, <3>1 DEF KnowsOwn, Handler
  <2>2. CASE u = t /\ ids' # ids
    <3>1. /\ ids'[t] = wire[t].id /\ late' = late /\ pc[t] \in Early
      BY <1>1, <1>3, <1>6, <2>2 DEF ThreadTypeOK, Early
    <3> QED BY <1>1, <1>2, <1>6, <2>2, <3>1 DEF KnowsOwn, NoEditYet
  <2>3. CASE u = t /\ ids' = ids
    <3>1. MessageId(u)' = MessageId(u)
      BY <2>3, SameMessageId
    <3> QED BY <1>1, <1>2, <1>4, <2>3, <3>1 DEF KnowsOwn, Handler
  <2> QED BY <2>1, <2>2, <2>3
<1>14. ASSUME NEW u \in Handler PROVE (Tries(u) <= Allowed(u))'
  <2>1. Sent(u)' = Sent(u)
    BY DEF Sent
  <2>2. CASE u = t
    <3>1. OnWire(t)' = 0
      BY <1>4 DEF OnWire
    <3>2. Tries(t) \in Nat /\ Tries(t)' \in Nat /\ Tries(t)' <= Tries(t)
      <4>1. CASE /\ late' = late \cup {Asked(t)} /\ wire[t].state = "sent"
                 /\ Asked(t).what = "send"
        <5>1. LateSends(t)' = LateSends(t) \cup {Asked(t)} /\ OnWire(t) = 1
          BY <1>4, <4>1 DEF LateSends, OnWire
        <5>2. /\ Cardinality(LateSends(t)') \in Nat
              /\ Cardinality(LateSends(t)') <= Cardinality(LateSends(t)) + 1
          <6>1. /\ IsFiniteSet(LateSends(t)) /\ Cardinality(LateSends(t)) \in Nat
            BY <1>1, Counted
          <6>2. \/ Cardinality(LateSends(t) \cup {Asked(t)}) = Cardinality(LateSends(t))
                \/ Cardinality(LateSends(t) \cup {Asked(t)}) = Cardinality(LateSends(t)) + 1
            BY <6>1, FS_AddElement
          <6> QED BY <5>1, <6>1, <6>2
        <5> QED BY <1>1, <2>1, <2>2, <3>1, <5>1, <5>2, Counted DEF Tries
      <4>2. CASE ~(/\ late' = late \cup {Asked(t)} /\ wire[t].state = "sent"
                   /\ Asked(t).what = "send")
        <5>1. LateSends(t)' = LateSends(t)
          BY <1>2, <4>2 DEF LateSends
        <5> QED BY <1>1, <2>1, <2>2, <3>1, <5>1, Counted DEF Tries
      <4> QED BY <4>1, <4>2
    <3>3. Allowed(t) \in {0, 1, 2} /\ Allowed(t)' \in {0, 1, 2} /\ Tries(t) <= Allowed(t)
      BY <1>1, <2>2 DEF Allowed
    <3> QED BY <2>2, <3>2, <3>3 DEF Handler
  <2>3. CASE u # t
    <3>1. OnWire(u)' = OnWire(u) /\ Allowed(u)' = Allowed(u)
      BY <1>2, <1>3, <2>3 DEF OnWire, Asked, Allowed, IsExample, Handler
    <3>2. LateSends(u)' = LateSends(u)
      BY <1>2, <1>4, <2>3 DEF LateSends
    <3> QED BY <1>1, <2>1, <3>1, <3>2 DEF Tries
  <2> QED BY <2>2, <2>3
<1> QED BY <1>2, <1>7, <1>8, <1>9, <1>11, <1>12, <1>13, <1>14 DEF ThreadInv
(* A thread goes on without a call.                                          *)
LEMMA QuietKeeps ==
  ASSUME ThreadInv, NEW t \in Thread, NEW from, NEW to \in PC, Goes(t, from, to),
         from \notin {"naming", "reporting", "editing", "path", "answering"},
         to # "reporting", to \in Early => from \in Early,
         UNCHANGED <<wire, late, chat, ids>>,
         job' \in [Handler -> JobTypes], \A u \in Handler : u # t => job'[u] = job[u],
         PcFitsJob(t)',
         t # Main => Allowed(t) <= Allowed(t)'
  PROVE  ThreadInv'
<1>1. /\ CallTypeOK /\ ThreadTypeOK /\ MainSilent
      /\ \A u \in Thread : WireFitsPc(u) /\ PcFitsJob(u)
      /\ \A u \in Handler : NoEditYet(u) /\ ReplyIsOwn(u) /\ KnowsOwn(u)
      /\ \A u \in Handler : Tries(u) <= Allowed(u)
  BY DEF ThreadInv
<1>2. /\ pc' \in [Thread -> PC] /\ pc[t] = from /\ pc'[t] = to
      /\ \A u \in Thread \ {t} : pc'[u] = pc[u]
  BY GoesTypes
<1>3. CallTypeOK' /\ MainSilent'
  BY <1>1 DEF CallTypeOK, MainSilent, Waits, Asked
<1>4. ThreadTypeOK'
  BY <1>1, <1>2 DEF ThreadTypeOK
<1>5. \A u \in Thread : (Waits(u)' <=> Waits(u)) /\ Asked(u)' = Asked(u)
  BY DEF Waits, Asked
<1>6. ASSUME NEW u \in Thread PROVE WireFitsPc(u)' /\ PcFitsJob(u)'
  <2>1. CASE u = t
    BY <1>1, <1>2, <1>5, <2>1 DEF WireFitsPc
  <2>2. CASE u # t
    BY <1>1, <1>2, <1>5, <2>2 DEF WireFitsPc, PcFitsJob, IsExample, Handler
  <2> QED BY <2>1, <2>2
<1>7. \A u \in Handler : NoEditYet(u)'
  BY <1>1, <1>2 DEF NoEditYet, Handler
<1>8. \A u \in Handler : ReplyIsOwn(u)'
  BY <1>1, <1>2 DEF ReplyIsOwn, Handler
<1>9. \A u \in Handler : KnowsOwn(u)'
  BY <1>1, <1>5, SameMessageId DEF KnowsOwn, Handler
<1>10. ASSUME NEW u \in Handler PROVE (Tries(u) <= Allowed(u))'
  <2>1. Tries(u)' = Tries(u) /\ Tries(u) \in Nat
    <3>1. Sent(u)' = Sent(u) /\ LateSends(u)' = LateSends(u) /\ OnWire(u)' = OnWire(u)
      BY DEF Sent, LateSends, OnWire, Asked
    <3> QED BY <1>1, <3>1, Counted DEF Tries
  <2>2. CASE u = t
    <3>1. Allowed(t) \in {0, 1, 2} /\ Allowed(t)' \in {0, 1, 2} /\ Tries(t) <= Allowed(t)
      BY <1>1, <2>2 DEF Allowed
    <3> QED BY <2>1, <2>2, <3>1 DEF Handler
  <2>3. CASE u # t
    <3>1. Allowed(u)' = Allowed(u)
      BY <1>2, <2>3 DEF Allowed, IsExample, Handler
    <3> QED BY <1>1, <2>1, <3>1
  <2> QED BY <2>2, <2>3
<1> QED BY <1>3, <1>4, <1>6, <1>7, <1>8, <1>9, <1>10 DEF ThreadInv

-----------------------------------------------------------------------------
(* What a request that is carried out does to the messages, when the thread  *)
(* that asked for it is not the main one and edits the message its id names. *)
LEMMA CarriedMessages ==
  ASSUME ThreadInv, NEW r \in Requests, Possible(r), chat' = Carried(r),
         Changes(r) => r.by # Main,
         r.what = "edit" => pc[r.by] \notin Early /\ r.id \in MessageId(r.by)
  PROVE  /\ \A i \in DOMAIN chat : i \in DOMAIN chat' /\ chat'[i].by = chat[i].by
         /\ \A i \in DOMAIN chat' : chat'[i].by # Main /\ Main \notin chat'[i].editors
         /\ \A u \in Handler : pc[u] \in Early =>
              \A i \in DOMAIN chat' : u \notin chat'[i].editors
         /\ \A u \in Handler : \A i \in DOMAIN chat' :
              u \in chat'[i].editors => i \in MessageId(u)
         /\ r.what = "send" => Len(chat') \in DOMAIN chat' /\ chat'[Len(chat')].by = r.by
         /\ \A u : Sent(u)' = IF r.what = "send" /\ r.by = u
                              THEN Sent(u) \cup {Len(chat) + 1} ELSE Sent(u)
<1>1. /\ CallTypeOK /\ MainSilent /\ chat \in Seq(Messages)
      /\ \A u \in Handler : NoEditYet(u) /\ KnowsOwn(u)
  BY DEF ThreadInv, CallTypeOK
<1>2. r.by \in Thread
  BY DEF Requests
<1>3. CASE r.what = "send"
  <2>1. chat' = Append(chat, [by |-> r.by, editors |-> {}]) /\ r.by # Main
    BY <1>1, <1>3, CarriedCases DEF Changes
  <2>2. /\ Len(chat) \in Nat /\ DOMAIN chat = 1 .. Len(chat)
        /\ Len(chat') = Len(chat) + 1 /\ DOMAIN chat' = 1 .. Len(chat) + 1
        /\ \A i \in DOMAIN chat : i \in DOMAIN chat' /\ chat'[i] = chat[i]
        /\ chat'[Len(chat) + 1] = [by |-> r.by, editors |-> {}]
    BY <1>1, <2>1
  <2>3. \A i \in DOMAIN chat' : i \in DOMAIN chat \/ i = Len(chat) + 1
    BY <2>2
  <2>4. \A u : Sent(u)' = IF r.by = u THEN Sent(u) \cup {Len(chat) + 1} ELSE Sent(u)
    BY <2>2, <2>3 DEF Sent
  <2> QED BY <1>1, <1>3, <2>1, <2>2, <2>3, <2>4 DEF MainSilent, NoEditYet, KnowsOwn
<1>4. CASE r.what = "edit"
  <2>1. r.id \in DOMAIN chat /\ chat' = [chat EXCEPT ![r.id].editors = @ \cup {r.by}]
    BY <1>1, <1>4, CarriedCases
  <2>2. \A i \in DOMAIN chat : chat[i] \in Messages
    BY <1>1
  <2>3. /\ DOMAIN chat' = DOMAIN chat
        /\ \A i \in DOMAIN chat : i # r.id => chat'[i] = chat[i]
        /\ chat'[r.id] = [chat[r.id] EXCEPT !.editors = @ \cup {r.by}]
    BY <1>1, <2>1
  <2>4. chat'[r.id].by = chat[r.id].by /\ chat'[r.id].editors = chat[r.id].editors \cup {r.by}
    BY <2>1, <2>2, <2>3 DEF Messages
  <2>5. \A u : Sent(u)' = Sent(u)
    BY <2>3, <2>4, ZenonT(60) DEF Sent
  <2>6. r.by \in Handler
    BY <1>2, <1>4 DEF Changes, Handler
  <2>7. r.id \in MessageId(r.by)
    BY <1>4
  <2>8. \A u \in Handler : pc[u] \in Early => u # r.by
    BY <1>4
  <2>9. \A u \in Handler : pc[u] \in Early =>
          \A i \in DOMAIN chat' : u \notin chat'[i].editors
    <3> SUFFICES ASSUME NEW u \in Handler, pc[u] \in Early, NEW i \in DOMAIN chat
                 PROVE  u \notin chat'[i].editors
      BY <2>3
    <3>1. u \notin chat[i].editors /\ u # r.by
      BY <1>1, <2>8 DEF NoEditYet
    <3> QED BY ONLY <2>3, <2>4, <3>1, i \in DOMAIN chat
  <2>10. \A u \in Handler : \A i \in DOMAIN chat' :
           u \in chat'[i].editors => i \in MessageId(u)
    <3> SUFFICES ASSUME NEW u \in Handler, NEW i \in DOMAIN chat, u \in chat'[i].editors
                 PROVE  i \in MessageId(u)
      BY <2>3
    <3>1. u \in chat[i].editors => i \in MessageId(u)
      BY <1>1 DEF KnowsOwn
    <3>2. CASE i = r.id
      <4>1. u \in chat[i].editors \/ u = r.by
        BY <2>4, <3>2
      <4> QED BY <2>7, <3>1, <3>2, <4>1
    <3>3. CASE i # r.id
      BY <2>3, <3>1, <3>3
    <3> QED BY <3>2, <3>3
  <2>11. \A i \in DOMAIN chat : i \in DOMAIN chat' /\ chat'[i].by = chat[i].by
    BY <2>3, <2>4
  <2>12. \A i \in DOMAIN chat' : chat'[i].by # Main /\ Main \notin chat'[i].editors
    <3> SUFFICES ASSUME NEW i \in DOMAIN chat
                 PROVE  chat'[i].by # Main /\ Main \notin chat'[i].editors
      BY <2>3
    <3>1. chat[i].by # Main /\ Main \notin chat[i].editors
      BY <1>1 DEF MainSilent
    <3> QED BY <2>3, <2>4, <2>6, <3>1 DEF Handler
  <2> QED BY ONLY <1>4, <2>5, <2>9, <2>10, <2>11, <2>12
<1>5. CASE ~Changes(r)
  <2>1. chat' = chat
    BY <1>1, <1>5, CarriedCases
  <2>2. \A u : Sent(u)' = Sent(u)
    BY <2>1 DEF Sent
  <2> QED BY <1>1, <1>5, <2>1, <2>2 DEF MainSilent, NoEditYet, KnowsOwn, Changes
<1> QED BY <1>3, <1>4, <1>5 DEF Changes
(* What the server does while the threads stay where they are, ...           *)
LEMMA ServerActsKeeps ==
  ASSUME ThreadInv, NEW t \in Thread, ServerActs(t), UNCHANGED <<pc, job, ids>>
  PROVE  ThreadInv'
<1> DEFINE r == Asked(t)
<1>1. /\ CallTypeOK /\ ThreadTypeOK /\ MainSilent
      /\ \A u \in Thread : WireFitsPc(u) /\ PcFitsJob(u)
      /\ \A u \in Handler : NoEditYet(u) /\ ReplyIsOwn(u) /\ KnowsOwn(u)
      /\ \A u \in Handler : Tries(u) <= Allowed(u)
  BY DEF ThreadInv
<1>2. /\ CallTypeOK' /\ Waits(t) /\ r \in Requests /\ wire[t].state = "sent"
      /\ Possible(r) /\ chat' = Carried(r) /\ late' = late
      /\ wire'[t] = [state |-> "acted", request |-> r, id |-> Len(chat')]
      /\ \A u \in Thread \ {t} : wire'[u] = wire[u]
  BY <1>1, ActsCalls
<1>3. r.by = t /\ WireFitsPc(t) /\ PcFitsJob(t)
  BY <1>1, <1>2 DEF CallTypeOK
<1>4. Changes(r) => t \in Handler
  BY <1>2, <1>3 DEF WireFitsPc, PcFitsJob, Changes, Handler
<1>5. r.what = "edit" => pc[t] \notin Early /\ r.id \in MessageId(t)
  BY <1>1, <1>2, <1>3, <1>4 DEF WireFitsPc, KnowsOwn, Changes, Early
<1>6. /\ \A i \in DOMAIN chat : i \in DOMAIN chat' /\ chat'[i].by = chat[i].by
      /\ \A i \in DOMAIN chat' : chat'[i].by # Main /\ Main \notin chat'[i].editors
      /\ \A u \in Handler : pc[u] \in Early =>
           \A i \in DOMAIN chat' : u \notin chat'[i].editors
      /\ \A u \in Handler : \A i \in DOMAIN chat' :
           u \in chat'[i].editors => i \in MessageId(u)
      /\ r.what = "send" => Len(chat') \in DOMAIN chat' /\ chat'[Len(chat')].by = r.by
      /\ \A u : Sent(u)' = IF r.what = "send" /\ r.by = u
                           THEN Sent(u) \cup {Len(chat) + 1} ELSE Sent(u)
  BY <1>2, <1>3, <1>4, <1>5, CarriedMessages DEF Handler
<1>7. /\ Waits(t)' /\ Asked(t)' = r /\ wire'[t].state = "acted" /\ wire'[t].id = Len(chat')
      /\ \A u \in Thread : (Waits(u)' <=> Waits(u)) /\ (Waits(u) => Asked(u)' = Asked(u))
  BY <1>2 DEF Waits, Asked, NotWaiting
<1>8. ThreadTypeOK' /\ MainSilent'
  BY <1>1, <1>2, <1>6 DEF ThreadTypeOK, MainSilent
<1>9. \A u \in Thread : WireFitsPc(u)' /\ PcFitsJob(u)'
  BY <1>1, <1>7 DEF WireFitsPc, PcFitsJob, IsExample
<1>10. \A u \in Handler : NoEditYet(u)'
  BY <1>1, <1>2, <1>6 DEF NoEditYet
<1>11. ASSUME NEW u \in Handler PROVE ReplyIsOwn(u)'
  <2>1. CASE u = t
    <3>1. pc[t] = "reporting" => r.what = "send"
      BY <1>2, <1>3 DEF WireFitsPc
    <3> QED BY <1>3, <1>6, <1>7, <2>1, <3>1 DEF ReplyIsOwn
  <2>2. CASE u # t
    BY <1>1, <1>2, <1>6, <2>2 DEF ReplyIsOwn, Handler
  <2> QED BY <2>1, <2>2
<1>12. \A u \in Handler : KnowsOwn(u)'
  BY <1>1, <1>2, <1>6, <1>7, SameMessageId DEF KnowsOwn, Handler
<1>13. ASSUME NEW u \in Handler PROVE (Tries(u) <= Allowed(u))'
  <2>1. LateSends(u)' = LateSends(u) /\ Allowed(u)' = Allowed(u)
    BY <1>2 DEF LateSends, Allowed, IsExample
  <2>2. Tries(u) \in Nat /\ Tries(u)' \in Nat /\ Tries(u)' <= Tries(u)
    <3>1. CASE u = t /\ r.what = "send"
      <4>1. Sent(u)' = Sent(u) \cup {Len(chat) + 1} /\ OnWire(u) = 1 /\ OnWire(u)' = 0
        BY <1>2, <1>3, <1>6, <1>7, <3>1 DEF OnWire
      <4>2. /\ Cardinality(Sent(u)') \in Nat
            /\ Cardinality(Sent(u)') <= Cardinality(Sent(u)) + 1
        <5>1. IsFiniteSet(Sent(u)) /\ Cardinality(Sent(u)) \in Nat
          BY <1>1, Counted
        <5>2. \/ Cardinality(Sent(u) \cup {Len(chat) + 1}) = Cardinality(Sent(u))
              \/ Cardinality(Sent(u) \cup {Len(chat) + 1}) = Cardinality(Sent(u)) + 1
          BY <5>1, FS_AddElement
        <5> QED BY <4>1, <5>1, <5>2
      <4> QED BY <1>1, <2>1, <4>1, <4>2, Counted DEF Tries
    <3>2. CASE ~(u = t /\ r.what = "send")
      <4>1. Sent(u)' = Sent(u)
        BY <1>3, <1>6, <3>2
      <4>2. OnWire(u) \in {0, 1} /\ OnWire(u)' \in {0, 1} /\ OnWire(u)' <= OnWire(u)
        BY <1>2, <1>7 DEF OnWire, Asked, Handler
      <4> QED BY <1>1, <2>1, <4>1, <4>2, Counted DEF Tries
    <3> QED BY <3>1, <3>2
  <2> QED BY <1>1, <2>1, <2>2, Counted
<1> QED BY <1>2, <1>8, <1>9, <1>10, <1>11, <1>12, <1>13 DEF ThreadInv

LEMMA ServerRefusesKeeps ==
  ASSUME ThreadInv, NEW t \in Thread, ServerRefuses(t), UNCHANGED <<pc, job, ids>>
  PROVE  ThreadInv'
<1>1. /\ CallTypeOK /\ ThreadTypeOK /\ MainSilent
      /\ \A u \in Thread : WireFitsPc(u) /\ PcFitsJob(u)
      /\ \A u \in Handler : NoEditYet(u) /\ ReplyIsOwn(u) /\ KnowsOwn(u)
      /\ \A u \in Handler : Tries(u) <= Allowed(u)
  BY DEF ThreadInv
<1>2. /\ CallTypeOK' /\ UNCHANGED <<late, chat>>
      /\ Waits(t) /\ Asked(t) \in Requests /\ wire[t].state = "sent"
      /\ wire'[t].state = "refused" /\ Asked(t)' = Asked(t) /\ Waits(t)'
      /\ \A u \in Thread \ {t} : wire'[u] = wire[u]
  BY <1>1, RefusesCalls
<1>3. \A u \in Thread : (Waits(u)' <=> Waits(u)) /\ Asked(u)' = Asked(u)
  BY <1>2 DEF Waits, Asked
<1>4. ThreadTypeOK' /\ MainSilent'
  BY <1>1, <1>2 DEF ThreadTypeOK, MainSilent
<1>5. \A u \in Thread : WireFitsPc(u)' /\ PcFitsJob(u)'
  BY <1>1, <1>3 DEF WireFitsPc, PcFitsJob, IsExample
<1>6. \A u \in Handler : NoEditYet(u)' /\ ReplyIsOwn(u)' /\ KnowsOwn(u)'
  BY <1>1, <1>2, <1>3, SameMessageId DEF NoEditYet, ReplyIsOwn, KnowsOwn, Handler
<1>7. ASSUME NEW u \in Handler PROVE (Tries(u) <= Allowed(u))'
  <2>1. /\ Sent(u)' = Sent(u) /\ LateSends(u)' = LateSends(u) /\ Allowed(u)' = Allowed(u)
    BY <1>2 DEF Sent, LateSends, Allowed, IsExample
  <2>2. OnWire(u) \in {0, 1} /\ OnWire(u)' \in {0, 1} /\ OnWire(u)' <= OnWire(u)
    BY <1>2 DEF OnWire, Asked, Handler
  <2>3. Tries(u) \in Nat /\ Tries(u)' \in Nat /\ Tries(u)' <= Tries(u)
    BY <1>1, <2>1, <2>2, Counted DEF Tries
  <2> QED BY <1>1, <2>1, <2>3, Counted
<1> QED BY <1>2, <1>4, <1>5, <1>6, <1>7 DEF ThreadInv

(* ... and what it does late, about a request nobody waits for.              *)
LEMMA ServerLateKeeps ==
  ASSUME ThreadInv, ServerActsLate, UNCHANGED <<pc, job, ids>>
  PROVE  ThreadInv'
<1>1. /\ CallTypeOK /\ ThreadTypeOK /\ MainSilent
      /\ \A u \in Thread : WireFitsPc(u) /\ PcFitsJob(u)
      /\ \A u \in Handler : NoEditYet(u) /\ ReplyIsOwn(u) /\ KnowsOwn(u)
      /\ \A u \in Handler : Tries(u) <= Allowed(u)
  BY DEF ThreadInv
<1>2. CallTypeOK' /\ wire' = wire
  BY <1>1, ActsLateCalls
<1>3. PICK r \in late : /\ r \in Requests /\ late' = late \ {r}
                        /\ Possible(r) /\ chat' = Carried(r)
  BY <1>1, ActsLateCalls
<1>4. r.by \in Handler
  BY <1>1, <1>3 DEF MainSilent, Requests, Handler
<1>5. r.what = "edit" => pc[r.by] \notin Early /\ r.id \in MessageId(r.by)
  BY <1>1, <1>3, <1>4 DEF NoEditYet, KnowsOwn
<1>6. /\ \A i \in DOMAIN chat : i \in DOMAIN chat' /\ chat'[i].by = chat[i].by
      /\ \A i \in DOMAIN chat' : chat'[i].by # Main /\ Main \notin chat'[i].editors
      /\ \A u \in Handler : pc[u] \in Early =>
           \A i \in DOMAIN chat' : u \notin chat'[i].editors
      /\ \A u \in Handler : \A i \in DOMAIN chat' :
           u \in chat'[i].editors => i \in MessageId(u)
      /\ \A u : Sent(u)' = IF r.what = "send" /\ r.by = u
                           THEN Sent(u) \cup {Len(chat) + 1} ELSE Sent(u)
  BY <1>3, <1>4, <1>5, CarriedMessages DEF Handler
<1>7. \A u \in Thread : (Waits(u)' <=> Waits(u)) /\ Asked(u)' = Asked(u)
  BY <1>2 DEF Waits, Asked
<1>8. ThreadTypeOK' /\ MainSilent'
  BY <1>1, <1>3, <1>6 DEF ThreadTypeOK, MainSilent
<1>9. \A u \in Thread : WireFitsPc(u)' /\ PcFitsJob(u)'
  BY <1>1, <1>7 DEF WireFitsPc, PcFitsJob, IsExample
<1>10. \A u \in Handler : NoEditYet(u)' /\ ReplyIsOwn(u)' /\ KnowsOwn(u)'
  BY <1>1, <1>2, <1>3, <1>6, <1>7, SameMessageId
     DEF NoEditYet, ReplyIsOwn, KnowsOwn, Handler
<1>11. ASSUME NEW u \in Handler PROVE (Tries(u) <= Allowed(u))'
  <2>1. OnWire(u)' = OnWire(u) /\ Allowed(u)' = Allowed(u)
    BY <1>2 DEF OnWire, Asked, Allowed, IsExample
  <2>2. Tries(u) \in Nat /\ Tries(u)' \in Nat /\ Tries(u)' <= Tries(u)
    <3>1. CASE r.by = u /\ r.what = "send"
      <4>1. /\ Sent(u)' = Sent(u) \cup {Len(chat) + 1}
            /\ r \in LateSends(u) /\ LateSends(u)' = LateSends(u) \ {r}
        BY <1>3, <1>6, <3>1 DEF LateSends
      <4>2. /\ IsFiniteSet(Sent(u)) /\ Cardinality(Sent(u)) \in Nat
            /\ IsFiniteSet(LateSends(u)) /\ Cardinality(LateSends(u)) \in Nat
        BY <1>1, Counted
      <4>3. \/ Cardinality(Sent(u) \cup {Len(chat) + 1}) = Cardinality(Sent(u))
            \/ Cardinality(Sent(u) \cup {Len(chat) + 1}) = Cardinality(Sent(u)) + 1
        BY <4>2, FS_AddElement
      <4>4. /\ Cardinality(LateSends(u) \ {r}) = Cardinality(LateSends(u)) - 1
            /\ Cardinality(LateSends(u) \ {r}) \in Nat
        BY <4>1, <4>2, FS_RemoveElement, FS_CardinalityType
      <4>5. /\ Cardinality(Sent(u)') \in Nat /\ Cardinality(LateSends(u)') \in Nat
            /\ Cardinality(Sent(u)') <= Cardinality(Sent(u)) + 1
            /\ Cardinality(LateSends(u)') = Cardinality(LateSends(u)) - 1
        BY ONLY <4>1, <4>2, <4>3, <4>4
      <4>6. OnWire(u) \in {0, 1}
        BY <1>1, Counted
      <4> QED BY ONLY <2>1, <4>2, <4>5, <4>6 DEF Tries
    <3>2. CASE ~(r.by = u /\ r.what = "send")
      <4>1. Sent(u)' = Sent(u) /\ LateSends(u)' = LateSends(u)
        BY <1>3, <1>6, <3>2 DEF LateSends
      <4> QED BY <1>1, <2>1, <4>1, Counted DEF Tries
    <3> QED BY <3>1, <3>2
  <2> QED BY <1>1, <2>1, <2>2, Counted
<1> QED BY <1>2, <1>8, <1>9, <1>10, <1>11 DEF ThreadInv
-----------------------------------------------------------------------------
(* The steps of the threads.                                                 *)
LEMMA RequestFields ==
  ASSUME NEW what \in {"send", "edit", "getMe", "getFile"}, NEW t \in Thread, NEW id \in Int
  PROVE  /\ Request(what, t, id) \in Requests
         /\ Request(what, t, id).what = what
         /\ Request(what, t, id).by = t /\ Request(what, t, id).id = id
  BY DEF Request, Requests

LEMMA AskNameKeeps ==
  ASSUME ThreadInv, NEW t \in Thread, AskName(t)
  PROVE  ThreadInv'
<1> USE DEF OnlyPc
<1>1. CASE Goes(t, "name", "naming") /\ AsksUsername(t, Request("getMe", t, 0)) /\ OnlyPc
  <2>1. /\ Goes(t, "name", "naming") /\ Ask(t, Request("getMe", t, 0))
        /\ UNCHANGED <<job, ids>>
    BY <1>1 DEF AsksUsername
  <2>2. pc[t] = "name" /\ pc'[t] = "naming" /\ "naming" \in PC
    BY <2>1, GoesTypes DEF PC
  <2>3. PcFitsJob(t)'
    BY <2>2 DEF PcFitsJob
  <2>4. t # Main => Allowed(t) <= Allowed(t)' /\ Allowed(t) \in {0, 1, 2}
    BY <2>1, <2>2 DEF Allowed, IsExample
  <2> QED BY <2>1, <2>2, <2>3, <2>4, AskKeeps, RequestFields DEF Early, Changes
<1>2. CASE Goes(t, "name", "done") /\ username /\ UNCHANGED api_vars /\ OnlyPc
  <2>1. /\ Goes(t, "name", "done") /\ UNCHANGED <<wire, late, chat, ids, job>>
    BY <1>2 DEF api_vars
  <2>2. pc[t] = "name" /\ pc'[t] = "done" /\ "done" \in PC
    BY <2>1, GoesTypes DEF PC
  <2>3. PcFitsJob(t)'
    BY <2>2 DEF PcFitsJob
  <2>4. t # Main => Allowed(t) <= Allowed(t)'
    BY <2>1, <2>2 DEF Allowed, IsExample
  <2>5. job' \in [Handler -> JobTypes]
    BY <2>1 DEF ThreadInv, ThreadTypeOK
  <2> QED BY <2>1, <2>2, <2>3, <2>4, <2>5, QuietKeeps DEF Early
<1> QED BY <1>1, <1>2 DEF AskName

LEMMA NamedKeeps ==
  ASSUME ThreadInv, NEW t \in Thread, Named(t)
  PROVE  ThreadInv'
<1>1. PICK result : Returns(t, result) /\ UNCHANGED chat
  BY DEF Named, botGetUsername
<1>2. Goes(t, "naming", "done") /\ UNCHANGED <<job, ids>>
  BY DEF Named, OnlyPc
<1>3. pc[t] = "naming" /\ pc'[t] = "done" /\ "done" \in PC \ Early
  BY <1>2, GoesTypes DEF PC, Early
<1>4. PcFitsJob(t)'
  BY <1>3 DEF PcFitsJob
<1>5. t # Main => Allowed(t) <= Allowed(t)'
  BY <1>2, <1>3 DEF Allowed, IsExample
<1> QED BY <1>1, <1>2, <1>3, <1>4, <1>5, ReturnKeeps

LEMMA StartKeeps ==
  ASSUME ThreadInv, NEW t \in Handler, StartHandler(t)
  PROVE  ThreadInv'
<1>1. PICK j \in Jobs[t] : job' = [job EXCEPT ![t] = j] /\ Goes(t, "idle", j.does)
  BY DEF StartHandler
<1>2. IsJob(j) /\ t \in Thread /\ t # Main
  BY <1>1, MyBotAssumption DEF Handler
<1>3. /\ j \in JobTypes /\ j.does \in {"example", "image", "name", "file"}
  BY <1>2 DEF IsJob, JobTypes
<1>4. UNCHANGED <<wire, late, chat, ids>> /\ job \in [Handler -> JobTypes]
  BY DEF StartHandler, api_vars, ThreadInv, ThreadTypeOK
<1>5. /\ job' \in [Handler -> JobTypes] /\ job'[t] = j
      /\ \A u \in Handler : u # t => job'[u] = job[u]
  BY <1>1, <1>3, <1>4
<1>6. j.does \in PC /\ pc[t] = "idle" /\ pc'[t] = j.does
  <2>1. j.does \in PC
    BY <1>3 DEF PC
  <2> QED BY <1>1, <1>2, <2>1, GoesTypes
<1>7. PcFitsJob(t)'
  BY <1>2, <1>3, <1>5, <1>6 DEF PcFitsJob, IsExample
<1>8. Allowed(t) <= Allowed(t)'
  <2>1. job[t].does = "none"
    BY <1>2, <1>6 DEF ThreadInv, PcFitsJob
  <2>2. Allowed(t) = 0
    BY <2>1 DEF Allowed, IsExample
  <2>3. Allowed(t)' \in {0, 1, 2}
    BY DEF Allowed
  <2> QED BY <2>2, <2>3
<1>9. "idle" \in Early /\ "idle" \notin {"naming", "reporting", "editing", "path", "answering"}
  BY DEF Early
<1> QED BY <1>1, <1>2, <1>3, <1>4, <1>5, <1>6, <1>7, <1>8, <1>9, QuietKeeps

(* The calls that ask, one by one.                                           *)
LEMMA AsksKeep ==
  ASSUME ThreadInv, NEW t \in Handler,
         \/ Report(t) \/ Edit(t) \/ AskFile(t) \/ Fact(t) \/ Question(t) \/ botSendImage(t)
  PROVE  ThreadInv'
<1> USE DEF OnlyPc, Calls
<1>1. t \in Thread /\ t # Main /\ PcFitsJob(t) /\ ids[t] \in Nat
  BY DEF Handler, ThreadInv, ThreadTypeOK
<1>2. ASSUME NEW from, NEW to \in {"reporting", "editing", "path", "answering"},
             NEW what \in {"send", "edit", "getFile"}, NEW id \in Int,
             Goes(t, from, to), Ask(t, Request(what, t, id)), UNCHANGED <<job, ids>>,
             what = "send" <=> to \in {"reporting", "answering"},
             what = "edit" <=> to = "editing",
             to = "reporting" => from = "example",
             what = "edit" => id \in MessageId(t),
             to \in {"reporting", "editing"} => IsExample(t),
             to = "answering" => job[t].does = "image" \/ (IsExample(t) /\ job[t].words # "other"),
             Allowed(t) + (IF what = "send" THEN 1 ELSE 0) <= Allowed(t)'
      PROVE  ThreadInv'
  <2>1. to \in PC
    BY DEF PC
  <2>2. pc'[t] = to /\ job'[t] = job[t]
    BY <1>1, <1>2, <2>1, GoesTypes
  <2>3. PcFitsJob(t)'
    BY <1>1, <1>2, <2>2 DEF PcFitsJob, IsExample
  <2>4. /\ Request(what, t, id) \in Requests
        /\ Request(what, t, id).what = what
        /\ Request(what, t, id).by = t /\ Request(what, t, id).id = id
    BY <1>1, RequestFields
  <2>5. to \in Early => from \in Early
    BY <1>2 DEF Early
  <2> QED BY <1>1, <1>2, <2>1, <2>3, <2>4, <2>5, AskKeeps
<1>3. ASSUME NEW from, NEW to \in PC, Goes(t, from, to), UNCHANGED job
      PROVE  /\ pc[t] = from /\ pc'[t] = to
             /\ (IsExample(t)' <=> IsExample(t)) /\ job'[t] = job[t]
  BY <1>1, <1>3, GoesTypes DEF IsExample
<1>4. CASE Report(t)
  <2>1. Goes(t, "example", "reporting") /\ Ask(t, Request("send", t, 1)) /\ UNCHANGED <<job, ids>>
    BY <1>4 DEF Report
  <2>2. "reporting" \in PC
    BY DEF PC
  <2>3. pc[t] = "example" /\ pc'[t] = "reporting" /\ IsExample(t) /\ IsExample(t)'
    BY <1>1, <1>3, <2>1, <2>2 DEF PcFitsJob
  <2>4. Allowed(t) = 0 /\ Allowed(t)' = 1
    BY <2>3 DEF Allowed
  <2> QED BY <1>2, <2>1, <2>3, <2>4
<1>5. CASE Edit(t)
  <2>1. PICK id \in MessageId(t) :
          /\ Goes(t, "reported", "editing") /\ Ask(t, Request("edit", t, id))
          /\ UNCHANGED <<job, ids>>
    BY <1>5 DEF Edit
  <2>2. "editing" \in PC /\ id \in Int
    <3>1. PICK n \in IF ids[t] = 0 THEN Stack ELSE {ids[t]} : id = AsInt(n)
      BY DEF MessageId
    <3> QED BY <1>1, <3>1, MyBotAssumption, IntIds DEF PC
  <2>3. pc[t] = "reported" /\ pc'[t] = "editing" /\ IsExample(t) /\ IsExample(t)'
    BY <1>1, <1>3, <2>1, <2>2 DEF PcFitsJob
  <2>4. Allowed(t) = 1 /\ Allowed(t)' = 1
    BY <2>3 DEF Allowed
  <2> QED BY <1>2, <2>1, <2>2, <2>3, <2>4
<1>6. CASE AskFile(t)
  <2>1. PICK from \in {"audio", "file"} :
          /\ Goes(t, from, "path") /\ Ask(t, Request("getFile", t, 0)) /\ UNCHANGED <<job, ids>>
    BY <1>6 DEF AskFile
  <2>2. "path" \in PC
    BY DEF PC
  <2>3. /\ pc[t] \in {"audio", "file"} /\ pc'[t] = "path" /\ (IsExample(t)' <=> IsExample(t))
        /\ job'[t] = job[t]
    BY <1>3, <2>1, <2>2
  <2>4. Allowed(t)' = Allowed(t) /\ Allowed(t) \in {0, 1, 2}
    BY <2>3 DEF Allowed
  <2> QED BY <1>2, <2>1, <2>4
<1>7. CASE Fact(t) \/ Question(t)
  <2>1. /\ Goes(t, "words", "answering") /\ Ask(t, Request("send", t, 2))
        /\ UNCHANGED <<job, ids>> /\ IsExample(t) /\ job[t].words # "other"
    BY <1>7 DEF Fact, Question
  <2>2. "answering" \in PC
    BY DEF PC
  <2>3. /\ pc[t] = "words" /\ pc'[t] = "answering" /\ IsExample(t)' /\ job'[t] = job[t]
    BY <1>3, <2>1, <2>2
  <2>4. Allowed(t) = 1 /\ Allowed(t)' = 2
    BY <2>1, <2>3 DEF Allowed
  <2> QED BY <1>2, <2>1, <2>4
<1>8. CASE botSendImage(t)
  <2>1. Goes(t, "image", "answering") /\ Ask(t, Request("send", t, 1)) /\ UNCHANGED <<job, ids>>
    BY <1>8 DEF botSendImage
  <2>2. "answering" \in PC
    BY DEF PC
  <2>3. /\ pc[t] = "image" /\ pc'[t] = "answering" /\ job'[t] = job[t] /\ job[t].does = "image"
    BY <1>1, <1>3, <2>1, <2>2 DEF PcFitsJob
  <2>4. Allowed(t) = 0 /\ Allowed(t)' = 1
    BY <2>3 DEF Allowed, IsExample
  <2> QED BY <1>2, <2>1, <2>3, <2>4
<1> QED BY <1>4, <1>5, <1>6, <1>7, <1>8
(* The calls that return, one by one.                                        *)
LEMMA ReturnsKeep ==
  ASSUME ThreadInv, NEW t \in Handler,
         Reported(t) \/ Edited(t) \/ NoFilePath(t) \/ FilePath(t) \/ Answered(t)
  PROVE  ThreadInv'
<1>1. t \in Thread /\ t # Main /\ PcFitsJob(t)
  BY DEF Handler, ThreadInv
<1>2. ASSUME NEW from \in {"reporting", "editing", "path", "answering"},
             NEW to \in {"reported", "audio", "words", "opening", "done"},
             NEW result, Goes(t, from, to), Returns(t, result), UNCHANGED <<chat, job>>,
             ids' = ids \/ (/\ from = "reporting" /\ result.answered
                            /\ ids' = [ids EXCEPT ![t] = result.id]),
             to \in {"reported", "audio", "words"} => IsExample(t),
             to = "done" => from = "answering" \/ ~IsExample(t),
             from = "answering" => to = "done"
      PROVE  ThreadInv'
  <2>1. to \in PC \ Early
    BY DEF PC, Early
  <2>2. pc[t] = from /\ pc'[t] = to /\ job'[t] = job[t]
    BY <1>1, <1>2, <2>1, GoesTypes
  <2>3. PcFitsJob(t)'
    BY <1>1, <1>2, <2>2 DEF PcFitsJob, IsExample
  <2>4. Allowed(t) <= Allowed(t)'
    BY <1>2, <2>2 DEF Allowed, IsExample
  <2> QED BY <1>1, <1>2, <2>1, <2>3, <2>4, ReturnKeeps
<1>3. ASSUME NEW from \in PC, NEW to \in PC, Goes(t, from, to)
      PROVE  pc[t] = from
  BY <1>1, <1>3, GoesTypes
<1>4. CASE Reported(t)
  <2>1. PICK result : CallReturns(t, result) /\ Remember(t, result)
    BY <1>4 DEF Reported
  <2>2. /\ Goes(t, "reporting", "reported") /\ Returns(t, result) /\ UNCHANGED <<chat, job>>
        /\ ids' = ids \/ (result.answered /\ ids' = [ids EXCEPT ![t] = result.id])
    BY <1>4, <2>1 DEF Reported, CallReturns, Remember
  <2>3. IsExample(t)
    BY <1>1, <1>3, <2>2 DEF PcFitsJob, PC
  <2> QED BY <1>2, <2>2, <2>3
<1>5. ASSUME NEW from, NEW to, Resumes(t, from, to)
      PROVE  \E result : /\ Goes(t, from, to) /\ Returns(t, result)
                         /\ UNCHANGED <<chat, job, ids>>
  BY <1>5 DEF Resumes, CallReturns, OnlyPc
<1>6. CASE Edited(t)
  <2>1. PICK to \in {"audio", "words"} : Resumes(t, "editing", to)
    BY <1>6 DEF Edited
  <2>2. PICK result : /\ Goes(t, "editing", to) /\ Returns(t, result)
                      /\ UNCHANGED <<chat, job, ids>>
    BY <1>5, <2>1
  <2>3. IsExample(t)
    BY <1>1, <1>3, <2>2 DEF PcFitsJob, PC
  <2> QED BY <1>2, <2>2, <2>3
<1>7. CASE NoFilePath(t)
  <2>1. /\ Goes(t, "path", After(t)) /\ Returns(t, Nothing) /\ UNCHANGED <<chat, job, ids>>
    BY <1>7 DEF NoFilePath, CallReturns, OnlyPc
  <2> QED BY <1>2, <2>1 DEF After
<1>8. CASE FilePath(t)
  <2>1. /\ Goes(t, "path", "opening") /\ Returns(t, Result(t)) /\ UNCHANGED <<chat, job, ids>>
    BY <1>8 DEF FilePath, CallReturns, OnlyPc
  <2> QED BY <1>2, <2>1
<1>9. CASE Answered(t)
  <2>1. PICK result : /\ Goes(t, "answering", "done") /\ Returns(t, result)
                      /\ UNCHANGED <<chat, job, ids>>
    BY <1>5, <1>9 DEF Answered
  <2> QED BY <1>2, <2>1
<1> QED BY <1>4, <1>6, <1>7, <1>8, <1>9

(* The steps of a download and the request that needs no answer.             *)
LEMMA QuietsKeep ==
  ASSUME ThreadInv, NEW t \in Handler,
         OpenFile(t) \/ CannotOpen(t) \/ Load(t) \/ Loaded(t) \/ NoAnswer(t)
  PROVE  ThreadInv'
<1>1. t \in Thread /\ t # Main /\ PcFitsJob(t) /\ job \in [Handler -> JobTypes]
  BY DEF Handler, ThreadInv, ThreadTypeOK
<1>2. ASSUME NEW from \in {"opening", "loading", "words"}, NEW to \in {"loading", "words", "done"},
             Goes(t, from, to), UNCHANGED <<wire, late, chat, job, ids>>,
             to = "words" => IsExample(t),
             from = "words" => to = "done",
             to = "done" => ~IsExample(t) \/ from = "words"
      PROVE  ThreadInv'
  <2>1. to \in PC /\ to \notin Early /\ to # "reporting"
    BY DEF PC, Early
  <2>2. pc[t] = from /\ pc'[t] = to /\ job'[t] = job[t]
    BY <1>1, <1>2, <2>1, GoesTypes
  <2>3. PcFitsJob(t)'
    BY <1>1, <1>2, <2>2 DEF PcFitsJob, IsExample
  <2>4. Allowed(t) <= Allowed(t)'
    BY <1>2, <2>2 DEF Allowed, IsExample
  <2> QED BY <1>1, <1>2, <2>1, <2>3, <2>4, QuietKeeps
<1> USE DEF OnlyPc, api_vars
<1>3. CASE OpenFile(t)
  BY <1>2, <1>3 DEF OpenFile, Open
<1>4. CASE CannotOpen(t)
  BY <1>2, <1>4 DEF CannotOpen, After
<1>5. CASE Load(t)
  BY <1>2, <1>5 DEF Load, makeHTTPGETCallWriterFILE
<1>6. CASE Loaded(t)
  BY <1>2, <1>6 DEF Loaded, CloseFile, CloseFails, After
<1>7. CASE NoAnswer(t)
  BY <1>2, <1>7 DEF NoAnswer
<1> QED BY <1>3, <1>4, <1>5, <1>6, <1>7

LEMMA NextThreads == ThreadInv /\ [Next]_vars => ThreadInv'
<1> SUFFICES ASSUME ThreadInv, [Next]_vars PROVE ThreadInv'
  OBVIOUS
<1>1. CASE UNCHANGED vars
  BY <1>1 DEF vars, api_vars, ThreadInv, CallTypeOK, ThreadTypeOK, MainSilent, WireFitsPc,
              PcFitsJob, NoEditYet, ReplyIsOwn, KnowsOwn, MessageId, Tries, Sent, LateSends, OnWire,
              Allowed, IsExample, Waits, Asked
<1>2. CASE MainBegins
  <2>1. /\ Goes(Main, "idle", "name") /\ UNCHANGED <<wire, late, chat, ids, job>>
    BY <1>2 DEF MainBegins, api_vars, OnlyPc
  <2>2. "name" \in PC /\ Main \in Thread /\ job \in [Handler -> JobTypes]
    BY MyBotAssumption DEF PC, ThreadInv, ThreadTypeOK
  <2>3. PcFitsJob(Main)'
    BY <2>1, <2>2, GoesTypes DEF PcFitsJob
  <2> QED BY <2>1, <2>2, <2>3, QuietKeeps DEF Early
<1>3. CASE MainPolls
  BY <1>1, <1>3 DEF MainPolls
<1>4. ASSUME NEW t \in Handler, StartHandler(t) PROVE ThreadInv'
  BY <1>4, StartKeeps
<1>5. ASSUME NEW t \in Thread, ThreadStep(t) PROVE ThreadInv'
  BY <1>5, AskNameKeeps, NamedKeeps, AsksKeep, ReturnsKeep, QuietsKeep
     DEF ThreadStep, HandlerStep, Handler
<1>6. CASE ServerStep
  BY <1>6, ServerActsKeeps, ServerRefusesKeeps, ServerLateKeeps DEF ServerStep
<1> QED BY <1>1, <1>2, <1>3, <1>4, <1>5, <1>6 DEF Next

LEMMA SpecThreadInv == Spec => []ThreadInv
  BY InitThreads, NextThreads, PTL DEF Spec

(* Whatever other threads send meanwhile, whatever the server refuses or is  *)
(* late with, whatever never-written variables hold and however long the     *)
(* chat is: the message a handler edits is its own, or the one named by an   *)
(* unwritten variable when it never learned the id, or the one named by the  *)
(* low bits of an id that is too large for an int (mybot.c:20-28;            *)
(* botlib.c:442-449, 468).                                                   *)
THEOREM SpecEditsOwnMessage == Spec => []EditsOwnMessage
<1>1. ThreadInv => EditsOwnMessage
  <2> SUFFICES ASSUME ThreadInv, NEW i \in DOMAIN chat, NEW u \in chat[i].editors
               PROVE  \/ i = ids[u] /\ chat[i].by = u
                      \/ ids[u] = 0 /\ \E n \in Stack : i = AsInt(n)
                      \/ ~FitsInt(ids[u]) /\ i = AsInt(ids[u])
    BY DEF EditsOwnMessage
  <2>1. chat[i] \in Messages
    BY DEF ThreadInv, CallTypeOK
  <2>2. u \in Handler
    BY <2>1 DEF ThreadInv, MainSilent, Messages, Handler
  <2>3. i \in MessageId(u) /\ ids[u] \in Nat
    BY <2>2 DEF ThreadInv, ThreadTypeOK, KnowsOwn
  <2>4. ids[u] # 0 => chat[ids[u]].by = u
    BY <2>2 DEF ThreadInv, KnowsOwn
  <2>5. PICK n \in IF ids[u] = 0 THEN Stack ELSE {ids[u]} : i = AsInt(n)
    BY <2>3 DEF MessageId
  <2>6. CASE ids[u] = 0
    BY <2>5, <2>6
  <2>7. CASE ids[u] # 0 /\ FitsInt(ids[u])
    BY <2>3, <2>4, <2>5, <2>7, IntIds
  <2>8. CASE ids[u] # 0 /\ ~FitsInt(ids[u])
    BY <2>5, <2>8
  <2> QED BY <2>6, <2>7, <2>8
<1> QED BY <1>1, SpecThreadInv, PTL

(* No message is sent twice: a call that was given up may have been carried  *)
(* out, or be carried out later, and is not made again (botlib.c:260-295).   *)
THEOREM SpecSentOnce == Spec => []SentOnce
<1>1. ThreadInv => SentOnce
  <2> SUFFICES ASSUME ThreadInv PROVE SentOnce
    OBVIOUS
  <2>1. ASSUME NEW t \in Handler
        PROVE  Cardinality({i \in DOMAIN chat : chat[i].by = t})
                 <= IF IsExample(t) /\ job[t].words # "other" THEN 2
                    ELSE IF job[t].does \in {"example", "image"} THEN 1 ELSE 0
    <3>1. /\ Cardinality(Sent(t)) \in Nat /\ Cardinality(LateSends(t)) \in Nat
          /\ OnWire(t) \in {0, 1} /\ Allowed(t) \in {0, 1, 2}
      BY Counted DEF ThreadInv
    <3>2. Tries(t) <= Allowed(t)
      BY DEF ThreadInv
    <3>3. Cardinality(Sent(t)) <= Allowed(t)
      BY <3>1, <3>2 DEF Tries
    <3>4. Sent(t) = {i \in DOMAIN chat : chat[i].by = t}
      BY DEF Sent
    <3>5. Allowed(t) <= IF IsExample(t) /\ job[t].words # "other" THEN 2
                        ELSE IF job[t].does \in {"example", "image"} THEN 1 ELSE 0
      BY DEF Allowed, IsExample
    <3> QED BY <3>1, <3>3, <3>4, <3>5
  <2>2. \A i \in DOMAIN chat : chat[i].by # Main
    BY DEF ThreadInv, MainSilent
  <2> QED BY <2>1, <2>2 DEF SentOnce
<1> QED BY <1>1, SpecThreadInv, PTL
=============================================================================
