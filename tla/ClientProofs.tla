----------------------------- MODULE ClientProofs ----------------------------
(***************************************************************************)
(* What the loop owes to those who ask something of it, in three parts     *)
(* that share no state: clients that copy the screen (Screencopy), tools   *)
(* on the socket (IpcServer), and whoever has the keyboard (Keyboard), who *)
(* is also owed what the loaded script says (LuaConfig, ConfigReload).     *)
(* Each part holds for any number of them, in any order.                   *)
(***************************************************************************)
EXTENDS Screencopy, IpcServer, Keyboard, SequenceTheorems, WellFoundedInduction, TLAPS

-----------------------------------------------------------------------------
(* Screen copy: whatever clients ask for, and in whatever order their      *)
(* objects are destroyed.  First its inductive invariant.                  *)

\* A frame that was never asked for is neither copied nor a child of anything,
\* and only a manager that was bound has children: a manager that is bound now
\* starts with no frame that could be copied.
Born ==
  /\ \A f \in Frame : frames[f] = "new" => f \notin copied
  /\ \A m \in Manager, f \in Frame : parent[f] = {m} => owner[m] # "unbound"

QueueInv == TypeOK /\ Born /\ QueueWhileNeeded /\ AnsweredOnce

LEMMA InitQueue == Init => QueueInv
<1> SUFFICES ASSUME Init PROVE QueueInv
  OBVIOUS
<1>1. TypeOK
  <2>1. owner \in [Manager -> {"unbound", "alive", "dead"}] /\ answers \in [Frame -> 0..1]
    BY DEF Init
  <2>2. parent \in [Frame -> SUBSET Manager] /\ pending \in [Manager -> SUBSET Frame]
    BY DEF Init
  <2>3. frames \in [Frame -> {"new", "failed", "pending"}] /\ shot \in BOOLEAN
    BY DEF Init
  <2>4. QED BY <2>1, <2>2, <2>3 DEF Init, TypeOK
<1>2. Born
  BY DEF Init, Born
<1>3. QueueWhileNeeded
  BY DEF Init, QueueWhileNeeded, Copyable
<1>4. AnsweredOnce
  BY DEF Init, AnsweredOnce
<1>5. QED BY <1>1, <1>2, <1>3, <1>4 DEF QueueInv

\* What is invariant depends on these variables and on no others: the steps of
\* a client that is cut off and of the renderer disturb nothing.
LEMMA QueueKept ==
  ASSUME QueueInv, cut' \subseteq Manager, shot' \in BOOLEAN,
         UNCHANGED <<owner, frames, alive, parent, copied, queues, pending, answers>>
  PROVE  QueueInv'
<1>1. TypeOK'
  BY DEF QueueInv, TypeOK
<1>2. Born' /\ AnsweredOnce'
  BY DEF QueueInv, Born, AnsweredOnce
<1>3. \A m \in Manager : Copyable(m)' = Copyable(m)
  BY DEF Copyable
<1>4. QueueWhileNeeded'
  BY <1>3 DEF QueueInv, QueueWhileNeeded
<1>5. QED BY <1>1, <1>2, <1>4 DEF QueueInv

LEMMA BindKeeps ==
  ASSUME QueueInv, NEW m \in Manager, BindManager(m)
  PROVE  QueueInv'
<1> USE DEF QueueInv, BindManager
<1>1. TypeOK'
  BY DEF TypeOK
<1>2. Born'
  BY DEF Born, TypeOK
<1>3. \A n \in Manager : Copyable(n)' = Copyable(n)
  BY DEF Copyable
<1>4. Copyable(m) = {}
  BY DEF Copyable, Born, TypeOK
<1>5. QueueWhileNeeded'
  BY <1>3, <1>4 DEF QueueWhileNeeded, TypeOK
<1>6. AnsweredOnce'
  BY DEF AnsweredOnce
<1>7. QED BY <1>1, <1>2, <1>5, <1>6

LEMMA CaptureRefusedKeeps ==
  ASSUME QueueInv, NEW m \in Manager, NEW f \in Frame, CaptureRefused(m, f)
  PROVE  QueueInv'
<1> USE DEF QueueInv, CaptureRefused
<1>1. f \notin copied /\ answers[f] = 0
  BY DEF Born, AnsweredOnce
<1>2. TypeOK'
  BY <1>1 DEF TypeOK
<1>3. Born'
  BY <1>1 DEF Born, TypeOK
<1>4. \A n \in Manager : Copyable(n)' = Copyable(n)
  BY DEF Copyable, TypeOK
<1>5. QueueWhileNeeded'
  BY <1>4 DEF QueueWhileNeeded
<1>6. AnsweredOnce'
  BY <1>1 DEF AnsweredOnce, TypeOK
<1>7. QED BY <1>2, <1>3, <1>5, <1>6

LEMMA CaptureKeeps ==
  ASSUME QueueInv, NEW m \in Manager, NEW f \in Frame, Capture(m, f)
  PROVE  QueueInv'
<1> USE DEF QueueInv, Capture
<1>1. f \notin copied
  BY DEF Born
<1>2. TypeOK'
  BY DEF TypeOK
<1>3. Born'
  BY <1>1 DEF Born, TypeOK
<1>4. Copyable(m)' = Copyable(m) \cup {f}
  BY <1>1 DEF Copyable, TypeOK
<1>5. \A n \in Manager \ {m} : Copyable(n)' = Copyable(n)
  BY DEF Copyable, TypeOK
<1>6. QueueWhileNeeded'
  BY <1>4, <1>5 DEF QueueWhileNeeded, TypeOK
<1>7. AnsweredOnce'
  BY <1>1 DEF AnsweredOnce, TypeOK
<1>8. QED BY <1>2, <1>3, <1>6, <1>7

\* The frame leaves the queue, which goes if nothing needs it any more.
LEMMA CopyKeeps ==
  ASSUME QueueInv, NEW m \in Manager, NEW f \in Frame, Copy(m, f)
  PROVE  QueueInv'
<1> USE DEF QueueInv, Copy, Served, Prune
<1>1. answers[f] = 0
  BY DEF AnsweredOnce
<1>2. TypeOK'
  BY <1>1 DEF TypeOK
<1>3. Born'
  BY DEF Born, TypeOK
<1>4. Copyable(m)' = Copyable(m) \ {f}
  BY DEF Copyable, TypeOK
<1>5. \A n \in Manager \ {m} : Copyable(n)' = Copyable(n)
  BY DEF Copyable, TypeOK
<1>6. QueueWhileNeeded'
  BY <1>4, <1>5 DEF QueueWhileNeeded, TypeOK
<1>7. AnsweredOnce'
  BY <1>1 DEF AnsweredOnce, TypeOK
<1>8. QED BY <1>2, <1>3, <1>6, <1>7

LEMMA DestroyFrameKeeps ==
  ASSUME QueueInv, NEW m \in Manager, NEW f \in Frame, DestroyFrame(m, f)
  PROVE  QueueInv'
<1> USE DEF QueueInv, DestroyFrame, Prune
<1>1. TypeOK'
  BY DEF TypeOK
<1>2. Born'
  BY DEF Born, TypeOK
<1>3. Copyable(m)' = Copyable(m) \ {f}
  BY DEF Copyable, TypeOK
<1>4. \A n \in Manager \ {m} : Copyable(n)' = Copyable(n)
  BY DEF Copyable, TypeOK
<1>5. CASE frames[f] = "pending" /\ m \in queues
  <2>1. QueueWhileNeeded'
    BY <1>3, <1>4, <1>5 DEF QueueWhileNeeded, TypeOK
  <2>2. QED BY <2>1, <1>1, <1>2 DEF AnsweredOnce
<1>6. CASE ~(frames[f] = "pending" /\ m \in queues)
  <2>1. f \notin Copyable(m)
    BY <1>6 DEF Copyable, QueueWhileNeeded
  <2>2. QueueWhileNeeded'
    BY <2>1, <1>3, <1>4, <1>6, SMTT(30) DEF QueueWhileNeeded, TypeOK
  <2>3. QED BY <2>2, <1>1, <1>2 DEF AnsweredOnce
<1>7. QED BY <1>5, <1>6

LEMMA DestroyManagerKeeps ==
  ASSUME QueueInv, NEW m \in Manager, DestroyManager(m)
  PROVE  QueueInv'
<1> USE DEF QueueInv, DestroyManager
<1>1. TypeOK'
  BY DEF TypeOK
<1>2. Born'
  BY DEF Born, TypeOK
<1>3. \A n \in Manager : Copyable(n)' = Copyable(n)
  BY DEF Copyable
<1>4. QueueWhileNeeded'
  BY <1>3 DEF QueueWhileNeeded, TypeOK
<1>5. AnsweredOnce'
  BY DEF AnsweredOnce
<1>6. QED BY <1>1, <1>2, <1>4, <1>5

LEMMA NextQueue == QueueInv /\ [Next]_vars => QueueInv'
<1> SUFFICES ASSUME QueueInv, [Next]_vars PROVE QueueInv'
  OBVIOUS
<1>1. CASE TakeScreenshot
  BY <1>1, QueueKept DEF TakeScreenshot, QueueInv, TypeOK
<1>2. ASSUME NEW m \in Manager, BindManager(m) PROVE QueueInv'
  BY <1>2, BindKeeps
<1>3. ASSUME NEW m \in Manager, DestroyManager(m) PROVE QueueInv'
  BY <1>3, DestroyManagerKeeps
<1>4. ASSUME NEW m \in Manager, Disconnect(m) PROVE QueueInv'
  BY <1>4, QueueKept DEF Disconnect, QueueInv, TypeOK
<1>5. ASSUME NEW m \in Manager, NEW f \in Frame, CaptureRefused(m, f) PROVE QueueInv'
  BY <1>5, CaptureRefusedKeeps
<1>6. ASSUME NEW m \in Manager, NEW f \in Frame, Capture(m, f) PROVE QueueInv'
  BY <1>6, CaptureKeeps
<1>7. ASSUME NEW m \in Manager, NEW f \in Frame, CopyRefused(m, f) PROVE QueueInv'
  BY <1>7, QueueKept DEF CopyRefused, QueueInv, TypeOK
<1>8. ASSUME NEW m \in Manager, NEW f \in Frame, Copy(m, f) PROVE QueueInv'
  BY <1>8, CopyKeeps
<1>9. ASSUME NEW m \in Manager, NEW f \in Frame, DestroyFrame(m, f) PROVE QueueInv'
  BY <1>9, DestroyFrameKeeps
<1>10. CASE UNCHANGED vars
  BY <1>10, QueueKept DEF vars, QueueInv, TypeOK
<1>11. QED
  BY <1>1, <1>2, <1>3, <1>4, <1>5, <1>6, <1>7, <1>8, <1>9, <1>10 DEF Next

LEMMA QueueInvHolds == Spec => []QueueInv
<1>1. QED BY InitQueue, NextQueue, PTL DEF Spec

-----------------------------------------------------------------------------
(* The theorems.                                                           *)

\* Every variable of the server keeps its type, for any managers and frames.
THEOREM CopyTypesHold == Spec => []TypeOK
<1>1. QueueInv => TypeOK
  BY DEF QueueInv
<1>2. QED BY <1>1, QueueInvHolds, PTL

\* A queue is there exactly while its manager or a frame that can be copied is,
\* and lists those frames.
THEOREM QueueHolds == Spec => []QueueWhileNeeded
<1>1. QueueInv => QueueWhileNeeded
  BY DEF QueueInv
<1>2. QED BY <1>1, QueueInvHolds, PTL

\* No frame is answered twice, and a copied or failed one was answered.
THEOREM AnswersHold == Spec => []AnsweredOnce
<1>1. QueueInv => AnsweredOnce
  BY DEF QueueInv
<1>2. QED BY <1>1, QueueInvHolds, PTL

\* The two lookups that are unwrapped: capture finds the queue of the manager it
\* is asked on, and a copy that is not refused finds that of the frame.
LookupFinds ==
  \A m \in Manager :
    /\ owner[m] = "alive" => m \in queues
    /\ \A f \in Frame :
         Served(m, f) /\ frames[f] = "pending" /\ f \notin copied =>
           m \in queues /\ f \in pending[m]

\* Neither lookup fails (screencopy.rs unwraps both), however the destruction of
\* managers and frames and the requests of several clients interleave.
THEOREM LookupsNeverFail == Spec => []LookupFinds
<1>1. QueueInv => LookupFinds
  BY DEF QueueInv, QueueWhileNeeded, Copyable, Served, LookupFinds
<1>2. QED BY <1>1, QueueInvHolds, PTL

-----------------------------------------------------------------------------
(* The socket: with its threads and channels it implements RpcService.  A  *)
(* step of the socket is a step of the service, or one it does not see.    *)

Types ==
  /\ client \in [Conn -> ClientStates]
  /\ sent \in [Conn -> Request \cup {NoRequest}]
  /\ worker \in [Conn -> WorkerStates]
  /\ reqChan \in Seq(Conn)
  /\ DOMAIN reply = Conn
  /\ server \in {"up", "stopping", "exited"}

\* How far one connection has come, seen from both of its ends.
Progress(c) ==
  /\ client[c] \in {"waiting", "answered"} => sent[c] # NoRequest
  /\ client[c] \in {"idle", "connected", "left"} => sent[c] = NoRequest
  /\ worker[c] = "waiting" => client[c] \in {"waiting", "failed"} /\ sent[c].kind # "malformed"
  /\ worker[c] = "done" => client[c] \notin {"idle", "connected", "waiting"}
  /\ server = "exited" => client[c] \notin {"connected", "waiting"}

\* An answer is left once, by the main loop or in refusing the request.
Answers(c) ==
  /\ reply[c] = {} \/ \E a \in reply[c] : reply[c] = {a}
  /\ reply[c] # {} => worker[c] \in {"waiting", "done"}
  /\ client[c] = "answered" => reply[c] # {}

\* The main loop has a message of a worker only while that one waits.
Forwarded ==
  /\ \A i \in 1..Len(reqChan) :
       /\ worker[reqChan[i]] = "waiting" /\ client[reqChan[i]] = "waiting"
       /\ reply[reqChan[i]] = {}
  /\ \A i, j \in 1..Len(reqChan) : reqChan[i] = reqChan[j] => i = j
  /\ server # "up" => reqChan = <<>>

IpcInv == Types /\ (\A c \in Conn : Progress(c) /\ Answers(c)) /\ Forwarded

LEMMA RequestKinds ==
  /\ \A r \in Request : r # NoRequest
  /\ Responses(stack, [kind |-> "malformed"]) = {[kind |-> "error"]}
  BY DEF Request, NoRequest, Commands, Responses

\* A request that is refused has one answer.
LEMMA Refusal ==
  ASSUME NEW r \in Request, r.kind = "malformed"
  PROVE  Responses(stack, r) = {[kind |-> "error"]}
  BY DEF Request, Commands, Responses

LEMMA InitIpc == IpcInit => IpcInv
<1> SUFFICES ASSUME IpcInit PROVE IpcInv
  OBVIOUS
<1>1. <<>> \in Seq(Conn) /\ Len(<<>>) = 0
  BY EmptySeq
<1>2. Types
  BY <1>1 DEF IpcInit, Types, ClientStates, WorkerStates
<1>3. QED BY <1>1, <1>2 DEF IpcInit, IpcInv, Progress, Answers, Forwarded

\* A step that leaves the channel of requests alone, and the connections in it.
LEMMA ForwardedKept ==
  ASSUME IpcInv, UNCHANGED <<reqChan, server>>,
         \A c \in Conn : (worker[c] = "waiting" /\ client[c] = "waiting" /\ reply[c] = {}
                          /\ server = "up")
           => worker'[c] = worker[c] /\ client'[c] = client[c] /\ reply'[c] = reply[c]
  PROVE  Forwarded'
<1>1. \A i \in 1..Len(reqChan) : reqChan[i] \in Conn
  BY ElementOfSeq DEF IpcInv, Types
<1>2. Len(reqChan) \in Nat
  BY LenProperties DEF IpcInv, Types
<1>3. \A i \in 1..Len(reqChan) : server = "up"
  BY <1>2, EmptySeq DEF IpcInv, Forwarded
<1>4. QED BY <1>1, <1>3, SMTT(30) DEF IpcInv, Forwarded

LEMMA NextIpc == IpcInv /\ [IpcNext]_ipcVars => IpcInv'
<1> SUFFICES ASSUME IpcInv, [IpcNext]_ipcVars PROVE IpcInv'
  OBVIOUS
<1>0. Types /\ (\A c \in Conn : Progress(c) /\ Answers(c)) /\ Forwarded
  BY DEF IpcInv
<1> USE DEF ClientStates, WorkerStates
<1>1. ASSUME NEW c \in Conn, Connect(c) PROVE IpcInv'
  <2>1. Types'
    BY <1>0, <1>1 DEF Types, Connect
  <2>2. ASSUME NEW d \in Conn PROVE (Progress(d) /\ Answers(d))'
    BY <1>0, <1>1 DEF Types, Progress, Answers, Connect
  <2>3. Forwarded'
    BY <1>0, <1>1, ForwardedKept DEF Types, Connect
  <2>4. QED BY <2>1, <2>2, <2>3 DEF IpcInv
<1>2. ASSUME NEW c \in Conn, WriteRequest(c) PROVE IpcInv'
  <2>1. Types'
    BY <1>0, <1>2 DEF Types, WriteRequest
  <2>2. ASSUME NEW d \in Conn PROVE (Progress(d) /\ Answers(d))'
    BY <1>0, <1>2, RequestKinds DEF Types, Progress, Answers, WriteRequest
  <2>3. Forwarded'
    BY <1>0, <1>2, ForwardedKept DEF Types, WriteRequest
  <2>4. QED BY <2>1, <2>2, <2>3 DEF IpcInv
<1>3. ASSUME NEW c \in Conn, Leave(c) PROVE IpcInv'
  <2>1. Types'
    BY <1>0, <1>3 DEF Types, Leave
  <2>2. ASSUME NEW d \in Conn PROVE (Progress(d) /\ Answers(d))'
    BY <1>0, <1>3 DEF Types, Progress, Answers, Leave
  <2>3. Forwarded'
    BY <1>0, <1>3, ForwardedKept DEF Types, Leave
  <2>4. QED BY <2>1, <2>2, <2>3 DEF IpcInv
<1>4. CASE Accept
  <2>1. /\ worker' \in [Conn -> WorkerStates]
        /\ \A d \in Conn : worker'[d] = worker[d]
             \/ (worker[d] = "none" /\ worker'[d] = "reading")
        /\ UNCHANGED <<client, sent, reqChan, reply, stack, server>>
    <3> DEFINE backlog == {d \in Conn : client[d] \notin {"idle", "failed"} /\ worker[d] = "none"}
    <3>1. worker' = [d \in Conn |-> IF d \in backlog THEN "reading" ELSE worker[d]]
          /\ UNCHANGED <<client, sent, reqChan, reply, stack, server>>
      BY <1>4 DEF Accept
    <3>2. \A d \in backlog : worker[d] = "none"
      OBVIOUS
    <3> HIDE DEF backlog
    <3>3. \A d \in Conn : worker'[d] = IF d \in backlog THEN "reading" ELSE worker[d]
      BY <3>1
    <3>4. worker' \in [Conn -> WorkerStates]
      BY <1>0, <3>1 DEF Types
    <3>5. \A d \in Conn : worker'[d] = worker[d]
            \/ (worker[d] = "none" /\ worker'[d] = "reading")
      <4>1. SUFFICES ASSUME NEW d \in Conn
                     PROVE  worker'[d] = worker[d] \/ (worker[d] = "none" /\ worker'[d] = "reading")
        OBVIOUS
      <4>2. CASE d \in backlog
        BY <3>2, <3>3, <4>2
      <4>3. CASE d \notin backlog
        BY <3>3, <4>3
      <4>4. QED BY <4>2, <4>3
    <3>6. QED BY <3>1, <3>4, <3>5
  <2>2. Types'
    BY <1>0, <2>1 DEF Types
  <2>3. ASSUME NEW d \in Conn PROVE (Progress(d) /\ Answers(d))'
    BY <1>0, <2>1 DEF Progress, Answers
  <2>4. Forwarded'
    BY <2>1, ForwardedKept
  <2>5. QED BY <2>2, <2>3, <2>4 DEF IpcInv
<1>5. CASE Handle
  <2> DEFINE c == Head(reqChan)
  <2>1. /\ reqChan \in Seq(Conn) /\ reqChan # <<>> /\ server = "up"
        /\ \E a : reply' = [reply EXCEPT ![c] = {a}]
        /\ reqChan' = Tail(reqChan) /\ UNCHANGED <<client, sent, worker, server>>
    BY <1>0, <1>5 DEF Handle, Types
  <2>2. /\ c \in Conn /\ c = reqChan[1] /\ 1 \in 1..Len(reqChan) /\ Len(reqChan) \in Nat
        /\ reqChan' \in Seq(Conn) /\ Len(reqChan') = Len(reqChan) - 1
        /\ \A i \in 1..Len(reqChan') : reqChan'[i] = reqChan[i + 1]
    BY <2>1, HeadTailProperties, LenProperties
  <2>3. worker[c] = "waiting" /\ client[c] = "waiting"
    BY <1>0, <2>2 DEF Forwarded
  <2>4. PICK a : reply' = [reply EXCEPT ![c] = {a}]
    BY <2>1
  <2>5. \A d \in Conn : reply'[d] = IF d = c THEN {a} ELSE reply[d]
    BY <1>0, <2>2, <2>4 DEF Types
  <2> HIDE DEF c
  <2>6. Types'
    BY <1>0, <2>1, <2>2, <2>4 DEF Types
  <2>7. ASSUME NEW d \in Conn PROVE (Progress(d) /\ Answers(d))'
    BY <1>0, <2>1, <2>3, <2>5 DEF Progress, Answers
  <2>8. \A i \in 1..Len(reqChan') : i + 1 \in 1..Len(reqChan) /\ reqChan[i + 1] # c
    BY <1>0, <2>2 DEF Forwarded
  <2>9. \A i \in 1..Len(reqChan) : reqChan[i] \in Conn
    BY <2>1, ElementOfSeq
  <2>10. \A i, j \in 1..Len(reqChan') : reqChan'[i] = reqChan'[j] => i = j
    <3>1. \A i, j \in 1..Len(reqChan') : reqChan'[i] = reqChan'[j] => i + 1 = j + 1
      BY <1>0, <2>2, <2>8 DEF Forwarded
    <3>2. QED BY <2>2, <3>1
  <2>11. Forwarded'
    BY <1>0, <2>1, <2>2, <2>5, <2>8, <2>9, <2>10 DEF Forwarded
  <2>12. QED BY <2>6, <2>7, <2>11 DEF IpcInv
<1>6. CASE Restack \/ UNCHANGED ipcVars
  <2>1. UNCHANGED <<client, sent, worker, reqChan, reply, server>>
    BY <1>6 DEF Restack, ipcVars
  <2>2. QED BY <1>0, <2>1 DEF IpcInv, Types, Progress, Answers, Forwarded
<1>7. CASE StopLoop
  <2>1. <<>> \in Seq(Conn) /\ Len(<<>>) = 0
    BY EmptySeq
  <2>2. Types'
    BY <1>0, <1>7, <2>1 DEF Types, StopLoop
  <2>3. ASSUME NEW d \in Conn PROVE (Progress(d) /\ Answers(d))'
    BY <1>0, <1>7 DEF Progress, Answers, StopLoop
  <2>4. Forwarded'
    BY <1>7, <2>1 DEF Forwarded, StopLoop
  <2>5. QED BY <2>2, <2>3, <2>4 DEF IpcInv
<1>8. CASE Exit
  <2>1. Types'
    BY <1>0, <1>8 DEF Types, Exit
  <2>2. ASSUME NEW d \in Conn PROVE (Progress(d) /\ Answers(d))'
    BY <1>0, <1>8 DEF Types, Progress, Answers, Exit
  <2>3. Len(<<>>) = 0
    BY EmptySeq
  <2>4. reqChan = <<>> /\ reqChan' = <<>>
    BY <1>0, <1>8 DEF Forwarded, Exit
  <2>5. Forwarded'
    BY <2>3, <2>4 DEF Forwarded
  <2>6. QED BY <2>1, <2>2, <2>5 DEF IpcInv
<1>9. ASSUME NEW c \in Conn, ReadFails(c) PROVE IpcInv'
  <2>1. sent[c].kind = "malformed" /\ client[c] = "waiting" =>
          Responses(stack, sent[c]) = {[kind |-> "error"]}
    BY <1>0, Refusal DEF Types, Progress
  <2>2. Types'
    BY <1>0, <1>9 DEF Types, ReadFails, WriteResponse
  <2>3. ASSUME NEW d \in Conn PROVE (Progress(d) /\ Answers(d))'
    BY <1>0, <1>9, <2>1 DEF Types, Progress, Answers, ReadFails, WriteResponse
  <2>4. Forwarded'
    BY <1>0, <1>9, ForwardedKept DEF Types, ReadFails, WriteResponse
  <2>5. QED BY <2>2, <2>3, <2>4 DEF IpcInv
<1>10. ASSUME NEW c \in Conn, Forward(c) PROVE IpcInv'
  <2>1. /\ worker[c] = "reading" /\ client[c] = "waiting" /\ server = "up"
        /\ worker' = [worker EXCEPT ![c] = "waiting"] /\ reqChan' = Append(reqChan, c)
        /\ sent[c].kind # "malformed"
        /\ UNCHANGED <<client, sent, reply, stack, server>>
    BY <1>10 DEF Forward
  <2>2. reqChan \in Seq(Conn) /\ Len(reqChan) \in Nat
        /\ \A i \in 1..Len(reqChan) : reqChan[i] \in Conn
    BY <1>0, LenProperties, ElementOfSeq DEF Types
  <2>3. /\ reqChan' \in Seq(Conn) /\ Len(reqChan') = Len(reqChan) + 1
        /\ \A i \in 1..Len(reqChan) : reqChan'[i] = reqChan[i]
        /\ reqChan'[Len(reqChan) + 1] = c
    BY <2>1, <2>2, AppendProperties
  <2>4. Types'
    BY <1>0, <2>1, <2>3 DEF Types
  <2>5. ASSUME NEW d \in Conn PROVE (Progress(d) /\ Answers(d))'
    BY <1>0, <2>1 DEF Types, Progress, Answers
  <2>6. \A i \in 1..Len(reqChan) : reqChan[i] # c
    BY <1>0, <2>1 DEF Forwarded
  <2>7. \A i \in 1..Len(reqChan') : i \in 1..Len(reqChan) \/ i = Len(reqChan) + 1
    BY <2>2, <2>3
  <2>8. \A i, j \in 1..Len(reqChan') : reqChan'[i] = reqChan'[j] => i = j
    BY <1>0, <2>3, <2>6, <2>7 DEF Forwarded
  <2>9. ASSUME NEW i \in 1..Len(reqChan')
        PROVE  /\ worker'[reqChan'[i]] = "waiting" /\ client'[reqChan'[i]] = "waiting"
               /\ reply'[reqChan'[i]] = {}
    BY <1>0, <2>1, <2>2, <2>3, <2>7 DEF Types, Forwarded, Answers
  <2>10. Forwarded'
    BY <2>1, <2>8, <2>9 DEF Forwarded
  <2>11. QED BY <2>4, <2>5, <2>10 DEF IpcInv
<1>11. ASSUME NEW c \in Conn, ForwardFails(c) PROVE IpcInv'
  <2>1. Types'
    BY <1>0, <1>11 DEF Types, ForwardFails, WriteResponse
  <2>2. ASSUME NEW d \in Conn PROVE (Progress(d) /\ Answers(d))'
    BY <1>0, <1>11 DEF Types, Progress, Answers, ForwardFails, WriteResponse
  <2>3. Forwarded'
    BY <1>0, <1>11, ForwardedKept DEF Types, ForwardFails, WriteResponse
  <2>4. QED BY <2>1, <2>2, <2>3 DEF IpcInv
<1>12. ASSUME NEW c \in Conn, Answer(c) PROVE IpcInv'
  <2>1. Types'
    BY <1>0, <1>12 DEF Types, Answer, WriteResponse
  <2>2. ASSUME NEW d \in Conn PROVE (Progress(d) /\ Answers(d))'
    BY <1>0, <1>12 DEF Types, Progress, Answers, Answer, WriteResponse
  <2>3. Forwarded'
    BY <1>0, <1>12, ForwardedKept DEF Types, Answer, WriteResponse
  <2>4. QED BY <2>1, <2>2, <2>3 DEF IpcInv
<1>13. ASSUME NEW c \in Conn, AnswerFails(c) PROVE IpcInv'
  <2>1. Types'
    BY <1>0, <1>13 DEF Types, AnswerFails, WriteResponse
  <2>2. ASSUME NEW d \in Conn PROVE (Progress(d) /\ Answers(d))'
    BY <1>0, <1>13 DEF Types, Progress, Answers, AnswerFails, WriteResponse
  <2>3. Forwarded'
    BY <1>0, <1>13, ForwardedKept DEF Types, AnswerFails, WriteResponse
  <2>4. QED BY <2>1, <2>2, <2>3 DEF IpcInv
<1>14. QED
  BY <1>1, <1>2, <1>3, <1>4, <1>5, <1>6, <1>7, <1>8, <1>9, <1>10, <1>11, <1>12, <1>13
    DEF IpcNext, Worker

LEMMA IpcInvHolds == IpcSpec => []IpcInv
  BY InitIpc, NextIpc, PTL DEF IpcSpec

-----------------------------------------------------------------------------
(* The refinement.                                                         *)

\* How the service sees one call.
CallView(request, state, replies) ==
  LET answer == CHOOSE a \in replies : TRUE
  IN  CASE request = NoRequest -> [phase |-> "idle"]
        [] state = "waiting" /\ replies = {} -> [phase |-> "asked", request |-> request]
        [] state = "waiting" /\ replies # {} -> [phase |-> "executed", answer |-> answer]
        [] state = "answered" -> [phase |-> "over", answer |-> answer]
        [] OTHER -> [phase |-> "over"]

LEMMA ViewOfCall ==
  /\ callView = [c \in Conn |-> CallView(sent[c], client[c], reply[c])]
  /\ callView' = [c \in Conn |-> CallView(sent'[c], client'[c], reply'[c])]
  BY DEF callView, CallView

LEMMA IdleView ==
  ASSUME NEW replies, NEW state, state \notin {"waiting", "answered"}
  PROVE  CallView(NoRequest, state, replies) = [phase |-> "idle"]
  BY DEF CallView

LEMMA ViewCases ==
  ASSUME NEW request, request # NoRequest, NEW replies
  PROVE  /\ CallView(request, "waiting", {}) = [phase |-> "asked", request |-> request]
         /\ \A a : CallView(request, "waiting", {a}) = [phase |-> "executed", answer |-> a]
         /\ \A a : CallView(request, "answered", {a}) = [phase |-> "over", answer |-> a]
         /\ CallView(request, "failed", replies) = [phase |-> "over"]
<1>2. CallView(request, "waiting", {}) = [phase |-> "asked", request |-> request]
  BY DEF CallView
<1>3. ASSUME NEW a
      PROVE  /\ CallView(request, "waiting", {a}) = [phase |-> "executed", answer |-> a]
             /\ CallView(request, "answered", {a}) = [phase |-> "over", answer |-> a]
  <2>1. (CHOOSE b \in {a} : TRUE) = a
    OBVIOUS
  <2>2. {a} # {}
    OBVIOUS
  <2>3. CallView(request, "waiting", {a}) =
          [phase |-> "executed", answer |-> CHOOSE b \in {a} : TRUE]
    BY <2>2 DEF CallView
  <2>4. CallView(request, "answered", {a}) =
          [phase |-> "over", answer |-> CHOOSE b \in {a} : TRUE]
    BY DEF CallView
  <2>5. QED BY <2>1, <2>3, <2>4
<1>4. CallView(request, "failed", replies) = [phase |-> "over"]
  BY DEF CallView
<1>5. QED BY <1>2, <1>3, <1>4

\* The service and the socket mean the same by a request.
LEMMA SameRequests ==
  /\ Rpc!Request = Request
  /\ \A q, r : Rpc!StackAfter(q, r) = StackAfter(q, r)
  /\ \A q, r : Rpc!Responses(q, r) = Responses(q, r)
  /\ Restacked(stack, stack') => Rpc!Restacked(stack, stack')
<1>1. Rpc!Request = Request
  BY DEF Rpc!Request, Request, Rpc!Commands, Commands
<1>2. \A q, r : Rpc!StackAfter(q, r) = StackAfter(q, r)
  BY DEF Rpc!StackAfter, StackAfter, Rpc!Found, Found
<1>3. \A q, r : Rpc!Responses(q, r) = Responses(q, r)
  BY DEF Rpc!Responses, Responses, Rpc!Found, Found, Rpc!Commands, Commands
<1>4. Restacked(stack, stack') => Rpc!Restacked(stack, stack')
  BY DEF Rpc!Restacked, Restacked
<1>5. QED BY <1>1, <1>2, <1>3, <1>4

\* A step that changes only what the service does not see.
LEMMA Unseen ==
  ASSUME \A c \in Conn : CallView(sent'[c], client'[c], reply'[c])
                           = CallView(sent[c], client[c], reply[c])
  PROVE  callView' = callView
  BY ViewOfCall

\* A step that changes the call of one client.
LEMMA Seen ==
  ASSUME NEW c \in Conn, NEW view, CallView(sent'[c], client'[c], reply'[c]) = view,
         \A d \in Conn \ {c} : CallView(sent'[d], client'[d], reply'[d])
                                 = CallView(sent[d], client[d], reply[d])
  PROVE  callView' = [callView EXCEPT ![c] = view]
  BY ViewOfCall

\* Clients whose calls fail.
LEMMA Failed ==
  ASSUME NEW C \in SUBSET Conn, UNCHANGED stack,
         \A c \in C : /\ client[c] = "waiting" /\ client'[c] = "failed"
                      /\ sent[c] # NoRequest /\ sent'[c] = sent[c]
                      /\ reply[c] = {} \/ \E a : reply[c] = {a},
         \A c \in Conn \ C : CallView(sent'[c], client'[c], reply'[c])
                               = CallView(sent[c], client[c], reply[c])
  PROVE  Rpc!Fail
<1>1. \A c \in C : callView[c].phase \in {"asked", "executed"}
  <2>1. SUFFICES ASSUME NEW c \in C PROVE callView[c].phase \in {"asked", "executed"}
    OBVIOUS
  <2>2. callView[c] = CallView(sent[c], "waiting", reply[c])
    BY ViewOfCall
  <2>3. CASE reply[c] = {}
    BY <2>2, <2>3, ViewCases
  <2>4. CASE \E a : reply[c] = {a}
    <3>1. PICK a : reply[c] = {a}
      BY <2>4
    <3>2. callView[c] = [phase |-> "executed", answer |-> a]
      <4>1. sent[c] # NoRequest
        OBVIOUS
      <4>2. CallView(sent[c], "waiting", {a}) = [phase |-> "executed", answer |-> a]
        BY <4>1, ViewCases
      <4>3. QED BY <2>2, <3>1, <4>2
    <3>3. QED BY <3>2
  <2>5. QED BY <2>3, <2>4
<1>2. \A c \in C : callView'[c] = [phase |-> "over"]
  <2>1. SUFFICES ASSUME NEW c \in C PROVE callView'[c] = [phase |-> "over"]
    OBVIOUS
  <2>2. callView'[c] = CallView(sent[c], "failed", reply'[c]) /\ sent[c] # NoRequest
    BY ViewOfCall
  <2>3. QED BY <2>2, ViewCases
<1>3. callView' = [c \in Conn |-> IF c \in C THEN [phase |-> "over"] ELSE callView[c]]
  BY <1>2, ViewOfCall
<1>4. C \in SUBSET {c \in Conn : callView[c].phase \in {"asked", "executed"}}
  BY <1>1
<1>5. QED BY <1>3, <1>4 DEF Rpc!Fail

LEMMA InitRpc == IpcInit => Rpc!Init
<1> SUFFICES ASSUME IpcInit PROVE Rpc!Init
  OBVIOUS
<1>1. \A c \in Conn : callView[c] = [phase |-> "idle"]
  BY ViewOfCall, IdleView DEF IpcInit
<1>2. callView = [c \in Conn |-> [phase |-> "idle"]]
  BY <1>1, ViewOfCall
<1>3. QED BY <1>2 DEF IpcInit, Rpc!Init

\* Every step of the socket is a step of the service or one it does not see.
LEMMA NextRpc == IpcInv /\ [IpcNext]_ipcVars => [Rpc!Next]_<<callView, stack>>
<1> SUFFICES ASSUME IpcInv, [IpcNext]_ipcVars PROVE [Rpc!Next]_<<callView, stack>>
  OBVIOUS
<1>0. Types /\ (\A c \in Conn : Progress(c) /\ Answers(c)) /\ Forwarded
  BY DEF IpcInv
<1>1. ASSUME NEW c \in Conn, Connect(c) \/ Leave(c) PROVE UNCHANGED <<callView, stack>>
  <2>1. ASSUME NEW d \in Conn
        PROVE  CallView(sent'[d], client'[d], reply'[d]) = CallView(sent[d], client[d], reply[d])
    <3>1. sent'[d] = sent[d] /\ reply'[d] = reply[d]
      BY <1>1 DEF Connect, Leave
    <3>2. CASE d = c
      <4>1. sent[d] = NoRequest
        BY <1>0, <1>1, <3>2 DEF Connect, Leave, Progress
      <4>2. /\ client[d] \notin {"waiting", "answered"}
            /\ client'[d] \notin {"waiting", "answered"}
        BY <1>0, <1>1, <3>2 DEF Connect, Leave, Types
      <4>3. QED BY <3>1, <4>1, <4>2, IdleView
    <3>3. CASE d # c
      BY <1>0, <1>1, <3>1, <3>3 DEF Connect, Leave, Types
    <3>4. QED BY <3>2, <3>3
  <2>2. QED BY <1>1, <2>1, Unseen DEF Connect, Leave
<1>2. ASSUME NEW c \in Conn, WriteRequest(c) PROVE Rpc!Call(c)
  <2>1. PICK r \in Request : sent' = [sent EXCEPT ![c] = r]
    BY <1>2 DEF WriteRequest
  <2>2. client[c] = "connected" /\ client' = [client EXCEPT ![c] = "waiting"]
        /\ UNCHANGED <<reply, stack>>
    BY <1>2 DEF WriteRequest
  <2>3. sent[c] = NoRequest /\ reply[c] = {}
    BY <1>0, <2>2 DEF Progress, Answers
  <2>4. callView[c] = [phase |-> "idle"]
    BY <2>2, <2>3, ViewOfCall, IdleView
  <2>5. sent'[c] = r /\ client'[c] = "waiting" /\ reply'[c] = {}
    BY <1>0, <2>1, <2>2, <2>3 DEF Types
  <2>6. CallView(sent'[c], client'[c], reply'[c]) = [phase |-> "asked", request |-> r]
    BY <2>5, RequestKinds, ViewCases
  <2>7. \A d \in Conn \ {c} : sent'[d] = sent[d] /\ client'[d] = client[d] /\ reply'[d] = reply[d]
    BY <1>0, <2>1, <2>2 DEF Types
  <2>8. callView' = [callView EXCEPT ![c] = [phase |-> "asked", request |-> r]]
    BY <2>6, <2>7, Seen
  <2>9. callView[c].phase = "idle" /\ r \in Rpc!Request
    BY <2>4, SameRequests
  <2>10. QED BY <2>2, <2>8, <2>9 DEF Rpc!Call
<1>3. CASE Accept \/ StopLoop \/ (\E c \in Conn : Forward(c)) \/ UNCHANGED ipcVars
  <2>1. UNCHANGED <<client, sent, reply, stack>>
    BY <1>3 DEF Accept, StopLoop, Forward, ipcVars
  <2>2. QED BY <2>1, Unseen
<1>4. CASE Handle
  <2> DEFINE c == Head(reqChan)
  <2>1. /\ reqChan \in Seq(Conn) /\ reqChan # <<>>
        /\ \E a \in Responses(stack, sent[c]) : reply' = [reply EXCEPT ![c] = {a}]
        /\ stack' = StackAfter(stack, sent[c])
        /\ UNCHANGED <<client, sent>>
    BY <1>0, <1>4 DEF Handle, Types
  <2>2. /\ c \in Conn /\ c = reqChan[1] /\ 1 \in 1..Len(reqChan)
    BY <2>1, HeadTailProperties, LenProperties
  <2>3. client[c] = "waiting" /\ reply[c] = {} /\ sent[c] # NoRequest
    BY <1>0, <2>2 DEF Forwarded, Progress
  <2> HIDE DEF c
  <2>4. PICK a \in Responses(stack, sent[c]) : reply' = [reply EXCEPT ![c] = {a}]
    BY <2>1
  <2>5. callView[c] = [phase |-> "asked", request |-> sent[c]]
    BY <2>2, <2>3, ViewOfCall, ViewCases
  <2>6. CallView(sent'[c], client'[c], reply'[c]) = [phase |-> "executed", answer |-> a]
    <3>1. reply'[c] = {a} /\ client'[c] = "waiting" /\ sent'[c] = sent[c]
      BY <1>0, <2>1, <2>2, <2>3, <2>4 DEF Types
    <3>2. CallView(sent[c], "waiting", {a}) = [phase |-> "executed", answer |-> a]
      BY <2>3, ViewCases
    <3>3. QED BY <3>1, <3>2
  <2>7. \A d \in Conn \ {c} : sent'[d] = sent[d] /\ client'[d] = client[d] /\ reply'[d] = reply[d]
    BY <1>0, <2>1, <2>4 DEF Types
  <2>8. callView' = [callView EXCEPT ![c] = [phase |-> "executed", answer |-> a]]
    BY <2>2, <2>6, <2>7, Seen
  <2>9. a \in Rpc!Responses(stack, callView[c].request)
        /\ stack' = Rpc!StackAfter(stack, callView[c].request)
    BY <2>1, <2>4, <2>5, SameRequests
  <2>10. Rpc!Execute(c)
    <3>1. callView[c].phase = "asked"
      BY <2>5
    <3>2. QED BY <2>8, <2>9, <3>1 DEF Rpc!Execute
  <2>11. QED BY <2>2, <2>10 DEF Rpc!Next
<1>5. CASE Restack
  <2>1. UNCHANGED <<client, sent, reply>> /\ Restacked(stack, stack')
    BY <1>5 DEF Restack
  <2>2. Rpc!Restack
    BY <2>1, Unseen, SameRequests DEF Rpc!Restack
  <2>3. QED BY <2>2 DEF Rpc!Next
<1>6. CASE Exit
  <2> DEFINE C == {c \in Conn : client[c] = "waiting"}
  <2>1. /\ client' = [c \in Conn |->
             IF client[c] \in {"connected", "waiting"} THEN "failed" ELSE client[c]]
        /\ UNCHANGED <<sent, reply, stack>>
    BY <1>6 DEF Exit
  <2>2. \A c \in C : /\ client[c] = "waiting" /\ client'[c] = "failed"
                     /\ sent[c] # NoRequest /\ sent'[c] = sent[c]
                     /\ reply[c] = {} \/ \E a : reply[c] = {a}
    BY <1>0, <2>1 DEF Progress, Answers
  <2>3. ASSUME NEW c \in Conn \ C
        PROVE  CallView(sent'[c], client'[c], reply'[c]) = CallView(sent[c], client[c], reply[c])
    <3>1. CASE client[c] = "connected"
      <4>1. sent[c] = NoRequest
        BY <1>0, <3>1 DEF Progress
      <4>2. QED BY <2>1, <3>1, <4>1, IdleView
    <3>2. CASE client[c] # "connected"
      BY <2>1, <3>2
    <3>3. QED BY <3>1, <3>2
  <2>4. Rpc!Fail
    <3>1. C \in SUBSET Conn
      OBVIOUS
    <3> HIDE DEF C
    <3>2. QED BY <2>1, <2>2, <2>3, <3>1, Failed
  <2>5. QED BY <2>4 DEF Rpc!Next
<1>7. ASSUME NEW c \in Conn, ReadFails(c) PROVE [Rpc!Next]_<<callView, stack>>
  <2>1. /\ worker[c] = "reading"
        /\ client' = [client EXCEPT ![c] = IF @ = "waiting" THEN "answered" ELSE @]
        /\ reply' = [reply EXCEPT ![c] =
             IF client[c] = "waiting" THEN Responses(stack, sent[c]) ELSE @]
        /\ client[c] = "left" \/ (client[c] = "waiting" /\ sent[c].kind = "malformed")
        /\ UNCHANGED <<sent, stack>>
    BY <1>7 DEF ReadFails, WriteResponse
  <2>2. CASE client[c] = "left"
    <3>1. \A d \in Conn : client'[d] = client[d] /\ reply'[d] = reply[d] /\ sent'[d] = sent[d]
      BY <1>0, <2>1, <2>2 DEF Types
    <3>2. QED BY <2>1, <3>1, Unseen
  <2>3. CASE client[c] = "waiting" /\ sent[c].kind = "malformed"
    <3>1. sent[c] \in Request /\ sent[c] # NoRequest /\ reply[c] = {}
      BY <1>0, <2>1, <2>3 DEF Types, Progress, Answers
    <3>2. Responses(stack, sent[c]) = {[kind |-> "error"]}
      BY <2>3, <3>1, Refusal
    <3>3. callView[c] = [phase |-> "asked", request |-> sent[c]]
      BY <2>3, <3>1, ViewOfCall, ViewCases
    <3>4. reply'[c] = {[kind |-> "error"]} /\ client'[c] = "answered" /\ sent'[c] = sent[c]
      BY <1>0, <2>1, <2>3, <3>2 DEF Types
    <3>5. CallView(sent'[c], client'[c], reply'[c]) =
            [phase |-> "over", answer |-> [kind |-> "error"]]
      <4>1. CallView(sent[c], "answered", {[kind |-> "error"]}) =
              [phase |-> "over", answer |-> [kind |-> "error"]]
        BY <3>1, ViewCases
      <4>2. QED BY <3>4, <4>1
    <3>6. \A d \in Conn \ {c} :
            sent'[d] = sent[d] /\ client'[d] = client[d] /\ reply'[d] = reply[d]
      BY <1>0, <2>1 DEF Types
    <3>7. callView' = [callView EXCEPT ![c] = [phase |-> "over", answer |-> [kind |-> "error"]]]
      BY <3>5, <3>6, Seen
    <3>8. [kind |-> "error"] \in Rpc!Responses(stack, callView[c].request)
      BY <3>2, <3>3, SameRequests
    <3>9. Rpc!Reject(c)
      <4>1. callView[c].phase = "asked" /\ callView[c].request.kind = "malformed"
        BY <2>3, <3>3
      <4>2. QED BY <2>1, <3>7, <3>8, <4>1 DEF Rpc!Reject
    <3>10. QED BY <3>9 DEF Rpc!Next
  <2>4. QED BY <2>1, <2>2, <2>3
<1>8. ASSUME NEW c \in Conn, ForwardFails(c) \/ AnswerFails(c)
      PROVE  [Rpc!Next]_<<callView, stack>>
  <2>1. /\ client' = [client EXCEPT ![c] = IF @ = "waiting" THEN "failed" ELSE @]
        /\ UNCHANGED <<sent, reply, stack>>
    BY <1>8 DEF ForwardFails, AnswerFails, WriteResponse
  <2>2. CASE client[c] = "waiting"
    <3>1. \A d \in {c} : /\ client[d] = "waiting" /\ client'[d] = "failed"
                         /\ sent[d] # NoRequest /\ sent'[d] = sent[d]
                         /\ reply[d] = {} \/ \E a : reply[d] = {a}
      BY <1>0, <2>1, <2>2 DEF Types, Progress, Answers
    <3>2. \A d \in Conn \ {c} : CallView(sent'[d], client'[d], reply'[d])
                                  = CallView(sent[d], client[d], reply[d])
      BY <1>0, <2>1 DEF Types
    <3>3. {c} \in SUBSET Conn
      OBVIOUS
    <3>5. Rpc!Fail
      BY <2>1, <3>1, <3>2, <3>3, Failed
    <3>4. QED BY <3>5 DEF Rpc!Next
  <2>3. CASE client[c] # "waiting"
    <3>1. \A d \in Conn : client'[d] = client[d]
      BY <1>0, <2>1, <2>3 DEF Types
    <3>2. QED BY <2>1, <3>1, Unseen
  <2>4. QED BY <2>2, <2>3
<1>9. ASSUME NEW c \in Conn, Answer(c) PROVE [Rpc!Next]_<<callView, stack>>
  <2>1. /\ client' = [client EXCEPT ![c] = IF @ = "waiting" THEN "answered" ELSE @]
        /\ reply[c] # {} /\ UNCHANGED <<sent, reply, stack>>
    BY <1>9 DEF Answer, WriteResponse
  <2>2. CASE client[c] = "waiting"
    <3>1. PICK a : reply[c] = {a}
      BY <1>0, <2>1 DEF Answers
    <3>2. sent[c] # NoRequest
      BY <1>0, <2>2 DEF Progress
    <3>3. callView[c] = [phase |-> "executed", answer |-> a]
      <4>1. callView[c] = CallView(sent[c], "waiting", {a})
        BY <2>2, <3>1, ViewOfCall
      <4>2. CallView(sent[c], "waiting", {a}) = [phase |-> "executed", answer |-> a]
        BY <3>2, ViewCases
      <4>3. QED BY <4>1, <4>2
    <3>4. CallView(sent'[c], client'[c], reply'[c]) = [phase |-> "over", answer |-> a]
      <4>1. sent'[c] = sent[c] /\ client'[c] = "answered" /\ reply'[c] = {a}
        BY <1>0, <2>1, <2>2, <3>1 DEF Types
      <4>2. CallView(sent[c], "answered", {a}) = [phase |-> "over", answer |-> a]
        BY <3>2, ViewCases
      <4>3. QED BY <4>1, <4>2
    <3>5. \A d \in Conn \ {c} :
            sent'[d] = sent[d] /\ client'[d] = client[d] /\ reply'[d] = reply[d]
      BY <1>0, <2>1 DEF Types
    <3>6. callView' = [callView EXCEPT ![c] = [phase |-> "over", answer |-> a]]
      BY <3>4, <3>5, Seen
    <3>7. Rpc!Return(c)
      BY <2>1, <3>3, <3>6 DEF Rpc!Return
    <3>8. QED BY <3>7 DEF Rpc!Next
  <2>3. CASE client[c] # "waiting"
    <3>1. \A d \in Conn : client'[d] = client[d]
      BY <1>0, <2>1, <2>3 DEF Types
    <3>2. QED BY <2>1, <3>1, Unseen
  <2>4. QED BY <2>2, <2>3
<1>10. QED
  BY <1>1, <1>2, <1>3, <1>4, <1>5, <1>6, <1>7, <1>8, <1>9 DEF IpcNext, Worker, Rpc!Next

\* However connections, workers and other events interleave, a client sees one
\* request take effect once, at one moment, and the answer of that moment; or
\* its call fails, for which RpcService asks no reason.
THEOREM RefinementHolds == IpcSpec => ImplementsRpc
<1>1. IpcSpec => Rpc!Init
  BY InitRpc DEF IpcSpec
<1>2. IpcSpec => [][Rpc!Next]_<<callView, stack>>
  BY IpcInvHolds, NextRpc, PTL DEF IpcSpec
<1>3. QED BY <1>1, <1>2 DEF ImplementsRpc, Rpc!Spec

-----------------------------------------------------------------------------
(* The keyboard: the filter of keyboard_key_to_action, for every keyboard, *)
(* every set of scripts and whatever is reloaded between two events.  It   *)
(* looks at the binds on a press only and at suppressed_keys on a release: *)
(* the proofs leave Shortcut and Effect unexpanded, so they hold for every *)
(* table of binds and for one that changes between any two events.         *)

\* Only keys are pressed, suppressed or believed pressed.
KeySets ==
  /\ pressed_keys \subseteq Key /\ down \subseteq Key
  /\ suppressed_keys \subseteq Key /\ stale \subseteq Key

\* A key is marked as stale only while its mark can still do harm.
MarksKept == stale \subseteq pressed_keys \cup down \cup suppressed_keys

\* The inductive invariant.
KeyInv == KeySets /\ MarksKept /\ KeysPaired
-----------------------------------------------------------------------------
\* A step of the configuration, or none, leaves the keys alone.
LEMMA NoKeyMoves ==
  ASSUME KeyInv, UNCHANGED <<pressed_keys, down, suppressed_keys, stale>>
  PROVE  KeyInv'
BY DEF KeyInv, KeySets, MarksKept, KeysPaired

\* A press is kept from the client together with its mark, or seen by it and
\* not marked, whatever the binds say.
LEMMA PressKeeps ==
  ASSUME KeyInv, NEW k \in Key, NEW inhibited \in BOOLEAN, Press(k, inhibited)
  PROVE  KeyInv'
<1>1. /\ k \notin pressed_keys /\ pressed_keys' = pressed_keys \cup {k}
      /\ stale' = stale \cap (pressed_keys' \cup down' \cup suppressed_keys')
  BY DEF Press, StillStale
<1>2. \/ suppressed_keys' = suppressed_keys \cup {k} /\ down' = down
      \/ suppressed_keys' = suppressed_keys /\ down' = down \cup {k}
  BY DEF Press
<1>3. k \notin stale => k \notin down /\ k \notin suppressed_keys
  BY <1>1 DEF KeyInv, KeysPaired
<1> QED
  BY <1>1, <1>2, <1>3 DEF KeyInv, KeySets, MarksKept, KeysPaired

\* The release of a suppressed key is kept from the client and takes the mark;
\* any other is seen by it.
LEMMA ReleaseKeeps ==
  ASSUME KeyInv, NEW k \in Key, Release(k)
  PROVE  KeyInv'
BY DEF KeyInv, KeySets, MarksKept, KeysPaired, Release, StillStale

\* A layer surface that has the keyboard hears of the press.
LEMMA PressToLayerKeeps ==
  ASSUME KeyInv, NEW k \in Key, PressToLayer(k)
  PROVE  KeyInv'
BY DEF KeyInv, KeySets, MarksKept, KeysPaired, PressToLayer

\* It hears of the release as well, and a key suppressed before it came is
\* stale from then on.
LEMMA ReleaseToLayerKeeps ==
  ASSUME KeyInv, NEW k \in Key, ReleaseToLayer(k)
  PROVE  KeyInv'
BY DEF KeyInv, KeySets, MarksKept, KeysPaired, ReleaseToLayer, StillStale

\* When the window of a nested backend loses the focus everything is released,
\* and all that was suppressed while pressed is stale.
LEMMA FocusLostKeeps ==
  ASSUME KeyInv, FocusLost
  PROVE  KeyInv'
BY DEF KeyInv, KeySets, MarksKept, KeysPaired, FocusLost, StillStale
-----------------------------------------------------------------------------
\* KeyInv is inductive.
LEMMA KeyInvInductive ==
  /\ ControlInit => KeyInv
  /\ KeyInv /\ [ControlNext]_controlVars => KeyInv'
<1>1. ControlInit => KeyInv
  BY DEF ControlInit, KeyInit, KeyInv, KeySets, MarksKept, KeysPaired
<1>2. KeyInv /\ [ControlNext]_controlVars => KeyInv'
  <2> SUFFICES ASSUME KeyInv, [ControlNext]_controlVars PROVE KeyInv'
    OBVIOUS
  <2>1. CASE FocusLost BY <2>1, FocusLostKeeps
  <2>2. CASE \E k \in Key : \E inhibited \in BOOLEAN : Press(k, inhibited)
    BY <2>2, PressKeeps
  <2>3. CASE \E k \in Key : Release(k) BY <2>3, ReleaseKeeps
  <2>4. CASE \E k \in Key : PressToLayer(k) BY <2>4, PressToLayerKeeps
  <2>5. CASE \E k \in Key : ReleaseToLayer(k) BY <2>5, ReleaseToLayerKeeps
  <2>6. CASE Between(ConfigNext) BY <2>6, NoKeyMoves DEF Between
  <2>7. CASE UNCHANGED controlVars BY <2>7, NoKeyMoves DEF controlVars, keyVars
  <2> QED
    BY <2>1, <2>2, <2>3, <2>4, <2>5, <2>6, <2>7 DEF ControlNext, KeyNext
<1> QED BY <1>1, <1>2

\* A key the client saw pressed is released for it too, and one kept from it is
\* kept to the end, whatever is reloaded, inhibited or focused in between.
THEOREM KeysPairedHolds == ControlSpec => []KeysPaired
<1>1. KeyInv => KeysPaired BY DEF KeyInv
<1> QED BY <1>1, KeyInvInductive, PTL DEF ControlSpec
-----------------------------------------------------------------------------
(* The reload of the configuration.                                        *)

\* The fallback can be read, and what can be read is a script.
LEMMA FallbackReadable ==
  Fallback \in Readable /\ Readable \subseteq DOMAIN Scripts
BY ConfigAssumption DEF Readable

\* A step of the configuration keeps its type, the one timer for many events
\* included: the flag is down exactly when no timer will fire.
LEMMA ConfigStepKeeps ==
  ASSUME ConfigTypeOK, ConfigNext
  PROVE  ConfigTypeOK'
<1>1. CASE \E f \in DOMAIN Scripts \cup {"missing", "unreadable"} : Edit(f)
  BY <1>1, ConfigAssumption DEF Edit, ConfigTypeOK
<1>2. CASE FileChanged
  BY <1>2, ConfigAssumption DEF FileChanged, ConfigTypeOK
<1>3. CASE TimerFires
  <2>1. loaded' \in DOMAIN Scripts
    BY <1>3, FallbackReadable DEF TimerFires, Reload, ConfigTypeOK
  <2>2. config_reload_timer /\ timers = 1
    BY <1>3 DEF TimerFires, ConfigTypeOK
  <2>3. UNCHANGED <<file, watching, events>> /\ timers' = timers - 1
    BY <1>3 DEF TimerFires
  <2>4. config_reload_timer' = FALSE
    BY <1>3 DEF TimerFires
  <2>5. timers' = 0
    BY <2>2, <2>3
  <2>6. timers' = IF config_reload_timer' THEN 1 ELSE 0
    BY <2>4, <2>5, Zenon
  <2> QED
    BY <2>1, <2>3, <2>4, <2>6 DEF ConfigTypeOK
<1> QED
  BY <1>1, <1>2, <1>3 DEF ConfigNext

\* The type invariant of the control plane is inductive together with KeyInv.
LEMMA TypesInductive ==
  /\ ControlInit => ControlTypeOK
  /\ KeyInv' /\ ControlTypeOK /\ [ControlNext]_controlVars => ControlTypeOK'
<1>1. ControlInit => ControlTypeOK
  <2> SUFFICES ASSUME ControlInit PROVE ControlTypeOK
    OBVIOUS
  <2>1. ConfigTypeOK
    <3>1. loaded \in DOMAIN Scripts
      BY FallbackReadable DEF ControlInit, ConfigInit
    <3>2. events = 0 /\ config_reload_timer = FALSE /\ timers = 0
      BY DEF ControlInit, ConfigInit
    <3>3. file \in DOMAIN Scripts \cup {"missing", "unreadable"} /\ watching \in BOOLEAN
      BY DEF ControlInit, ConfigInit
    <3>4. timers = IF config_reload_timer THEN 1 ELSE 0
      BY <3>2, Zenon
    <3>5. events \in 0..MaxEvents
      BY <3>2, ConfigAssumption
    <3>6. config_reload_timer \in BOOLEAN
      BY <3>2, Zenon
    <3> QED BY <3>1, <3>3, <3>4, <3>5, <3>6 DEF ConfigTypeOK
  <2> QED
    BY <2>1 DEF ControlInit, KeyInit, ControlTypeOK
<1>2. KeyInv' /\ ControlTypeOK /\ [ControlNext]_controlVars => ControlTypeOK'
  <2> SUFFICES ASSUME KeyInv', ControlTypeOK, [ControlNext]_controlVars
               PROVE  ControlTypeOK'
    OBVIOUS
  <2> USE DEF ControlTypeOK, KeyInv, KeySets
  <2>1. CASE UNCHANGED configVars /\ KeyNext
    <3>1. ConfigTypeOK' BY <2>1 DEF configVars, ConfigTypeOK
    <3>2. backend' = backend
      BY <2>1 DEF KeyNext, FocusLost, Press, Release, PressToLayer, ReleaseToLayer
    <3>3. did' = <<>> \/ \E r : did' = <<r>>
      BY <2>1, Zenon DEF KeyNext, FocusLost, Press, Release, PressToLayer, ReleaseToLayer
    <3>5. Len(did') \in 0..1 BY <3>3
    <3>4. running' \in BOOLEAN
      BY <2>1 DEF KeyNext, FocusLost, Press, Release, PressToLayer, ReleaseToLayer
    <3> QED BY <3>1, <3>2, <3>4, <3>5
  <2>2. KeyNext => UNCHANGED configVars
    BY DEF KeyNext, FocusLost, Press, Release, PressToLayer, ReleaseToLayer
  <2>3. CASE Between(ConfigNext)
    BY <2>3, ConfigStepKeeps DEF Between
  <2>4. CASE UNCHANGED controlVars
    BY <2>4 DEF controlVars, keyVars, configVars, ConfigTypeOK
  <2> QED BY <2>1, <2>2, <2>3, <2>4 DEF ControlNext
<1> QED BY <1>1, <1>2

\* Type correctness of the state, with the bound on events not yet seen and at
\* most one timer that reloads.
THEOREM KeyTypesHold == ControlSpec => []ControlTypeOK
BY KeyInvInductive, TypesInductive, PTL DEF ControlSpec
-----------------------------------------------------------------------------
(* What a script comes to: the parser of LuaConfig against its meaning.    *)
(* Collected is a fold.  What it has after n calls is shown by the least n *)
(* for which it would be wrong, which has a smaller one, and so does not   *)
(* exist; first the least and the greatest of a set, and that a fold goes  *)
(* through its sequence one call after the other.                          *)

LEMMA SmallestIs ==
  ASSUME NEW I \in SUBSET Nat, I # {}
  PROVE  Min(I) \in I /\ \A j \in I : Min(I) <= j
<1>1. PICK i \in I : \A j \in I : ~ (<<j, i>> \in OpToRel(<, Nat))
  BY NatLessThanWellFounded, WFMin
<1>2. \A j \in I : ~ (j < i)
  BY <1>1 DEF OpToRel
<1>3. \A j \in I : i <= j
  BY <1>2
<1>4. QED BY <1>3 DEF Min

LEMMA GreatestIs ==
  ASSUME NEW n \in Nat, NEW I \in SUBSET (1..n), I # {}
  PROVE  Max(I) \in I /\ \A j \in I : j <= Max(I)
<1> DEFINE below == {n - i : i \in I}
<1>1. below \in SUBSET Nat /\ below # {}
  <2>1. \A i \in I : i \in 1..n
    OBVIOUS
  <2>2. \A i \in 1..n : n - i \in Nat
    OBVIOUS
  <2>3. \A x \in below : x \in Nat
    BY <2>1, <2>2
  <2>4. QED BY <2>3
<1> DEFINE m == Min(below)
<1>2. m \in below /\ \A j \in below : m <= j
  <2> HIDE DEF below
  <2>1. QED BY <1>1, SmallestIs
<1>3. PICK i \in I : m = n - i
  BY <1>2
<1>4. ASSUME NEW j \in I PROVE j <= i
  <2>1. n - j \in below /\ j \in 1..n /\ i \in 1..n
    OBVIOUS
  <2>2. n - i <= n - j
    <3> HIDE DEF below, m
    <3>1. QED BY <1>2, <1>3, <2>1
  <2>3. QED BY <2>1, <2>2
<1>5. \E x \in I : \A y \in I : x >= y
  BY <1>4
<1>6. QED BY <1>5 DEF Max

\* A greater element changes nothing about the smallest one.
LEMMA SmallestKept ==
  ASSUME NEW I \in SUBSET Nat, I # {}, NEW x \in Nat, \A i \in I : i < x
  PROVE  Min(I \cup {x}) = Min(I)
<1>1. I \cup {x} \in SUBSET Nat /\ I \cup {x} # {}
  OBVIOUS
<1>2. Min(I) \in I /\ \A j \in I : Min(I) <= j
  BY SmallestIs
<1> DEFINE m == Min(I \cup {x})
<1>3. m \in I \cup {x} /\ \A j \in I \cup {x} : m <= j
  BY <1>1, SmallestIs
<1> HIDE DEF m
<1>4. m \in Nat /\ Min(I) \in Nat /\ m <= Min(I) /\ Min(I) < x
  BY <1>2, <1>3
<1>5. Min(I) <= m
  BY <1>2, <1>3, <1>4
<1>6. m = Min(I)
  BY <1>4, <1>5
<1>7. QED BY <1>6 DEF m

LEMMA SmallestOfOne == ASSUME NEW x \in Nat PROVE Min({x}) = x
BY SmallestIs

\* What FoldLeft chooses: what has been collected from some of the calls, the
\* last of them being added to the others.
Before(e, T, g) == IF T = {} THEN Nothing ELSE Call(g[T \ {Max(T)}], e[Max(T)])
FoldsOver(e, S, g) == g = [T \in SUBSET S |-> Before(e, T, g)]

LEMMA FoldIsChosen ==
  ASSUME NEW e
  PROVE  FoldLeft(Call, Nothing, e) = (CHOOSE g : FoldsOver(e, DOMAIN e, g))[DOMAIN e]
BY DEF FoldLeft, MapThenFoldSet, FoldsOver, Before, Max

LEMMA FoldsExist ==
  ASSUME NEW e, NEW n \in Nat
  PROVE  \E g : FoldsOver(e, 1..n, g)
<1> DEFINE Missing == {m \in Nat : ~ \E g : FoldsOver(e, 1..m, g)}
<1>1. SUFFICES ASSUME Missing # {} PROVE FALSE
  OBVIOUS
<1>2. PICK m \in Missing : \A k \in Missing : m <= k
  BY <1>1, SmallestIs
<1>3. CASE m = 0
  <2> DEFINE g == [T \in SUBSET (1..m) |-> Nothing]
  <2>1. \A T \in SUBSET (1..m) : T = {}
    BY <1>3
  <2>2. \A T \in SUBSET (1..m) : Before(e, T, g) = Nothing
    BY <2>1 DEF Before
  <2>3. g = [T \in SUBSET (1..m) |-> Before(e, T, g)]
    BY <2>2
  <2>4. QED BY <2>3 DEF FoldsOver
<1>4. CASE m # 0
  <2>1. m \in Nat /\ m - 1 \in Nat /\ ~(m <= m - 1)
    BY <1>4
  <2>2. PICK g : FoldsOver(e, 1..(m - 1), g)
    BY <1>2, <2>1
  <2> DEFINE h == [T \in SUBSET (1..m) |-> Before(e, T, g)]
  <2>3. ASSUME NEW T \in SUBSET (1..(m - 1)) PROVE T \in SUBSET (1..m) /\ h[T] = g[T]
    <3>1. T \in SUBSET (1..m)
      BY <2>1
    <3>2. g[T] = Before(e, T, g)
      BY <2>2 DEF FoldsOver
    <3>3. QED BY <3>1, <3>2
  <2>4. ASSUME NEW T \in SUBSET (1..m) PROVE Before(e, T, h) = Before(e, T, g)
    <3>1. CASE T = {}
      BY <3>1 DEF Before
    <3>2. CASE T # {}
      <4>1. Max(T) \in T /\ \A j \in T : j <= Max(T)
        BY <2>1, <3>2, GreatestIs
      <4>2. T \ {Max(T)} \in SUBSET (1..(m - 1))
        <5>1. SUFFICES ASSUME NEW j \in T, j # Max(T) PROVE j \in 1..(m - 1)
          OBVIOUS
        <5>2. j \in 1..m /\ Max(T) \in 1..m /\ j <= Max(T)
          BY <4>1, <5>1
        <5>3. QED BY <2>1, <5>1, <5>2
      <4>3. h[T \ {Max(T)}] = g[T \ {Max(T)}]
        BY <2>3, <4>2
      <4> HIDE DEF h
      <4>4. QED BY <3>2, <4>3 DEF Before
    <3>3. QED BY <3>1, <3>2
  <2>5. h = [T \in SUBSET (1..m) |-> Before(e, T, h)]
    <3>1. h = [T \in SUBSET (1..m) |-> Before(e, T, g)]
      OBVIOUS
    <3> HIDE DEF h
    <3>2. QED BY <2>4, <3>1
  <2>6. QED BY <2>5 DEF FoldsOver
<1>5. QED BY <1>3, <1>4

\* One call after the other.
StepsOf(e, after) ==
  /\ after[0] = Nothing
  /\ \A n \in 1..Len(e) : after[n] = Call(after[n - 1], e[n])
  /\ FoldLeft(Call, Nothing, e) = after[Len(e)]

LEMMA FoldSteps ==
  ASSUME NEW e, Len(e) \in Nat, DOMAIN e = 1..Len(e)
  PROVE  \E after : StepsOf(e, after)
<1> DEFINE g == CHOOSE x : FoldsOver(e, 1..Len(e), x)
           after == [n \in 0..Len(e) |-> g[1..n]]
<1>1. FoldsOver(e, 1..Len(e), g)
  BY FoldsExist
<1>2. FoldLeft(Call, Nothing, e) = g[1..Len(e)]
  BY FoldIsChosen
<1> HIDE DEF g
<1>3. after[0] = Nothing
  <2>1. 1..0 = {} /\ {} \in SUBSET (1..Len(e))
    OBVIOUS
  <2>2. g[{}] = Before(e, {}, g)
    BY <1>1, <2>1 DEF FoldsOver
  <2>3. QED BY <2>1, <2>2 DEF Before
<1>4. ASSUME NEW n \in 1..Len(e) PROVE after[n] = Call(after[n - 1], e[n])
  <2>1. n \in Nat /\ n >= 1 /\ 1..n \in SUBSET (1..Len(e)) /\ 1..n # {}
    <3>1. n \in Nat /\ n >= 1 /\ n <= Len(e)
      OBVIOUS
    <3>2. \A i \in 1..n : i \in 1..Len(e)
      BY <3>1
    <3>3. 1 \in 1..n
      BY <3>1
    <3>4. QED BY <3>1, <3>2, <3>3
  <2>2. Max(1..n) = n
    <3>1. Max(1..n) \in 1..n /\ \A j \in 1..n : j <= Max(1..n)
      BY <2>1, GreatestIs
    <3>2. n \in 1..n
      BY <2>1
    <3>3. QED BY <2>1, <3>1, <3>2
  <2>3. (1..n) \ {n} = 1..(n - 1)
    BY <2>1
  <2>4. g[1..n] = Before(e, 1..n, g)
    BY <1>1, <2>1 DEF FoldsOver
  <2>5. g[1..n] = Call(g[1..(n - 1)], e[n])
    BY <2>1, <2>2, <2>3, <2>4 DEF Before
  <2>6. n \in 0..Len(e) /\ n - 1 \in 0..Len(e)
    BY <2>1
  <2>7. QED BY <2>5, <2>6
<1>5. after[Len(e)] = g[1..Len(e)]
  OBVIOUS
<1> HIDE DEF after
<1>6. StepsOf(e, after)
  BY <1>2, <1>3, <1>4, <1>5 DEF StepsOf
<1>7. QED BY <1>6

-----------------------------------------------------------------------------
(* Sequences of any elements.                                              *)

Listed(s) == s \in Seq(ToSet(s))

LEMMA Indices == ASSUME NEW s, Listed(s) PROVE Len(s) \in Nat /\ DOMAIN s = 1..Len(s)
<1> DEFINE S == ToSet(s)
<1>1. s \in Seq(S)
  BY DEF Listed
<1> HIDE DEF S
<1>2. QED BY <1>1, LenProperties

LEMMA Appended ==
  ASSUME NEW s, Listed(s), NEW x, NEW t, t = Append(s, x)
  PROVE  /\ Listed(t) /\ Len(t) = Len(s) + 1 /\ t[Len(s) + 1] = x
         /\ \A i \in 1..Len(s) : t[i] = s[i]
<1> DEFINE S == ToSet(s) \cup {x}
<1>1. s \in Seq(S)
  <2>1. s \in Seq(ToSet(s)) /\ ToSet(s) \subseteq S
    BY DEF Listed
  <2>2. QED BY <2>1, SeqMonotonic
<1>2. x \in S
  OBVIOUS
<1> HIDE DEF S
<1>3. /\ t \in Seq(S) /\ Len(t) = Len(s) + 1 /\ t[Len(s) + 1] = x
      /\ \A i \in 1..Len(s) : t[i] = s[i]
  BY <1>1, <1>2, AppendProperties
<1>4. Listed(t)
  <2>1. Len(t) \in Nat /\ t = [i \in 1..Len(t) |-> t[i]] /\ DOMAIN t = 1..Len(t)
    BY <1>3, LenProperties
  <2>2. \A i \in 1..Len(t) : t[i] \in ToSet(t)
    BY <2>1 DEF ToSet
  <2>3. QED BY <2>1, <2>2, IsASeq DEF Listed
<1>5. QED BY <1>3, <1>4

\* What SelectInSeq finds is the first element that passes the test.
LEMMA ExecutedCalls ==
  ASSUME NEW script, IsScript(script)
  PROVE  LET e == Executed(script)
         IN  /\ Len(e) \in Nat /\ DOMAIN e = 1..Len(e)
             /\ \A i \in 1..Len(e) :
                  ~Raises(e[i]) /\ e[i].name \in {"bind", "layout", "spawn", "error"}
<1> DEFINE s == script.body
           wrong == {i \in 1..Len(s) : Raises(s[i])}
           e == Executed(script)
<1>1. /\ Listed(s) /\ Len(s) \in Nat /\ DOMAIN s = 1..Len(s)
      /\ \A i \in 1..Len(s) : s[i].name \in {"bind", "layout", "spawn", "error"}
  <2>1. Listed(s) /\ \A call \in ToSet(s) : call.name \in {"bind", "layout", "spawn", "error"}
    BY DEF IsScript, Listed
  <2> HIDE DEF s
  <2>2. Len(s) \in Nat /\ DOMAIN s = 1..Len(s)
    BY <2>1, Indices
  <2>3. \A i \in 1..Len(s) : s[i] \in ToSet(s)
    BY <2>2 DEF ToSet
  <2>4. QED BY <2>1, <2>2, <2>3
<1>2. CASE wrong = {}
  <2>1. e = s
    BY <1>2 DEF Executed, SelectInSeq
  <2>2. \A i \in 1..Len(s) : ~Raises(s[i])
    BY <1>2
  <2> HIDE DEF s, e
  <2>3. QED BY <1>1, <2>1, <2>2 DEF e
<1>3. CASE wrong # {}
  <2> DEFINE m == Min(wrong)
  <2>1. m \in wrong /\ \A j \in wrong : m <= j
    <3>1. wrong \in SUBSET Nat
      OBVIOUS
    <3> HIDE DEF wrong
    <3>2. QED BY <1>3, <3>1, SmallestIs
  <2>2. m # 0 /\ m \in 1..Len(s)
    BY <2>1
  <2>3. e = SubSeq(s, 1, m - 1)
    BY <1>3, <2>2 DEF Executed, SelectInSeq
  <2>4. \A i \in 1..(m - 1) : i \in 1..Len(s) /\ ~Raises(s[i])
    <3>1. SUFFICES ASSUME NEW i \in 1..(m - 1) PROVE i \in 1..Len(s) /\ i \notin wrong
      OBVIOUS
    <3> HIDE DEF wrong, m
    <3>2. QED BY <1>1, <2>1, <2>2
  <2> HIDE DEF s, e, m, wrong
  <2>5. /\ Len(e) = m - 1 /\ m - 1 \in Nat /\ DOMAIN e = 1..Len(e)
        /\ \A i \in 1..(m - 1) : e[i] = s[i]
    <3> DEFINE S == ToSet(s)
    <3>1. s \in Seq(S) /\ m - 1 \in 0..Len(s) /\ m - 1 \in Nat
      BY <1>1, <2>2 DEF Listed
    <3> HIDE DEF S
    <3>2. /\ e \in Seq(S) /\ Len(e) = IF 1 <= m - 1 THEN m - 1 - 1 + 1 ELSE 0
          /\ \A i \in 1..(m - 1) : e[i] = s[1 + i - 1]
      BY <1>1, <2>2, <2>3, <3>1, SubSeqProperties
    <3>3. Len(e) = m - 1
      BY <2>2, <3>1, <3>2
    <3>4. \A i \in 1..(m - 1) : e[i] = s[i]
      BY <3>1, <3>2
    <3>5. DOMAIN e = 1..Len(e)
      BY <3>2, LenProperties
    <3>6. QED BY <3>1, <3>3, <3>4, <3>5
  <2>6. QED BY <1>1, <2>4, <2>5 DEF e
<1>4. QED BY <1>2, <1>3

-----------------------------------------------------------------------------
(* What the calls collect.                                                 *)

\* The binds and functions collected are listed.
Shaped(acc) ==
  /\ acc = [binds |-> acc.binds, layout |-> acc.layout, commands |-> acc.commands,
            callbacks |-> acc.callbacks]
  /\ Listed(acc.binds) /\ Listed(acc.callbacks)

\* A collected action stands for what the author wrote: a function for the one
\* at its index.
StandsFor(action, meant, callbacks) ==
  \/ /\ action.kind = "Callback" /\ meant \in Function
     /\ action.idx \in Nat /\ action.idx < Len(callbacks) /\ callbacks[action.idx + 1] = meant
  \/ action.kind = meant /\ meant \in Descriptors

\* The calls, and the binds, that are for a key.
CallsFor(e, n, mods, key) ==
  {i \in 1..n : e[i].name = "bind" /\ e[i].mods = mods /\ e[i].key = key}
BindsFor(binds, mods, key) ==
  {j \in 1..Len(binds) : binds[j].mods = mods /\ binds[j].key = key}

\* After n calls: the first bind for a key stands for the first call for it.
SameFirst(acc, e, n, mods, key) ==
  LET calls == CallsFor(e, n, mods, key)
      binds == BindsFor(acc.binds, mods, key)
  IN  \/ calls = {} /\ binds = {}
      \/ /\ calls # {} /\ binds # {}
         /\ StandsFor(acc.binds[Min(binds)].action, e[Min(calls)].action, acc.callbacks)

Faithful(acc, e, n, mods, key) ==
  /\ Shaped(acc)
  /\ acc.binds = <<>> <=> \A i \in 1..n : e[i].name # "bind"
  /\ SameFirst(acc, e, n, mods, key)

\* The functions met later change nothing.
LEMMA StillStandsFor ==
  ASSUME NEW action, NEW meant, NEW callbacks, Listed(callbacks), NEW f,
         StandsFor(action, meant, callbacks)
  PROVE  StandsFor(action, meant, Append(callbacks, f))
<1> DEFINE later == Append(callbacks, f)
<1>1. /\ Len(later) = Len(callbacks) + 1 /\ \A i \in 1..Len(callbacks) : later[i] = callbacks[i]
      /\ Len(callbacks) \in Nat
  BY Appended, Indices
<1> HIDE DEF later
<1>2. CASE action.kind = meant /\ meant \in Descriptors
  BY <1>2 DEF StandsFor, later
<1>3. CASE ~(action.kind = meant /\ meant \in Descriptors)
  <2> DEFINE i == action.idx
  <2>1. /\ action.kind = "Callback" /\ meant \in Function
        /\ i \in Nat /\ i < Len(callbacks) /\ callbacks[i + 1] = meant
    BY <1>3 DEF StandsFor
  <2> HIDE DEF i
  <2>2. i < Len(later) /\ later[i + 1] = meant
    BY <1>1, <2>1
  <2>3. StandsFor(action, meant, later)
    BY <2>1, <2>2 DEF StandsFor, i
  <2>4. QED BY <2>3 DEF later
<1>4. QED BY <1>2, <1>3

\* A call that is not a bind adds functions at most.
LEMMA OtherCallFollows ==
  ASSUME NEW acc, NEW e, NEW n \in Nat \ {0}, NEW mods, NEW key,
         Faithful(acc, e, n - 1, mods, key), e[n].name \in {"layout", "spawn"}
  PROVE  Faithful(Call(acc, e[n]), e, n, mods, key)
<1> DEFINE later == Call(acc, e[n])
<1>1. Shaped(acc)
  BY DEF Faithful
<1>2. /\ later.binds = acc.binds
      /\ later.callbacks = acc.callbacks \/ \E f : later.callbacks = Append(acc.callbacks, f)
      /\ later = [binds |-> later.binds, layout |-> later.layout,
                  commands |-> later.commands, callbacks |-> later.callbacks]
  <2>1. CASE e[n].name = "layout"
    <3>1. later = Layout(acc, e[n])
      BY <2>1 DEF Call
    <3>2. QED BY <1>1, <3>1 DEF Layout, Shaped
  <2>2. CASE e[n].name = "spawn"
    <3>1. later = [acc EXCEPT !.commands = Append(@, e[n].command)]
      BY <2>2 DEF Call
    <3>2. QED BY <1>1, <3>1 DEF Shaped
  <2>3. QED BY <2>1, <2>2
<1> HIDE DEF later
<1>3. Shaped(later)
  BY <1>1, <1>2, Appended DEF Shaped
<1>4. CallsFor(e, n, mods, key) = CallsFor(e, n - 1, mods, key)
  <2>1. \A i \in 1..n : i \in 1..(n - 1) \/ i = n
    OBVIOUS
  <2>2. \A i \in 1..(n - 1) : i \in 1..n
    OBVIOUS
  <2>3. e[n].name # "bind"
    OBVIOUS
  <2>4. QED BY <2>1, <2>2, <2>3 DEF CallsFor
<1>5. later.binds = <<>> <=> \A i \in 1..n : e[i].name # "bind"
  <2>1. \A i : i \in 1..n <=> i \in 1..(n - 1) \/ i = n
    OBVIOUS
  <2>2. QED BY <1>2, <2>1 DEF Faithful
<1>6. SameFirst(later, e, n, mods, key)
  <2>1. \A action, meant : StandsFor(action, meant, acc.callbacks)
                             => StandsFor(action, meant, later.callbacks)
    BY <1>1, <1>2, StillStandsFor, Zenon DEF Shaped
  <2>2. SameFirst(acc, e, n - 1, mods, key)
    BY DEF Faithful
  <2>3. QED BY <1>2, <1>4, <2>1, <2>2, Zenon DEF SameFirst
<1>7. QED BY <1>3, <1>5, <1>6 DEF Faithful, later

\* A bind is added behind the others, with the index its function gets.
LEMMA BindAdds ==
  ASSUME NEW acc, Shaped(acc), NEW call, call.name = "bind"
  PROVE  LET later == Call(acc, call)
             new == [mods |-> call.mods, key |-> call.key, action |-> BindAction(call, acc)]
         IN  /\ Shaped(later) /\ later.binds = Append(acc.binds, new)
             /\ later.callbacks = IF call.action \in Function
                                    THEN Append(acc.callbacks, call.action) ELSE acc.callbacks
<1> DEFINE later == Call(acc, call)
           new == [mods |-> call.mods, key |-> call.key, action |-> BindAction(call, acc)]
<1>1. later = Bind(acc, call)
  BY DEF Call
<1>2. /\ later.binds = Append(acc.binds, new)
      /\ later.callbacks = IF call.action \in Function
                             THEN Append(acc.callbacks, call.action) ELSE acc.callbacks
      /\ later = [binds |-> later.binds, layout |-> later.layout,
                  commands |-> later.commands, callbacks |-> later.callbacks]
  BY <1>1 DEF Bind, Shaped
<1> HIDE DEF later, new
<1>3. Listed(later.binds) /\ Listed(later.callbacks)
  <2>1. Listed(acc.binds) /\ Listed(acc.callbacks)
    BY DEF Shaped
  <2>2. \A s, x : Listed(s) => Listed(Append(s, x))
    BY Appended
  <2>3. QED BY <1>2, <2>1, <2>2, Zenon
<1>4. Shaped(later)
  BY <1>2, <1>3, Zenon DEF Shaped
<1>5. QED BY <1>2, <1>4 DEF later, new

\* It stands for what was written.
LEMMA BindStandsFor ==
  ASSUME NEW acc, Shaped(acc), NEW call, call.name = "bind", ~Raises(call)
  PROVE  StandsFor(BindAction(call, acc), call.action, Call(acc, call).callbacks)
<1> DEFINE later == Call(acc, call).callbacks
<1>1. later = IF call.action \in Function THEN Append(acc.callbacks, call.action) ELSE acc.callbacks
  BY BindAdds
<1>2. call.action \in Descriptors \cup Function
  BY DEF Raises
<1> HIDE DEF later
<1>3. CASE call.action \in Function
  <2> DEFINE action == BindAction(call, acc)
  <2>1. action = [kind |-> "Callback", idx |-> Len(acc.callbacks)]
    BY <1>3 DEF BindAction
  <2>2. action.kind = "Callback" /\ action.idx = Len(acc.callbacks)
    BY <2>1
  <2>3. /\ Len(acc.callbacks) \in Nat /\ Len(later) = Len(acc.callbacks) + 1
        /\ later[Len(acc.callbacks) + 1] = call.action
    BY <1>1, <1>3, Appended, Indices DEF Shaped
  <2> HIDE DEF action
  <2>4. StandsFor(action, call.action, later)
    BY <1>3, <2>2, <2>3 DEF StandsFor
  <2>5. QED BY <2>4 DEF action, later
<1>4. CASE call.action \notin Function
  BY <1>2, <1>4 DEF StandsFor, BindAction
<1>5. QED BY <1>3, <1>4

\* Which calls and binds SameFirst compares.
LEMMA SameFirstOf ==
  ASSUME NEW acc, NEW e, NEW n, NEW mods, NEW key, NEW calls, NEW binds,
         calls = CallsFor(e, n, mods, key), binds = BindsFor(acc.binds, mods, key)
  PROVE  SameFirst(acc, e, n, mods, key) <=>
           \/ calls = {} /\ binds = {}
           \/ /\ calls # {} /\ binds # {}
              /\ StandsFor(acc.binds[Min(binds)].action, e[Min(calls)].action, acc.callbacks)
BY Zenon DEF SameFirst

LEMMA BindFollows ==
  ASSUME NEW acc, NEW e, NEW n \in Nat \ {0}, NEW mods, NEW key,
         Faithful(acc, e, n - 1, mods, key), e[n].name = "bind", ~Raises(e[n])
  PROVE  Faithful(Call(acc, e[n]), e, n, mods, key)
<1> DEFINE call == e[n]
           later == Call(acc, call)
           new == [mods |-> call.mods, key |-> call.key, action |-> BindAction(call, acc)]
           m == Len(acc.binds)
           calls == CallsFor(e, n - 1, mods, key)
           binds == BindsFor(acc.binds, mods, key)
<1>1. Shaped(acc) /\ Listed(acc.binds) /\ Listed(acc.callbacks) /\ m \in Nat
  BY Indices DEF Faithful, Shaped
<1>2. /\ Shaped(later) /\ later.binds = Append(acc.binds, new)
      /\ later.callbacks = IF call.action \in Function
                             THEN Append(acc.callbacks, call.action) ELSE acc.callbacks
  BY <1>1, BindAdds
<1>3. StandsFor(new.action, call.action, later.callbacks)
  BY <1>1, BindStandsFor
<1>4. new.mods = call.mods /\ new.key = call.key
  OBVIOUS
<1> HIDE DEF later, new, m
<1>5. /\ Len(later.binds) = m + 1 /\ later.binds[m + 1] = new
      /\ \A i \in 1..m : later.binds[i] = acc.binds[i]
  BY <1>1, <1>2, Appended DEF m
<1>6. /\ calls \in SUBSET Nat /\ \A i \in calls : i < n
      /\ binds \in SUBSET Nat /\ \A j \in binds : j \in 1..m /\ j < m + 1
  BY <1>1 DEF CallsFor, BindsFor, m
<1>7. later.binds = <<>> <=> \A i \in 1..n : e[i].name # "bind"
  <2>1. n \in 1..n /\ ~ \A i \in 1..n : e[i].name # "bind"
    OBVIOUS
  <2>2. later.binds # <<>>
    BY <1>1, <1>5
  <2>3. QED BY <2>1, <2>2
<1>8. \A i : i \in 1..n <=> i \in 1..(n - 1) \/ i = n
  OBVIOUS
<1>9. \A j : j \in 1..(m + 1) <=> j \in 1..m \/ j = m + 1
  BY <1>1
<1>10. \A action, meant : StandsFor(action, meant, acc.callbacks)
                            => StandsFor(action, meant, later.callbacks)
  BY <1>1, <1>2, StillStandsFor, Zenon
<1>11. \/ calls = {} /\ binds = {}
       \/ /\ calls # {} /\ binds # {}
          /\ StandsFor(acc.binds[Min(binds)].action, e[Min(calls)].action, acc.callbacks)
  <2>1. SameFirst(acc, e, n - 1, mods, key)
    BY DEF Faithful
  <2>2. QED BY <2>1 DEF SameFirst
<1> HIDE DEF calls, binds
<1> DEFINE callsLater == CallsFor(e, n, mods, key)
           bindsLater == BindsFor(later.binds, mods, key)
<1>12. SameFirst(later, e, n, mods, key) <=>
         \/ callsLater = {} /\ bindsLater = {}
         \/ /\ callsLater # {} /\ bindsLater # {}
            /\ StandsFor(later.binds[Min(bindsLater)].action, e[Min(callsLater)].action,
                         later.callbacks)
  BY SameFirstOf, Zenon
<1>13. /\ \A i \in 1..m : later.binds[i] = acc.binds[i]
       /\ binds # {} => Min(binds) \in 1..m
  BY <1>5, <1>6, SmallestIs
<1>14. ASSUME calls # {} \/ binds # {}
       PROVE  /\ calls # {} /\ binds # {}
              /\ StandsFor(later.binds[Min(binds)].action, e[Min(calls)].action, later.callbacks)
  <2>1. /\ calls # {} /\ binds # {}
        /\ StandsFor(acc.binds[Min(binds)].action, e[Min(calls)].action, acc.callbacks)
    BY <1>11, <1>14
  <2>2. StandsFor(acc.binds[Min(binds)].action, e[Min(calls)].action, later.callbacks)
    BY <1>10, <2>1, Zenon
  <2>3. later.binds[Min(binds)] = acc.binds[Min(binds)]
    BY <1>13, <2>1, Zenon
  <2>4. QED BY <2>1, <2>2, <2>3, Zenon
<1>15. ASSUME ~(call.mods = mods /\ call.key = key) PROVE SameFirst(later, e, n, mods, key)
  <2>1. callsLater = calls
    BY <1>8, <1>15 DEF CallsFor, calls
  <2>2. bindsLater = binds
    BY <1>4, <1>5, <1>9, <1>15 DEF BindsFor, binds, m
  <2> HIDE DEF callsLater, bindsLater
  <2>3. QED BY <1>11, <1>12, <1>14, <2>1, <2>2, Zenon
<1>16. ASSUME call.mods = mods, call.key = key PROVE SameFirst(later, e, n, mods, key)
  <2>1. callsLater = calls \cup {n}
    BY <1>8, <1>16 DEF CallsFor, calls
  <2>2. bindsLater = binds \cup {m + 1}
    BY <1>4, <1>5, <1>9, <1>16 DEF BindsFor, binds, m
  <2> HIDE DEF callsLater, bindsLater, call
  <2>3. callsLater # {} /\ bindsLater # {}
    BY <2>1, <2>2
  <2>4. CASE calls = {} /\ binds = {}
    <3>1. callsLater = {n} /\ bindsLater = {m + 1}
      BY <2>1, <2>2, <2>4
    <3>2. Min(callsLater) = n /\ Min(bindsLater) = m + 1
      BY <1>1, <3>1, SmallestOfOne
    <3>3. StandsFor(later.binds[m + 1].action, e[n].action, later.callbacks)
      BY <1>3, <1>5 DEF call
    <3>4. QED BY <1>12, <2>3, <3>2, <3>3, Zenon
  <2>5. CASE calls # {} \/ binds # {}
    <3>1. Min(callsLater) = Min(calls) /\ Min(bindsLater) = Min(binds)
      BY <1>1, <1>6, <1>14, <2>1, <2>2, <2>5, SmallestKept
    <3>2. QED BY <1>12, <1>14, <2>3, <2>5, <3>1, Zenon
  <2>6. QED BY <2>4, <2>5
<1>17. SameFirst(later, e, n, mods, key)
  BY <1>15, <1>16
<1>18. QED BY <1>2, <1>7, <1>17 DEF Faithful, later

\* The layout collected stands for a call of bk.layout.
LayoutStandsFor(layout, call, callbacks) ==
  /\ layout.type = call.type
  /\ IF call.fn = "none" THEN layout.custom_fn = <<>>
     ELSE /\ layout.custom_fn # <<>> /\ layout.custom_fn[1] \in Nat
          /\ layout.custom_fn[1] < Len(callbacks)
          /\ callbacks[layout.custom_fn[1] + 1] = call.fn

LayoutCalls(e, n) == {i \in 1..n : e[i].name = "layout"}

\* After n calls it stands for the last one.
SameLayout(acc, e, n) ==
  IF LayoutCalls(e, n) = {} THEN acc.layout = <<>>
  ELSE /\ acc.layout # <<>>
       /\ LayoutStandsFor(acc.layout[1], e[Max(LayoutCalls(e, n))], acc.callbacks)

LEMMA LayoutStillStandsFor ==
  ASSUME NEW layout, NEW call, NEW callbacks, Listed(callbacks), NEW f,
         LayoutStandsFor(layout, call, callbacks)
  PROVE  LayoutStandsFor(layout, call, Append(callbacks, f))
<1> DEFINE later == Append(callbacks, f)
           i == layout.custom_fn[1]
<1>1. /\ Len(later) = Len(callbacks) + 1 /\ \A j \in 1..Len(callbacks) : later[j] = callbacks[j]
      /\ Len(callbacks) \in Nat
  BY Appended, Indices
<1> HIDE DEF later
<1>2. CASE call.fn = "none"
  BY <1>2 DEF LayoutStandsFor, later
<1>3. CASE call.fn # "none"
  <2>1. /\ layout.type = call.type /\ layout.custom_fn # <<>>
        /\ i \in Nat /\ i < Len(callbacks) /\ callbacks[i + 1] = call.fn
    BY <1>3 DEF LayoutStandsFor
  <2> HIDE DEF i
  <2>2. i < Len(later) /\ later[i + 1] = call.fn
    BY <1>1, <2>1
  <2>3. LayoutStandsFor(layout, call, later)
    BY <1>3, <2>1, <2>2 DEF LayoutStandsFor, i
  <2>4. QED BY <2>3 DEF later
<1>4. QED BY <1>2, <1>3

\* One more call: bk.layout replaces the layout, the others leave it alone.
LEMMA LayoutFollows ==
  ASSUME NEW acc, Shaped(acc), NEW e, NEW n \in Nat \ {0}, SameLayout(acc, e, n - 1),
         e[n].name \in {"bind", "layout", "spawn"}
  PROVE  SameLayout(Call(acc, e[n]), e, n)
<1> DEFINE later == Call(acc, e[n])
           old == LayoutCalls(e, n - 1)
           new == LayoutCalls(e, n)
<1>1. Listed(acc.callbacks)
  BY DEF Shaped
<1>2. \A i : i \in 1..n <=> i \in 1..(n - 1) \/ i = n
  OBVIOUS
<1>3. new \in SUBSET (1..n)
  BY DEF LayoutCalls
<1>4. CASE e[n].name = "layout"
  <2>1. new # {} /\ n \in new
    BY <1>2, <1>4 DEF LayoutCalls
  <2>2. Max(new) = n
    <3> HIDE DEF new
    <3>1. Max(new) \in 1..n /\ n <= Max(new)
      BY <1>3, <2>1, GreatestIs
    <3>2. QED BY <3>1
  <2>3. later = Layout(acc, e[n])
    BY <1>4 DEF Call
  <2> DEFINE functions == IF e[n].fn = "none" THEN acc.callbacks ELSE Append(acc.callbacks, e[n].fn)
             layout == [type |-> e[n].type,
                        custom_fn |-> IF e[n].fn = "none" THEN <<>> ELSE <<Len(acc.callbacks)>>]
  <2>4. later.layout = <<layout>> /\ later.callbacks = functions
    BY <2>3 DEF Layout, Shaped
  <2> HIDE DEF later
  <2>5. LayoutStandsFor(layout, e[n], functions)
    <3>1. CASE e[n].fn = "none"
      BY <3>1 DEF LayoutStandsFor
    <3>2. CASE e[n].fn # "none"
      <4>1. /\ Len(acc.callbacks) \in Nat /\ functions = Append(acc.callbacks, e[n].fn)
            /\ Len(functions) = Len(acc.callbacks) + 1
            /\ functions[Len(acc.callbacks) + 1] = e[n].fn
        BY <1>1, <3>2, Appended, Indices
      <4>2. layout.type = e[n].type /\ layout.custom_fn = <<Len(acc.callbacks)>>
        BY <3>2
      <4> HIDE DEF layout, functions
      <4>3. QED BY <3>2, <4>1, <4>2 DEF LayoutStandsFor
    <3>3. QED BY <3>1, <3>2
  <2> HIDE DEF layout, functions
  <2>6. later.layout # <<>> /\ later.layout[1] = layout
    BY <2>4
  <2>7. SameLayout(later, e, n)
    BY <2>1, <2>2, <2>4, <2>5, <2>6 DEF SameLayout
  <2>8. QED BY <2>7 DEF later
<1>5. CASE e[n].name # "layout"
  <2>1. new = old
    BY <1>2, <1>5 DEF LayoutCalls
  <2>2. /\ later.layout = acc.layout
        /\ later.callbacks = acc.callbacks \/ \E f : later.callbacks = Append(acc.callbacks, f)
    <3>1. CASE e[n].name = "bind"
      <4>1. later = Bind(acc, e[n])
        BY <3>1 DEF Call
      <4>2. QED BY <4>1 DEF Bind, Shaped
    <3>2. CASE e[n].name = "spawn"
      <4>1. later = [acc EXCEPT !.commands = Append(@, e[n].command)]
        BY <3>2 DEF Call
      <4>2. QED BY <4>1 DEF Shaped
    <3>3. QED BY <1>5, <3>1, <3>2
  <2> HIDE DEF later
  <2>3. \A l, c : LayoutStandsFor(l, c, acc.callbacks) => LayoutStandsFor(l, c, later.callbacks)
    BY <1>1, <2>2, LayoutStillStandsFor, Zenon
  <2>4. SameLayout(later, e, n)
    BY <2>1, <2>2, <2>3, Zenon DEF SameLayout
  <2>5. QED BY <2>4 DEF later
<1>6. QED BY <1>4, <1>5

\* Every number of calls: the least for which it were not so has a smaller one.
LEMMA CollectedAsWritten ==
  ASSUME NEW script, IsScript(script), NEW mods, NEW key
  PROVE  LET e == Executed(script)
         IN  /\ Faithful(Collected(script), e, Len(e), mods, key)
             /\ SameLayout(Collected(script), e, Len(e))
<1> DEFINE e == Executed(script)
<1>1. /\ Len(e) \in Nat /\ DOMAIN e = 1..Len(e)
      /\ \A i \in 1..Len(e) :
           ~Raises(e[i]) /\ e[i].name \in {"bind", "layout", "spawn", "error"}
  BY ExecutedCalls
<1>2. Collected(script) = FoldLeft(Call, Nothing, e)
  BY DEF Collected
<1> HIDE DEF e
<1>3. PICK after : StepsOf(e, after)
  BY <1>1, FoldSteps
<1> DEFINE Right(n) == Faithful(after[n], e, n, mods, key) /\ SameLayout(after[n], e, n)
           Wrong == {n \in 0..Len(e) : ~Right(n)}
<1>4. ASSUME Wrong # {} PROVE FALSE
  <2>1. PICK n \in Wrong : \A k \in Wrong : n <= k
    <3>1. Wrong \in SUBSET Nat
      OBVIOUS
    <3> HIDE DEF Wrong
    <3>2. QED BY <1>4, <3>1, SmallestIs
  <2>2. n \in 0..Len(e) /\ ~Right(n)
    OBVIOUS
  <2>3. CASE n = 0
    <3>1. after[n] = Nothing /\ 1..n = {}
      BY <1>3, <2>3 DEF StepsOf
    <3>2. Shaped(Nothing) /\ Nothing.binds = <<>> /\ Len(Nothing.binds) = 0
      <4>1. Listed(<<>>)
        BY EmptySeq DEF Listed
      <4>2. QED BY <4>1 DEF Shaped, Nothing
    <3>3. /\ CallsFor(e, n, mods, key) = {} /\ BindsFor(Nothing.binds, mods, key) = {}
          /\ LayoutCalls(e, n) = {} /\ Nothing.layout = <<>>
      BY <3>1, <3>2 DEF CallsFor, BindsFor, LayoutCalls, Nothing
    <3>4. Faithful(Nothing, e, n, mods, key)
      BY <3>1, <3>2, <3>3 DEF Faithful, SameFirst
    <3>5. SameLayout(Nothing, e, n)
      BY <3>3 DEF SameLayout
    <3>6. QED BY <2>2, <3>1, <3>4, <3>5
  <2>4. CASE n # 0
    <3>1. n \in Nat \ {0} /\ n \in 1..Len(e) /\ n - 1 \in 0..Len(e) /\ ~(n <= n - 1)
      BY <1>1, <2>2, <2>4
    <3>2. Right(n - 1)
      BY <2>1, <3>1
    <3>3. after[n] = Call(after[n - 1], e[n])
      BY <1>3, <3>1 DEF StepsOf
    <3>4. e[n].name \in {"bind", "layout", "spawn"} /\ ~Raises(e[n])
      BY <1>1, <3>1 DEF Raises
    <3>5. Faithful(Call(after[n - 1], e[n]), e, n, mods, key)
      <4>1. CASE e[n].name = "bind"
        BY <3>1, <3>2, <3>4, <4>1, BindFollows
      <4>2. CASE e[n].name # "bind"
        BY <3>1, <3>2, <3>4, <4>2, OtherCallFollows
      <4>3. QED BY <4>1, <4>2
    <3>6. SameLayout(Call(after[n - 1], e[n]), e, n)
      BY <3>1, <3>2, <3>4, LayoutFollows DEF Faithful
    <3>7. QED BY <2>2, <3>3, <3>5, <3>6
  <2>5. QED BY <2>3, <2>4
<1>5. Right(Len(e))
  <2>1. Len(e) \in 0..Len(e)
    BY <1>1
  <2>2. QED BY <1>4, <2>1
<1>6. Collected(script) = after[Len(e)]
  BY <1>2, <1>3 DEF StepsOf
<1> HIDE DEF Wrong
<1>7. QED BY <1>5, <1>6 DEF e

\* The first bind of a key stands for what the script says of the key, and
\* there is none exactly if the script says nothing.
LEMMA FirstBind ==
  ASSUME NEW script, IsScript(script), Parses(script), NEW mods, NEW key
  PROVE  LET binds == ConfigOf(script).binds
             hits == BindsFor(binds, mods, key)
             meant == IntendedEffect(script, mods, key)
         IN  \/ hits = {} /\ meant = "none"
             \/ /\ hits # {} /\ hits \in SUBSET Nat
                /\ StandsFor(binds[Min(hits)].action, meant, CallbacksOf(script))
<1> DEFINE e == Executed(script)
           table == TableBinds(script)
           acc == Collected(script)
           binds == ConfigOf(script).binds
           hits == BindsFor(binds, mods, key)
           meant == IntendedEffect(script, mods, key)
           calls == CallsFor(e, Len(e), mods, key)
<1>1. Len(e) \in Nat /\ DOMAIN e = 1..Len(e)
  BY ExecutedCalls
<1>2. Faithful(acc, e, Len(e), mods, key)
  BY CollectedAsWritten
<1>3. binds = IF acc.binds # <<>> THEN acc.binds ELSE OldBinds(script)
  BY DEF ConfigOf
<1>4. (\E c \in ToSet(e) : c.name = "bind") <=> acc.binds # <<>>
  <2> HIDE DEF e, acc
  <2>1. (\E c \in ToSet(e) : c.name = "bind") <=> (\E i \in 1..Len(e) : e[i].name = "bind")
    BY <1>1 DEF ToSet
  <2>2. QED BY <1>2, <2>1 DEF Faithful
<1>5. CallbacksOf(script) = acc.callbacks
  BY DEF CallbacksOf
<1>6. CASE acc.binds # <<>>
  <2>1. binds = acc.binds
    BY <1>3, <1>6
  <2>2. meant = IF calls = {} THEN "none" ELSE e[Min(calls)].action
    <3>1. calls \in SUBSET Nat /\ 0 \notin calls
      <4> HIDE DEF e
      <4>1. QED BY <1>1 DEF CallsFor
    <3>2. calls # {} => Min(calls) # 0
      <4> HIDE DEF calls
      <4>1. QED BY <3>1, SmallestIs
    <3>3. QED BY <1>4, <1>6, <3>2 DEF IntendedEffect, SelectInSeq, CallsFor
  <2>3. hits \in SUBSET Nat
    <3>1. Len(acc.binds) \in Nat
      BY <1>2, Indices DEF Faithful, Shaped
    <3> HIDE DEF acc, binds
    <3>2. QED BY <2>1, <3>1 DEF BindsFor
  <2>4. \/ calls = {} /\ hits = {}
        \/ /\ calls # {} /\ hits # {}
           /\ StandsFor(binds[Min(hits)].action, e[Min(calls)].action, acc.callbacks)
    <3> HIDE DEF acc, e, binds
    <3>1. SameFirst(acc, e, Len(e), mods, key)
      BY <1>2 DEF Faithful
    <3>2. QED BY <2>1, <3>1 DEF SameFirst
  <2> HIDE DEF binds, hits, meant, calls, e, acc
  <2>5. \/ hits = {} /\ meant = "none"
        \/ /\ hits # {} /\ hits \in SUBSET Nat
           /\ StandsFor(binds[Min(hits)].action, meant, CallbacksOf(script))
    BY <1>5, <2>2, <2>3, <2>4
  <2>6. QED BY <2>5 DEF binds, hits, meant
<1>7. CASE acc.binds = <<>>
  <2>1. binds = OldBinds(script)
    BY <1>3, <1>7
  <2>2. Len(table) \in Nat
    <3>1. Listed(table)
      <4>1. Listed(<<>>)
        BY EmptySeq DEF Listed
      <4>2. QED BY <4>1 DEF TableBinds, IsScript, Listed
    <3>2. QED BY <3>1, Indices
  <2> HIDE DEF table
  <2>3. /\ Len(binds) = Len(table)
        /\ \A j \in 1..Len(table) :
             /\ binds[j].mods = table[j].mods /\ binds[j].key = table[j].key
             /\ binds[j].action.kind = table[j].action
    <3> DEFINE old(j) == [mods |-> table[j].mods, key |-> table[j].key,
                          action |-> [kind |-> table[j].action]]
    <3>1. binds = [j \in 1..Len(table) |-> old(j)]
      BY <2>1 DEF OldBinds, table
    <3> HIDE DEF binds
    <3>2. Len(binds) = Len(table) /\ \A j \in 1..Len(table) : binds[j] = old(j)
      BY <2>2, <3>1
    <3>3. \A j : /\ old(j).mods = table[j].mods /\ old(j).key = table[j].key
                /\ old(j).action.kind = table[j].action
      OBVIOUS
    <3> HIDE DEF old
    <3>4. QED BY <3>2, <3>3
  <2> DEFINE rows == {j \in 1..Len(table) : table[j].mods = mods /\ table[j].key = key}
  <2>4. hits = rows
    BY <2>3 DEF BindsFor
  <2>5. rows \in SUBSET Nat /\ 0 \notin rows /\ rows \in SUBSET (1..Len(table))
    BY <2>2
  <2>6. rows # {} => Min(rows) \in rows /\ Min(rows) # 0
    <3> HIDE DEF rows
    <3>1. QED BY <2>5, SmallestIs
  <2>7. meant = IF rows = {} THEN "none" ELSE table[Min(rows)].action
    BY <1>4, <1>7, <2>6 DEF IntendedEffect, SelectInSeq, table
  <2>8. \A j \in 1..Len(table) : table[j].action \in Descriptors
    BY DEF Parses, Descriptors, table
  <2> HIDE DEF binds, hits, meant, rows
  <2>9. CASE rows = {}
    <3>1. hits = {} /\ meant = "none"
      BY <2>4, <2>7, <2>9
    <3>2. QED BY <3>1 DEF hits, meant, binds
  <2>10. CASE rows # {}
    <3>1. Min(rows) \in 1..Len(table)
      BY <2>5, <2>6, <2>10
    <3>2. binds[Min(hits)].action.kind = meant /\ meant \in Descriptors
      BY <2>3, <2>4, <2>7, <2>8, <2>10, <3>1
    <3>3. hits # {} /\ hits \in SUBSET Nat
      BY <2>4, <2>5, <2>10
    <3>4. StandsFor(binds[Min(hits)].action, meant, CallbacksOf(script))
      BY <3>2 DEF StandsFor
    <3>5. QED BY <3>3, <3>4 DEF hits, meant, binds
  <2>11. QED BY <2>9, <2>10
<1>8. QED BY <1>6, <1>7

-----------------------------------------------------------------------------
(* A press does what the script says.                                      *)

\* The configuration in use is that of a script that parses, with its own
\* functions or, after a reload that failed, with none.
ConfigInv ==
  /\ loaded \in DOMAIN Scripts /\ Parses(Scripts[loaded])
  /\ config = ConfigOf(Scripts[loaded])
  /\ lua_config \in {<<>>, <<CallbacksOf(Scripts[loaded])>>}
  /\ backend \in {"udev", "windowed"}

PressInv == ConfigInv /\ PressDoesWhatScriptSays

LEMMA ConfigStarts == ControlInit => ConfigInv
<1> SUFFICES ASSUME ControlInit PROVE ConfigInv
  OBVIOUS
<1>1. ConfigInit /\ KeyInit
  BY DEF ControlInit
<1>2. loaded \in Readable
  BY <1>1, ConfigAssumption DEF ConfigInit, Readable
<1>3. config = ConfigOf(Scripts[loaded])
  BY <1>1, <1>2 DEF ConfigInit, Parsed
<1>4. lua_config \in {<<>>, <<CallbacksOf(Scripts[loaded])>>}
  BY <1>1, <1>2 DEF ConfigInit, Functions
<1>5. QED BY <1>1, <1>2, <1>3, <1>4 DEF ConfigInv, KeyInit, Readable

\* The four variables move only when the timer fires.
LEMMA ConfigStays ==
  ASSUME ConfigInv, UNCHANGED <<config, lua_config, loaded, backend>>
  PROVE  ConfigInv'
BY DEF ConfigInv

LEMMA ReloadKeeps ==
  ASSUME ConfigInv, TimerFires, backend' = backend
  PROVE  ConfigInv'
<1>1. CASE config_reload_timer /\ file \in Readable
  <2>1. config' = Parsed[file] /\ lua_config' = <<Functions[file]>> /\ loaded' = file
    BY <1>1 DEF TimerFires, Reload
  <2>2. config' = ConfigOf(Scripts[file]) /\ lua_config' = <<CallbacksOf(Scripts[file])>>
    BY <1>1, <2>1 DEF Parsed, Functions
  <2>3. QED BY <1>1, <2>1, <2>2 DEF ConfigInv, Readable
<1>2. CASE config_reload_timer /\ file \notin Readable
  <2>1. lua_config' = <<>> /\ UNCHANGED <<config, loaded>>
    BY <1>2 DEF TimerFires, Reload
  <2>2. QED BY <2>1 DEF ConfigInv
<1>3. CASE ~config_reload_timer
  <2>1. UNCHANGED <<config, lua_config, loaded>>
    BY <1>3 DEF TimerFires
  <2>2. QED BY <2>1, ConfigStays
<1>4. QED BY <1>1, <1>2, <1>3

\* The routing of an action that stands for what is meant.
LEMMA RoutedRight ==
  ASSUME NEW action, NEW meant, NEW callbacks, StandsFor(action, meant, callbacks),
         lua_config \in {<<>>, <<callbacks>>}, backend \in {"udev", "windowed"}
  PROVE  \/ Effect(action) = meant
         \/ lua_config = <<>> /\ meant \in Function
         \/ backend = "windowed" /\ meant \in {"VtSwitch", "Screen", "ToggleTint"}
<1>1. CASE action.kind = meant /\ meant \in Descriptors
  <2>1. \/ meant \in OwnActions \cup (Common \ {"Callback"})
        \/ backend = "windowed" /\ meant \in {"VtSwitch", "Screen", "ToggleTint"}
    BY <1>1 DEF Descriptors, TableActions, OwnActions, Common
  <2> DEFINE own == OwnActions
             common == Common \ {"Callback"}
  <2>2. Effect(action) = CASE action.kind \in own -> action.kind
                           [] action.kind \in common -> action.kind
                           [] action.kind = "Callback" -> Invoke(action.idx)
                           [] OTHER -> "unsupported"
    BY Zenon DEF Effect
  <2>3. "Callback" \notin own \cup common
    BY DEF OwnActions
  <2> HIDE DEF own, common
  <2>4. meant \in own \cup common => Effect(action) = meant
    BY <1>1, <2>2, <2>3
  <2>5. QED BY <2>1, <2>4 DEF own, common
<1>2. CASE /\ action.kind = "Callback" /\ meant \in Function
           /\ action.idx \in Nat /\ action.idx < Len(callbacks)
           /\ callbacks[action.idx + 1] = meant
  <2>1. "Callback" \notin OwnActions
    BY DEF OwnActions
  <2>2. Effect(action) = Invoke(action.idx)
    BY <1>2, <2>1 DEF Effect
  <2>3. ASSUME lua_config # <<>> PROVE Invoke(action.idx) = meant
    <3>1. lua_config[1] = callbacks
      BY <2>3
    <3>2. QED BY <1>2, <2>3, <3>1 DEF Invoke
  <2>4. QED BY <1>2, <2>2, <2>3
<1>3. QED BY <1>1, <1>2 DEF StandsFor

LEMMA FoundByMods ==
  ASSUME NEW binds, NEW mods, NEW k
  PROVE  {i \in 1..Len(binds) : ModsMatch(binds[i], mods) /\ binds[i].key = k}
           = BindsFor(binds, mods, k)
<1>1. \A i : ModsMatch(binds[i], mods) <=> binds[i].mods = mods
  BY DEF ModsMatch
<1>2. QED BY <1>1 DEF BindsFor

LEMMA PressSays ==
  ASSUME ConfigInv, NEW k \in Key, NEW inhibited \in BOOLEAN, Press(k, inhibited)
  PROVE  PressDoesWhatScriptSays'
<1> DEFINE mods == (pressed_keys \cup {k}) \cap Mod
           script == Scripts[loaded]
           binds == config.binds
           hits == BindsFor(binds, mods, k)
           meant == IntendedEffect(script, mods, k)
           shortcut == Shortcut(binds, mods, k)
           effect == Effect(shortcut[1])
<1>1. /\ IsScript(script) /\ Parses(script) /\ binds = ConfigOf(script).binds
      /\ lua_config \in {<<>>, <<CallbacksOf(script)>>} /\ backend \in {"udev", "windowed"}
  BY ConfigAssumption DEF ConfigInv
<1>2. UNCHANGED <<config, lua_config, loaded, backend>>
  BY DEF Press, configVars
<1>3. \/ did' = <<>>
      \/ shortcut # <<>> /\ did' = <<[mods |-> mods, key |-> k, effect |-> effect]>>
      \/ shortcut = <<>> /\ did' = <<[mods |-> mods, key |-> k, effect |-> "none"]>>
  <2> HIDE DEF shortcut
  <2>1. QED BY DEF Press, shortcut
<1>4. Meant[loaded][<<mods, k>>] = meant
  <2>1. loaded \in DOMAIN Scripts /\ mods \in SUBSET Mod
    BY DEF ConfigInv
  <2>2. <<mods, k>> \in (SUBSET Mod) \X Key
    BY <2>1
  <2> HIDE DEF mods
  <2>3. QED BY <2>1, <2>2 DEF Meant
<1>5. CASE did' = <<>>
  BY <1>5 DEF PressDoesWhatScriptSays
<1>6. CASE did' # <<>>
  <2>1. did'[1].mods = mods /\ did'[1].key = k
    BY <1>3, <1>6
  <2>2. did'[1].effect = IF shortcut # <<>> THEN effect ELSE "none"
    BY <1>3, <1>6
  <2>3. \/ hits = {} /\ meant = "none"
        \/ /\ hits # {} /\ hits \in SUBSET Nat
           /\ StandsFor(binds[Min(hits)].action, meant, CallbacksOf(script))
    <3> HIDE DEF script, mods
    <3>1. QED BY <1>1, FirstBind
  <2>4. CASE k \in VtKey /\ {"Ctrl", "Alt"} \subseteq mods
    <3> HIDE DEF mods
    <3>1. QED BY <2>1, <2>4 DEF PressDoesWhatScriptSays
  <2>5. CASE k = "Print" /\ ~(k \in VtKey /\ {"Ctrl", "Alt"} \subseteq mods)
    <3>1. shortcut = <<[kind |-> "Screenshot"]>>
      BY <2>5 DEF Shortcut
    <3>2. shortcut # <<>> /\ effect = Effect([kind |-> "Screenshot"])
      BY <3>1
    <3>3. Effect([kind |-> "Screenshot"]) = "Screenshot"
      <4>1. "Screenshot" \in Common \ {"Callback"}
        BY DEF Common
      <4>2. QED BY <4>1 DEF Effect
    <3>4. did'[1].effect = "Screenshot"
      BY <2>2, <3>2, <3>3
    <3> HIDE DEF mods, shortcut, effect
    <3>5. QED BY <2>1, <2>5, <3>4 DEF PressDoesWhatScriptSays
  <2>6. CASE k # "Print" /\ ~(k \in VtKey /\ {"Ctrl", "Alt"} \subseteq mods)
    <3> HIDE DEF mods
    <3>1. shortcut = IF hits # {} /\ Min(hits) # 0 THEN <<binds[Min(hits)].action>> ELSE <<>>
      <4>1. SelectInSeq(binds, LAMBDA b : ModsMatch(b, mods) /\ b.key = k)
              = IF hits # {} THEN Min(hits) ELSE 0
        BY FoundByMods DEF SelectInSeq
      <4>2. QED BY <2>6, <4>1 DEF Shortcut
    <3>2. \/ did'[1].effect = meant
          \/ lua_config = <<>> /\ meant \in Function
          \/ backend = "windowed" /\ meant \in {"VtSwitch", "Screen", "ToggleTint"}
      <4> HIDE DEF meant, hits, shortcut, binds, script
      <4>1. CASE hits = {}
        BY <2>2, <2>3, <3>1, <4>1
      <4>2. CASE hits # {}
        <5>1. Min(hits) \in hits
          BY <2>3, <4>2, SmallestIs
        <5>2. Min(hits) # 0
          BY <5>1 DEF hits, BindsFor
        <5>3. shortcut # <<>> /\ shortcut[1] = binds[Min(hits)].action
          BY <3>1, <4>2, <5>2
        <5>4. did'[1].effect = Effect(binds[Min(hits)].action)
          BY <2>2, <5>3
        <5>5. StandsFor(binds[Min(hits)].action, meant, CallbacksOf(script))
          BY <2>3, <4>2
        <5>6. QED BY <1>1, <5>4, <5>5, RoutedRight
      <4>3. QED BY <4>1, <4>2
    <3> HIDE DEF meant
    <3>3. Meant[loaded'][<<did'[1].mods, did'[1].key>>] = meant
      BY <1>2, <1>4, <2>1
    <3>4. QED BY <1>2, <3>2, <3>3 DEF PressDoesWhatScriptSays
  <2>7. QED BY <2>4, <2>5, <2>6
<1>7. QED BY <1>5, <1>6

LEMMA PressInvInductive ==
  /\ ControlInit => PressInv
  /\ PressInv /\ [ControlNext]_controlVars => PressInv'
<1>1. ControlInit => PressInv
  BY ConfigStarts DEF ControlInit, KeyInit, PressInv, PressDoesWhatScriptSays
<1>2. PressInv /\ [ControlNext]_controlVars => PressInv'
  <2> SUFFICES ASSUME PressInv, [ControlNext]_controlVars PROVE PressInv'
    OBVIOUS
  <2>1. ConfigInv /\ PressDoesWhatScriptSays
    BY DEF PressInv
  <2>2. CASE \E k \in Key : \E inhibited \in BOOLEAN : Press(k, inhibited)
    <3>1. UNCHANGED <<config, lua_config, loaded, backend>>
      BY <2>2 DEF Press, configVars
    <3>2. QED BY <2>1, <2>2, <3>1, ConfigStays, PressSays DEF PressInv
  <2>3. CASE FocusLost \/ \E k \in Key : Release(k) \/ PressToLayer(k) \/ ReleaseToLayer(k)
    <3>1. UNCHANGED <<config, lua_config, loaded, backend>> /\ did' = <<>>
      BY <2>3 DEF FocusLost, Release, PressToLayer, ReleaseToLayer, configVars
    <3>2. QED BY <2>1, <3>1, ConfigStays DEF PressInv, PressDoesWhatScriptSays
  <2>4. CASE Between(ConfigNext)
    <3>1. did' = <<>> /\ backend' = backend /\ ConfigNext
      BY <2>4 DEF Between
    <3>2. CASE TimerFires
      BY <2>1, <3>1, <3>2, ReloadKeeps DEF PressInv, PressDoesWhatScriptSays
    <3>3. CASE FileChanged \/ \E f \in DOMAIN Scripts \cup {"missing", "unreadable"} : Edit(f)
      <4>1. UNCHANGED <<config, lua_config, loaded>>
        BY <3>3 DEF FileChanged, Edit
      <4>2. QED BY <2>1, <3>1, <4>1, ConfigStays DEF PressInv, PressDoesWhatScriptSays
    <3>4. QED BY <3>1, <3>2, <3>3 DEF ConfigNext
  <2>5. CASE UNCHANGED controlVars
    <3>1. UNCHANGED <<config, lua_config, loaded, backend, did>>
      BY <2>5 DEF controlVars, configVars, keyVars
    <3>2. QED BY <2>1, <3>1, ConfigStays DEF PressInv, PressDoesWhatScriptSays
  <2>6. QED BY <2>2, <2>3, <2>4, <2>5 DEF ControlNext, KeyNext
<1>3. QED BY <1>1, <1>2

\* A press has the effect its author wrote for it in the script that is
\* loaded, for every set of scripts, functions and keys: the list of functions
\* and the indices into it, the precedence of the binds and of the two styles,
\* the comparison of the modifiers and the routing of the action agree, however
\* presses, edits and reloads alternate.
THEOREM PressHolds == ControlSpec => []PressDoesWhatScriptSays
<1>1. PressInv => PressDoesWhatScriptSays
  BY DEF PressInv
<1>2. QED BY <1>1, PressInvInductive, PTL DEF ControlSpec

\* The layout of a configuration is the one its script asks for.
LEMMA LayoutChosen ==
  ASSUME NEW script, IsScript(script)
  PROVE  LET l == ConfigOf(script).layout
             meant == IntendedLayout(script)
             functions == CallbacksOf(script)
         IN  IF l.type # "custom" THEN meant = l.type
             ELSE IF l.custom_fn = <<>> THEN meant = "columns"
             ELSE /\ l.custom_fn[1] < Len(functions)
                  /\ functions[l.custom_fn[1] + 1] = meant
<1> DEFINE e == Executed(script)
           acc == Collected(script)
           l == ConfigOf(script).layout
           meant == IntendedLayout(script)
           calls == LayoutCalls(e, Len(e))
           last == e[Max(calls)]
<1>1. Len(e) \in Nat /\ SameLayout(acc, e, Len(e))
  BY ExecutedCalls, CollectedAsWritten
<1>2. l = IF acc.layout # <<>> THEN acc.layout[1] ELSE DefaultLayout
  BY DEF ConfigOf
<1>3. CallbacksOf(script) = acc.callbacks
  BY DEF CallbacksOf
<1>4. CASE calls = {}
  <2>1. meant = DefaultLayout.type
    BY <1>4 DEF IntendedLayout, SelectLastInSeq, LayoutCalls
  <2>2. l = DefaultLayout
    <3> HIDE DEF e, acc
    <3>1. QED BY <1>1, <1>2, <1>4 DEF SameLayout
  <2>3. l.type # "custom" /\ meant = l.type
    BY <2>1, <2>2 DEF DefaultLayout
  <2>4. QED BY <2>3
<1>5. CASE calls # {}
  <2>1. Max(calls) \in calls /\ Max(calls) # 0
    <3> HIDE DEF e
    <3>1. calls \in SUBSET (1..Len(e)) /\ 0 \notin calls
      BY <1>1 DEF LayoutCalls
    <3> HIDE DEF calls
    <3>2. QED BY <1>1, <1>5, <3>1, GreatestIs
  <2>2. meant = IF last.type # "custom" THEN last.type
                ELSE IF last.fn = "none" THEN "columns" ELSE last.fn
    BY <1>5, <2>1 DEF IntendedLayout, SelectLastInSeq, LayoutCalls
  <2>3. l = acc.layout[1] /\ LayoutStandsFor(acc.layout[1], last, acc.callbacks)
    <3> HIDE DEF e, acc
    <3>1. QED BY <1>1, <1>2, <1>5 DEF SameLayout
  <2>4. last.fn # "none" => last.type = "custom"
    <3>1. ~Raises(last) /\ last.name = "layout"
      <4>1. \A i \in 1..Len(e) : ~Raises(e[i])
        BY ExecutedCalls
      <4> HIDE DEF e
      <4>2. QED BY <2>1, <4>1 DEF LayoutCalls
    <3>2. QED BY <3>1 DEF Raises
  <2> HIDE DEF l, last, acc, meant
  <2>5. IF l.type # "custom" THEN meant = l.type
        ELSE IF l.custom_fn = <<>> THEN meant = "columns"
        ELSE /\ l.custom_fn[1] < Len(CallbacksOf(script))
             /\ CallbacksOf(script)[l.custom_fn[1] + 1] = meant
    BY <1>3, <2>2, <2>3, <2>4 DEF LayoutStandsFor
  <2>6. QED BY <2>5 DEF l, meant
<1>6. QED BY <1>4, <1>5

\* The windows are arranged by what the last bk.layout of the loaded script
\* names, a Lua function among others, for every set of scripts: a reload
\* exchanges the layout and the list its index points into together.  Columns
\* stand in where the functions were lost with the LuaConfig.
THEOREM LayoutHolds == ControlSpec => []ArrangedAsScriptSays
<1>1. ConfigInv => ArrangedAsScriptSays
  <2> SUFFICES ASSUME ConfigInv PROVE ArrangedAsScriptSays
    OBVIOUS
  <2> DEFINE script == Scripts[loaded]
             l == config.layout
             meant == IntendedLayout(script)
             functions == CallbacksOf(script)
  <2>1. IsScript(script) /\ l = ConfigOf(script).layout /\ lua_config \in {<<>>, <<functions>>}
    BY ConfigAssumption DEF ConfigInv
  <2>2. IF l.type # "custom" THEN meant = l.type
        ELSE IF l.custom_fn = <<>> THEN meant = "columns"
        ELSE /\ l.custom_fn[1] < Len(functions)
             /\ functions[l.custom_fn[1] + 1] = meant
    <3> HIDE DEF script
    <3>1. QED BY <2>1, LayoutChosen
  <2>3. ArrangedBy = IF l.type # "custom" THEN l.type
                     ELSE IF l.custom_fn = <<>> \/ lua_config = <<>> THEN "columns"
                     ELSE IF l.custom_fn[1] < Len(lua_config[1])
                       THEN lua_config[1][l.custom_fn[1] + 1] ELSE "columns"
    BY DEF ArrangedBy
  <2> HIDE DEF l, meant, functions
  <2>4. CASE lua_config = <<>>
    <3>1. ArrangedBy = meant \/ ArrangedBy = "columns"
      BY <2>2, <2>3, <2>4
    <3>2. QED BY <2>4, <3>1 DEF ArrangedAsScriptSays, meant
  <2>5. CASE lua_config = <<functions>>
    <3>1. lua_config # <<>> /\ lua_config[1] = functions
      BY <2>5
    <3>2. ArrangedBy = meant
      BY <2>2, <2>3, <3>1
    <3>3. QED BY <3>2 DEF ArrangedAsScriptSays, meant
  <2>6. QED BY <2>1, <2>4, <2>5
<1>2. PressInv => ConfigInv
  BY DEF PressInv
<1>3. QED BY <1>1, <1>2, PressInvInductive, PTL DEF ControlSpec
=============================================================================
