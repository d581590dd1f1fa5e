----------------------------- MODULE IpcServer ------------------------------
(***************************************************************************)
(* The IPC socket (ipc.rs) and its client, bakawm-ctl: one connection per  *)
(* request, a worker thread per connection, a calloop channel to the main  *)
(* loop and a one-shot channel back.  The main loop handles one event at a *)
(* time; each worker blocks on its client first and on the answer then.    *)
(***************************************************************************)
EXTENDS WindowRequests

CONSTANT Conn  \* connections, one request each

VARIABLES
  client,   \* Conn -> what bakawm-ctl does
  sent,     \* Conn -> the request it wrote to the socket
  worker,   \* Conn -> what handle_connection does
  reqChan,  \* the channel of IpcMessage, whose sender is the connection
  reply,    \* Conn -> the one-shot channel of the answer: at most one
  stack,    \* space.elements()
  server    \* "up", "stopping" (the loop has ended) or "exited"

ipcVars == <<client, sent, worker, reqChan, reply, stack, server>>

\* The client is over when it has shown the answer (window_list, window_dispatch)
\* or the failure to get one.
ClientStates == {"idle", "connected", "waiting", "left", "answered", "failed"}
WorkerStates == {"none", "reading", "waiting", "done"}

NoRequest == [kind |-> "none"]

IpcInit ==
  /\ client = [c \in Conn |-> "idle"]
  /\ sent = [c \in Conn |-> NoRequest]
  /\ worker = [c \in Conn |-> "none"]
  /\ reqChan = <<>>
  /\ reply = [c \in Conn |-> {}]
  /\ stack = <<>>
  /\ server = "up"
-----------------------------------------------------------------------------
(* The client: send_request.                                               *)

\* The listener's backlog holds the connection until it is accepted.
Connect(c) ==
  /\ client[c] = "idle" /\ server = "up"
  /\ client' = [client EXCEPT ![c] = "connected"]
  /\ UNCHANGED <<sent, worker, reqChan, reply, stack, server>>

\* The whole request is written, and the client waits for the answer.
WriteRequest(c) ==
  /\ client[c] = "connected"
  /\ client' = [client EXCEPT ![c] = "waiting"]
  /\ \E r \in Request : sent' = [sent EXCEPT ![c] = r]
  /\ UNCHANGED <<worker, reqChan, reply, stack, server>>

\* The client dies with the request half written.
Leave(c) ==
  /\ client[c] = "connected"
  /\ client' = [client EXCEPT ![c] = "left"]
  /\ UNCHANGED <<sent, worker, reqChan, reply, stack, server>>
-----------------------------------------------------------------------------
(* The main loop.                                                          *)

\* The listener's callback accepts everything in the backlog.
Accept ==
  LET backlog == {c \in Conn : client[c] \notin {"idle", "failed"} /\ worker[c] = "none"}
  IN  /\ server = "up" /\ backlog # {}
      /\ worker' = [c \in Conn |-> IF c \in backlog THEN "reading" ELSE worker[c]]
      /\ UNCHANGED <<client, sent, reqChan, reply, stack, server>>

\* A mutated Handle: a close is to be answered when the window is gone.
HandleDeferringClose ==
  /\ server = "up" /\ reqChan # <<>>
  /\ LET c == Head(reqChan) IN
       /\ \E a \in Responses(stack, sent[c]) :
            reply' = IF sent[c].kind = "close" THEN reply ELSE [reply EXCEPT ![c] = {a}]
       /\ stack' = StackAfter(stack, sent[c])
  /\ reqChan' = Tail(reqChan)
  /\ UNCHANGED <<client, sent, worker, server>>

\* The channel's callback: the request is handled and answered.
Handle ==
  /\ server = "up" /\ reqChan # <<>>
  /\ LET c == Head(reqChan) IN
       /\ \E a \in Responses(stack, sent[c]) : reply' = [reply EXCEPT ![c] = {a}]
       /\ stack' = StackAfter(stack, sent[c])
  /\ reqChan' = Tail(reqChan)
  /\ UNCHANGED <<client, sent, worker, server>>

\* Any other event that moves windows.
Restack ==
  /\ server = "up"
  /\ Restacked(stack, stack')
  /\ UNCHANGED <<client, sent, worker, reqChan, reply, server>>

\* The loop ends and drops the channel with the messages in it.
StopLoop ==
  /\ server = "up"
  /\ server' = "stopping"
  /\ reqChan' = <<>>
  /\ UNCHANGED <<client, sent, worker, reply, stack>>

\* main returns: the workers die, and their clients read the end of the file.
Exit ==
  /\ server = "stopping"
  /\ server' = "exited"
  /\ client' = [c \in Conn |->
       IF client[c] \in {"connected", "waiting"} THEN "failed" ELSE client[c]]
  /\ UNCHANGED <<sent, worker, reqChan, reply, stack>>
-----------------------------------------------------------------------------
(* A worker: handle_connection.                                            *)

\* write_response: the client gets the answer, unless it is gone.
WriteResponse(c, outcome) ==
  /\ worker' = [worker EXCEPT ![c] = "done"]
  /\ client' = [client EXCEPT ![c] = IF @ = "waiting" THEN outcome ELSE @]

\* read_request fails: an error is written and the connection closed.
ReadFails(c) ==
  /\ worker[c] = "reading" /\ server # "exited"
  /\ \/ client[c] = "left"
     \/ client[c] = "waiting" /\ sent[c].kind = "malformed"
  /\ WriteResponse(c, "answered")
  /\ reply' = [reply EXCEPT ![c] =
       IF client[c] = "waiting" THEN Responses(stack, sent[c]) ELSE @]
  /\ UNCHANGED <<sent, reqChan, stack, server>>

\* read_request returns a request, which goes to the main loop.
Forward(c) ==
  /\ worker[c] = "reading" /\ server = "up"
  /\ client[c] = "waiting" /\ sent[c].kind # "malformed"
  /\ worker' = [worker EXCEPT ![c] = "waiting"]
  /\ reqChan' = Append(reqChan, c)
  /\ UNCHANGED <<client, sent, reply, stack, server>>

\* The channel is closed: the worker returns without a word.
ForwardFails(c) ==
  /\ worker[c] = "reading" /\ server = "stopping"
  /\ client[c] = "waiting" /\ sent[c].kind # "malformed"
  /\ WriteResponse(c, "failed")
  /\ UNCHANGED <<sent, reqChan, reply, stack, server>>

\* A mutated Answer: the worker writes what is in the channel of any worker.
AnswerAny(c) ==
  /\ worker[c] = "waiting" /\ server # "exited"
  /\ \E d \in Conn : reply[d] # {} /\ reply' = [reply EXCEPT ![c] = reply[d]]
  /\ WriteResponse(c, "answered")
  /\ UNCHANGED <<sent, reqChan, stack, server>>

\* The answer has come.
Answer(c) ==
  /\ worker[c] = "waiting" /\ server # "exited"
  /\ reply[c] # {}
  /\ WriteResponse(c, "answered")
  /\ UNCHANGED <<sent, reqChan, reply, stack, server>>

\* The message was dropped unanswered: "compositor did not respond".
AnswerFails(c) ==
  /\ worker[c] = "waiting" /\ server = "stopping"
  /\ reply[c] = {}
  /\ WriteResponse(c, "failed")
  /\ UNCHANGED <<sent, reqChan, reply, stack, server>>

Worker(c) ==
  ReadFails(c) \/ Forward(c) \/ ForwardFails(c) \/ Answer(c) \/ AnswerFails(c)

IpcNext ==
  \/ Accept \/ Handle \/ Restack \/ StopLoop \/ Exit
  \/ \E c \in Conn : Connect(c) \/ WriteRequest(c) \/ Leave(c) \/ Worker(c)

\* The loop polls its sources, the kernel runs the threads and a loop that has
\* ended lets main return.  A client may take for ever to write its request.
IpcFairness ==
  /\ WF_ipcVars(Accept) /\ WF_ipcVars(Handle) /\ WF_ipcVars(Exit)
  /\ \A c \in Conn : WF_ipcVars(Worker(c))

IpcSpec == IpcInit /\ [][IpcNext]_ipcVars /\ IpcFairness
-----------------------------------------------------------------------------
IpcTypeOK ==
  /\ client \in [Conn -> ClientStates]
  /\ sent \in [Conn -> Request \cup {NoRequest}]
  /\ worker \in [Conn -> WorkerStates]
  /\ \A i \in 1..Len(reqChan) : reqChan[i] \in Conn
  /\ \A i \in 1..Len(stack) : stack[i] \in Window
  /\ server \in {"up", "stopping", "exited"}

\* A call as its client sees it: it takes effect when the main loop leaves the
\* answer, and is over when the answer, or the end of the file, arrives.
callView == [c \in Conn |->
  LET answer == CHOOSE a \in reply[c] : TRUE
  IN  CASE sent[c] = NoRequest -> [phase |-> "idle"]
        [] client[c] = "waiting" /\ reply[c] = {} -> [phase |-> "asked", request |-> sent[c]]
        [] client[c] = "waiting" /\ reply[c] # {} -> [phase |-> "executed", answer |-> answer]
        [] client[c] = "answered" -> [phase |-> "over", answer |-> answer]
        [] OTHER -> [phase |-> "over"]]

\* Whatever the interleaving of connections, workers and other events: a
\* request takes effect at most once, on the windows of one moment, and the
\* client gets the answer of that moment and no other client's.
Rpc == INSTANCE RpcService WITH call <- callView
ImplementsRpc == Rpc!Spec

\* A client that has written its request gets an answer or learns that the
\* compositor is gone, although another client may never finish writing its own.
RequestsEnd ==
  \A c \in Conn : client[c] = "waiting" ~> client[c] \in {"answered", "failed"}
=============================================================================
