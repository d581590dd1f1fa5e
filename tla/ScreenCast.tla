----------------------------- MODULE ScreenCast -----------------------------
(***************************************************************************)
(* The control plane of screen casting: the org.gnome.Mutter.ScreenCast    *)
(* objects served by the D-Bus thread (dbus/mutter_screen_cast.rs), the    *)
(* calloop channels towards the compositor's main loop, and the casts the  *)
(* main loop owns (screencasting/mod.rs).                                  *)
(*                                                                         *)
(* Two threads take steps.  The D-Bus thread runs one task per method call *)
(* and switches task only where the code awaits; the main thread handles   *)
(* one event at a time, and stop_cast makes it run Session::stop itself,   *)
(* under block_on, while the D-Bus thread keeps going.                     *)
(***************************************************************************)
EXTENDS Naturals, Sequences, FiniteSets

CONSTANTS
  Session,    \* the session ids CastSessionId::next hands out
  Stream,     \* the stream ids CastStreamId::next hands out
  NoSession,  \* "no session"
  MaxCalls,   \* bound: method calls the executor holds, looked up but not begun
  PwCap       \* bound: messages PipeWire callbacks may have posted at once

ASSUME ConstantsAssumption ==
  /\ NoSession \notin Session
  /\ MaxCalls \in Nat
  /\ PwCap \in Nat

VARIABLES
  registered,  \* sessions exported on the object server
  created,     \* sessions ever created (ScreenCast.sessions is never pruned)
  streams,     \* Session.streams: the streams a session would start, in order
  owner,       \* Stream.session_id, NoSession before the stream is recorded
  exported,    \* stream objects exported on the object server
  wasStarted,  \* streams whose was_started flag is set
  calls,       \* method calls dispatched to a session object, not yet begun
  starting,    \* the session whose Session::start loop holds the streams mutex
  rest,        \* the streams that loop has still to visit
  stopPc,      \* where Session::stop stands, per session
  stopper,     \* the thread that won the swap of Session.stopped
  taken,       \* the streams mem::take gave to Session::stop
  left,        \* those whose objects it has still to remove
  toState,     \* channel of ScreenCastToState messages
  fromPw,      \* channel of PwToState messages
  pipewire,    \* Screencasting.pipewire is Some
  casts,       \* streams with an entry in Screencasting.casts
  pending,     \* sessions the main thread has still to call stop_cast for
  blocked      \* the session whose stop() the main thread runs under block_on

dbusVars == <<registered, created, streams, owner, exported, wasStarted, calls,
              starting, rest>>
stopVars == <<stopPc, stopper, taken, left>>
mainVars == <<pipewire, casts, pending, blocked>>
vars == <<dbusVars, stopVars, toState, fromPw, mainVars>>

StartMsg(x) == [kind |-> "start", stream |-> x]
StopMsg(s) == [kind |-> "stop", session |-> s]
FatalMsg == [kind |-> "fatal"]

Message == {StartMsg(x) : x \in Stream} \cup {StopMsg(s) : s \in Session}
PwMessage == {StopMsg(s) : s \in Session} \cup {FatalMsg}
Method == {"start", "stop", "record"}
Call == [method : Method, session : Session]
Rng(q) == {q[i] : i \in 1..Len(q)}

\* Session::stop holds the interface's read lock from the swap to its return.
Stopping(s) == stopPc[s] \notin {"idle", "done"}

\* Session.stopped, the AtomicBool both threads swap.
Stopped(s) == stopPc[s] # "idle"

\* The D-Bus thread changes task only at an await.  Session::start has none,
\* and Session::stop has none between sending StopCast and taking the streams.
DbusFree ==
  /\ starting = NoSession
  /\ \A s \in Session : ~(stopPc[s] = "taking" /\ stopper[s] = "dbus")

MainIdle == pending = {} /\ blocked = NoSession

Init ==
  /\ registered = {} /\ created = {}
  /\ streams = [s \in Session |-> <<>>]
  /\ owner = [x \in Stream |-> NoSession]
  /\ exported = {} /\ wasStarted = {} /\ calls = {}
  /\ starting = NoSession /\ rest = <<>>
  /\ stopPc = [s \in Session |-> "idle"]
  /\ stopper = [s \in Session |-> "nobody"]
  /\ taken = [s \in Session |-> <<>>] /\ left = [s \in Session |-> <<>>]
  /\ toState = <<>> /\ fromPw = <<>>
  /\ pipewire = FALSE /\ casts = {}
  /\ pending = {} /\ blocked = NoSession
-----------------------------------------------------------------------------
(* The D-Bus thread: method calls.                                         *)

\* A mutated CreateSession: the id is not remembered in ScreenCast.sessions.
CreateSessionUntracked(s) ==
  /\ DbusFree
  /\ s \notin registered
  /\ registered' = registered \cup {s}
  /\ UNCHANGED <<created, streams, owner, exported, wasStarted, calls, starting,
                 rest, stopVars, toState, fromPw, mainVars>>

CreateSession(s) ==
  /\ DbusFree
  /\ s \notin created
  /\ created' = created \cup {s}
  /\ registered' = registered \cup {s}
  /\ UNCHANGED <<streams, owner, exported, wasStarted, calls, starting, rest,
                 stopVars, toState, fromPw, mainVars>>

\* zbus (external) looks the object up when the call arrives and keeps a
\* reference to it, so the call can run after the object has been removed.
Dispatch(c) ==
  /\ DbusFree
  /\ c.session \in registered
  /\ Cardinality(calls) < MaxCalls
  /\ calls' = calls \cup {c}
  /\ UNCHANGED <<registered, created, streams, owner, exported, wasStarted,
                 starting, rest, stopVars, toState, fromPw, mainVars>>

BeginCall(c) ==
  /\ DbusFree
  /\ c \in calls
  /\ calls' = calls \ {c}

\* record_monitor and record_window take &mut self: zbus runs them under the
\* interface's write lock, so never while a stop holds the read lock.
RecordGuard(s) == ~Stopping(s)

\* A mutated Record that hands the same stream id out again.
RecordReusingIds(s, x) ==
  /\ BeginCall([method |-> "record", session |-> s])
  /\ RecordGuard(s)
  /\ owner' = [owner EXCEPT ![x] = s]
  /\ exported' = exported \cup {x}
  /\ streams' = [streams EXCEPT ![s] = Append(@, x)]
  /\ UNCHANGED <<registered, created, wasStarted, starting, rest, stopVars,
                 toState, fromPw, mainVars>>

\* The stream object is exported and pushed; nothing can observe the session
\* between the two under the write lock.  They do not look at `stopped`.
Record(s, x) ==
  /\ BeginCall([method |-> "record", session |-> s])
  /\ RecordGuard(s)
  /\ owner[x] = NoSession
  /\ owner' = [owner EXCEPT ![x] = s]
  /\ exported' = exported \cup {x}
  /\ streams' = [streams EXCEPT ![s] = Append(@, x)]
  /\ UNCHANGED <<registered, created, wasStarted, starting, rest, stopVars,
                 toState, fromPw, mainVars>>

\* "no such monitor", "monitor is disabled".
RecordFails(s) ==
  /\ BeginCall([method |-> "record", session |-> s])
  /\ RecordGuard(s)
  /\ UNCHANGED <<registered, created, streams, owner, exported, wasStarted,
                 starting, rest, stopVars, toState, fromPw, mainVars>>

\* Session::start locks the streams for the whole loop.  A stop that is
\* emptying them holds the same mutex for one step only.
StartCall(s) ==
  /\ BeginCall([method |-> "start", session |-> s])
  /\ starting' = s
  /\ rest' = streams[s]
  /\ UNCHANGED <<registered, created, streams, owner, exported, wasStarted,
                 stopVars, toState, fromPw, mainVars>>

\* A mutated StreamStart: was_started is stored and not swapped.
StreamStartUnguarded ==
  /\ starting # NoSession /\ rest # <<>>
  /\ wasStarted' = wasStarted \cup {Head(rest)}
  /\ toState' = Append(toState, StartMsg(Head(rest)))
  /\ rest' = Tail(rest)
  /\ UNCHANGED <<registered, created, streams, owner, exported, calls, starting,
                 stopVars, fromPw, mainVars>>

\* Stream::start: the swap of was_started lets one StartCast through.
StreamStart ==
  /\ starting # NoSession /\ rest # <<>>
  /\ IF Head(rest) \in wasStarted
       THEN UNCHANGED <<wasStarted, toState>>
       ELSE /\ wasStarted' = wasStarted \cup {Head(rest)}
            /\ toState' = Append(toState, StartMsg(Head(rest)))
  /\ rest' = Tail(rest)
  /\ UNCHANGED <<registered, created, streams, owner, exported, calls, starting,
                 stopVars, fromPw, mainVars>>

StartReturns ==
  /\ starting # NoSession /\ rest = <<>>
  /\ starting' = NoSession
  /\ UNCHANGED <<registered, created, streams, owner, exported, wasStarted, calls,
                 rest, stopVars, toState, fromPw, mainVars>>
-----------------------------------------------------------------------------
(* Session::stop, on whichever thread called it.                           *)

\* A mutated Enter: `stopped` is set and not tested.
EnterUnguarded(s, who) ==
  /\ stopPc' = [stopPc EXCEPT ![s] = "closing"]
  /\ stopper' = [stopper EXCEPT ![s] = who]
  /\ UNCHANGED <<taken, left>>

\* The swap of `stopped`: the caller that finds it set returns at once.
Enter(s, who) ==
  IF Stopped(s)
    THEN UNCHANGED stopVars
    ELSE /\ stopPc' = [stopPc EXCEPT ![s] = "closing"]
         /\ stopper' = [stopper EXCEPT ![s] = who]
         /\ UNCHANGED <<taken, left>>

StopCall(s) ==
  /\ BeginCall([method |-> "stop", session |-> s])
  /\ Enter(s, "dbus")
  /\ UNCHANGED <<registered, created, streams, owner, exported, wasStarted,
                 starting, rest, toState, fromPw, mainVars>>

\* A step of Session::stop belongs to the thread that won the swap.
MayStep(s) == stopper[s] = "dbus" => DbusFree

\* Session::closed(..).await has emitted the signal.
StopClosed(s) ==
  /\ stopPc[s] = "closing"
  /\ MayStep(s)
  /\ stopPc' = [stopPc EXCEPT ![s] = "sending"]
  /\ UNCHANGED <<stopper, taken, left, dbusVars, toState, fromPw, mainVars>>

\* A mutated StopSend over a channel with room for one message.
StopSendBounded(s) ==
  /\ stopPc[s] = "sending"
  /\ MayStep(s)
  /\ toState = <<>>
  /\ toState' = Append(toState, StopMsg(s))
  /\ stopPc' = [stopPc EXCEPT ![s] = "taking"]
  /\ UNCHANGED <<stopper, taken, left, dbusVars, fromPw, mainVars>>

StopSend(s) ==
  /\ stopPc[s] = "sending"
  /\ MayStep(s)
  /\ toState' = Append(toState, StopMsg(s))
  /\ stopPc' = [stopPc EXCEPT ![s] = "taking"]
  /\ UNCHANGED <<stopper, taken, left, dbusVars, fromPw, mainVars>>

\* mem::take under the mutex a running start loop holds.
StopTake(s) ==
  /\ stopPc[s] = "taking"
  /\ starting # s
  /\ taken' = [taken EXCEPT ![s] = streams[s]]
  /\ left' = [left EXCEPT ![s] = streams[s]]
  /\ streams' = [streams EXCEPT ![s] = <<>>]
  /\ stopPc' = [stopPc EXCEPT ![s] = "removing"]
  /\ UNCHANGED <<stopper, registered, created, owner, exported, wasStarted, calls,
                 starting, rest, toState, fromPw, mainVars>>

\* server.remove::<Stream>(..).await.unwrap(), one stream at a time.
StopRemoveStream(s) ==
  /\ stopPc[s] = "removing"
  /\ MayStep(s)
  /\ left[s] # <<>>
  /\ exported' = exported \ {Head(left[s])}
  /\ left' = [left EXCEPT ![s] = Tail(@)]
  /\ UNCHANGED <<stopPc, stopper, taken, registered, created, streams, owner,
                 wasStarted, calls, starting, rest, toState, fromPw, mainVars>>

\* server.remove::<Session>(..).await.unwrap(), and stop returns: the main
\* thread's block_on is over.
StopUnregister(s) ==
  /\ stopPc[s] = "removing"
  /\ MayStep(s)
  /\ left[s] = <<>>
  /\ registered' = registered \ {s}
  /\ stopPc' = [stopPc EXCEPT ![s] = "done"]
  /\ blocked' = IF stopper[s] = "main" THEN NoSession ELSE blocked
  /\ UNCHANGED <<stopper, taken, left, created, streams, owner, exported,
                 wasStarted, calls, starting, rest, toState, fromPw, pipewire, casts,
                 pending>>
-----------------------------------------------------------------------------
(* The main thread.                                                        *)

\* A mutated CastsOf: a forward loop with swap_remove skips the cast it moves.
FirstCastOf(s) ==
  LET mine == {x \in casts : owner[x] = s}
  IN  IF mine = {} THEN {} ELSE {CHOOSE x \in mine : TRUE}

CastsOf(s) == {x \in casts : owner[x] = s}
SessionsCast == {owner[x] : x \in casts}

\* stop_cast: drop the session's casts, then call Session::stop if the object
\* is still exported.  Looking the object up and swapping `stopped` are one
\* step: whatever the other thread does between them, stop returns early.
StopCast(s) ==
  /\ casts' = casts \ CastsOf(s)
  /\ IF s \in registered
       THEN /\ Enter(s, "main")
            /\ blocked' = IF Stopped(s) THEN NoSession ELSE s
       ELSE UNCHANGED <<stopVars, blocked>>

StartSucceeds(x) ==
  /\ pipewire' = TRUE
  /\ casts' = casts \cup {x}
  /\ UNCHANGED <<stopVars, blocked>>

\* A missing output or window, a window on no output, no GBM device: before
\* PipeWire is created.  No DMA-BUF format, a stream that does not connect:
\* after.
StartFails(x) ==
  /\ \/ UNCHANGED pipewire
     \/ pipewire' = TRUE
  /\ StopCast(owner[x])

HandleStartCast ==
  /\ MainIdle
  /\ toState # <<>> /\ Head(toState).kind = "start"
  /\ toState' = Tail(toState)
  /\ LET x == Head(toState).stream IN StartSucceeds(x) \/ StartFails(x)
  /\ UNCHANGED <<dbusVars, fromPw, pending>>

HandleStopCast ==
  /\ MainIdle
  /\ toState # <<>> /\ Head(toState).kind = "stop"
  /\ toState' = Tail(toState)
  /\ StopCast(Head(toState).session)
  /\ UNCHANGED <<dbusVars, fromPw, pipewire, pending>>

\* A live stream's PipeWire callback asks for its session to be stopped.
PwRequestsStop ==
  /\ MainIdle
  /\ Len(fromPw) < PwCap
  /\ \E s \in SessionsCast : fromPw' = Append(fromPw, StopMsg(s))
  /\ UNCHANGED <<dbusVars, stopVars, toState, mainVars>>

\* The PipeWire connection broke (EPIPE on the core proxy).
PwFails ==
  /\ MainIdle
  /\ pipewire
  /\ Len(fromPw) < PwCap
  /\ fromPw' = Append(fromPw, FatalMsg)
  /\ UNCHANGED <<dbusVars, stopVars, toState, mainVars>>

HandlePwStop ==
  /\ MainIdle
  /\ fromPw # <<>> /\ Head(fromPw).kind = "stop"
  /\ fromPw' = Tail(fromPw)
  /\ StopCast(Head(fromPw).session)
  /\ UNCHANGED <<dbusVars, toState, pipewire, pending>>

\* FatalError: take the connection and stop every session that has a cast.
HandlePwFatal ==
  /\ MainIdle
  /\ fromPw # <<>> /\ Head(fromPw).kind = "fatal"
  /\ fromPw' = Tail(fromPw)
  /\ pipewire' = FALSE
  /\ pending' = IF pipewire THEN SessionsCast ELSE {}
  /\ UNCHANGED <<dbusVars, stopVars, toState, casts, blocked>>

\* A frame whose stream cannot be resized: render_surface collects the
\* sessions while it borrows the casts and stops them afterwards.
RenderFails ==
  /\ MainIdle
  /\ \E failed \in SUBSET SessionsCast : failed # {} /\ pending' = failed
  /\ UNCHANGED <<dbusVars, stopVars, toState, fromPw, pipewire, casts, blocked>>

\* One iteration of a loop that calls stop_cast for several sessions.
StopNextPending ==
  /\ blocked = NoSession
  /\ \E s \in pending :
       /\ pending' = pending \ {s}
       /\ StopCast(s)
  /\ UNCHANGED <<dbusVars, toState, fromPw, pipewire>>
-----------------------------------------------------------------------------
ClientStep ==
  \/ \E s \in Session : CreateSession(s)
  \/ \E c \in Call : Dispatch(c)

CallStep ==
  \/ \E s \in Session, x \in Stream : Record(s, x)
  \/ \E s \in Session : RecordFails(s)
  \/ \E s \in Session : StartCall(s)
  \/ \E s \in Session : StopCall(s)

StartStep == StreamStart \/ StartReturns

StopStep(s) ==
  \/ StopClosed(s)
  \/ StopSend(s)
  \/ StopTake(s)
  \/ StopRemoveStream(s)
  \/ StopUnregister(s)

MainStep ==
  \/ HandleStartCast
  \/ HandleStopCast
  \/ HandlePwStop
  \/ HandlePwFatal
  \/ StopNextPending

PwStep == PwRequestsStop \/ PwFails \/ RenderFails

Next ==
  \/ ClientStep
  \/ CallStep
  \/ StartStep
  \/ \E s \in Session : StopStep(s)
  \/ MainStep
  \/ PwStep

Spec == Init /\ [][Next]_vars

\* The executor's run queue is first-in first-out, so a stop that keeps being
\* overtaken by start calls still gets its turn (strong fairness); the event
\* loop drains its channels; clients and PipeWire owe nothing.
Fairness ==
  /\ WF_vars(StartStep)
  /\ WF_vars(MainStep)
  /\ \A s \in Session : SF_vars(StopStep(s))

FairSpec == Spec /\ Fairness
-----------------------------------------------------------------------------
(* Properties.                                                             *)

TypeOK ==
  /\ registered \subseteq created /\ created \subseteq Session
  /\ streams \in [Session -> Seq(Stream)]
  /\ owner \in [Stream -> Session \cup {NoSession}]
  /\ exported \subseteq Stream /\ wasStarted \subseteq Stream
  /\ calls \subseteq Call
  /\ starting \in Session \cup {NoSession} /\ rest \in Seq(Stream)
  /\ stopPc \in [Session ->
       {"idle", "closing", "sending", "taking", "removing", "done"}]
  /\ stopper \in [Session -> {"nobody", "dbus", "main"}]
  /\ taken \in [Session -> Seq(Stream)] /\ left \in [Session -> Seq(Stream)]
  /\ toState \in Seq(Message) /\ fromPw \in Seq(PwMessage)
  /\ pipewire \in BOOLEAN /\ casts \subseteq Stream
  /\ pending \subseteq Session /\ blocked \in Session \cup {NoSession}

\* Session::stop unwraps the result of every ObjectServer::remove: the object
\* it is about to remove must still be exported, whichever of the two threads
\* runs it and whatever calls run in between, or the thread panics.
RemovalNeverPanics ==
  \A s \in Session : stopPc[s] = "removing" =>
    /\ s \in registered
    /\ left[s] # <<>> => Head(left[s]) \in exported

\* The stream id is the key redraw_cast looks a cast up by: a stream has at
\* most one cast or one StartCast on its way, never two, and none again once
\* its cast has ended, however often and concurrently clients call Start.
OneCastPerStream ==
  \A x \in Stream :
    LET requests == {i \in 1..Len(toState) : toState[i] = StartMsg(x)}
    IN  /\ Cardinality(requests) + (IF x \in casts THEN 1 ELSE 0) <= 1
        /\ requests # {} => x \in wasStarted

\* A stop over D-Bus ends the casts of the session it stops: once its
\* StopCast has been handled, no stream it took from the session is being cast
\* or still has a StartCast queued.
DbusStopEndsCasts ==
  \A s \in Session :
    (stopper[s] = "dbus" /\ StopMsg(s) \notin Rng(toState)) =>
      \A x \in Rng(taken[s]) : x \notin casts /\ StartMsg(x) \notin Rng(toState)

\* The closed signal is emitted at most once per session: nothing takes a
\* session that has begun to stop back to emitting it, on either thread.
ClosedOnce ==
  [][\A s \in Session :
       (Stopped(s) /\ stopPc'[s] = "closing") =>
          (stopPc[s] = "closing" /\ stopper'[s] = stopper[s])]_vars

\* A stop that has begun ends: the session object goes away although the main
\* thread may be inside it, waiting for a mutex a start loop holds.
StopCompletes ==
  \A s \in Session : (Stopped(s)) ~> (s \notin registered)

\* What an observer of one stream sees of the queue, the flag and the casts.
stage == [x \in Stream |->
  CASE x \in casts -> "running"
    [] x \notin casts /\ StartMsg(x) \in Rng(toState) -> "requested"
    [] x \notin casts /\ StartMsg(x) \notin Rng(toState) ->
         IF x \in wasStarted THEN "ended" ELSE "idle"]

\* The threads, flags and queues implement the promised life of a stream: it
\* is requested once and never cast again after it ended.
Lifecycle == INSTANCE CastLifecycle WITH Stream <- Stream, stage <- stage
ImplementsLifecycle == Lifecycle!Spec

\* The main thread is never stuck in stop_cast: it becomes idle again.
MainBecomesIdle == []<>MainIdle

\* Neither thread waits for the other for ever: every stop ends, and the main
\* loop, which runs some of them, comes back to its events each time.
StopsEnd == StopCompletes /\ MainBecomesIdle
=============================================================================
