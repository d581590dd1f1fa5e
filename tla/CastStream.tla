----------------------------- MODULE CastStream -----------------------------
(***************************************************************************)
(* One cast as the main loop sees it (screencasting/pw_utils.rs): the      *)
(* format negotiation CastState tracks, the buffers of the PipeWire stream *)
(* and their dma-bufs, and the two passes in which every output frame      *)
(* feeds the cast (screencasting/mod.rs).                                  *)
(*                                                                         *)
(* PipeWire's callbacks, the fences and the frames are all callbacks of    *)
(* one event loop, so they never overlap; what is concurrent is the other  *)
(* side: the PipeWire server, the consumer and the GPU.  Offers the stream *)
(* has made and the server has not answered are a queue; an answer is the  *)
(* param_changed callback.  Time is left out: whether a frame is withheld  *)
(* for the consumer's rate limit is a free choice, as is damage.           *)
(***************************************************************************)
EXTENDS Naturals, Sequences, FiniteSets

CONSTANTS
  Size,       \* buffer sizes in physical pixels
  Buffer,     \* the pw_buffers the server may allocate
  NoSize,     \* "no window", "no buffer", "no frame yet"
  MaxOffers,  \* bound: unanswered offers
  MaxFrames   \* bound: frames rendered

ASSUME StreamAssumption ==
  /\ NoSize \notin Size
  /\ MaxOffers \in Nat /\ MaxFrames \in Nat

VARIABLES
  target,     \* CastTarget: an output or a window
  alive,      \* the cast is in Screencasting.casts
  stopSent,   \* a callback posted PwToState::StopCast
  state,      \* CastInner.state: kind and size
  streamState,\* pw_stream state
  active,     \* CastInner.is_active
  announced,  \* CastInner.node_id is Some: PipeWireStreamAdded was signalled
  offers,     \* update_params the server has not answered yet
  allocating, \* the server is to allocate buffers for the accepted format
  place,      \* where each buffer is
  backing,    \* the size of the dma-buf in CastInner.dmabufs, per buffer
  rendering,  \* CastInner.rendering_buffers
  fences,     \* frames whose fence fd is registered with the event loop
  reached,    \* frames whose fence is signalled
  frameNo,    \* Cast.sequence_counter
  lastSent,   \* the last frame number given to the consumer
  outSize,    \* the output's mode
  winSize,    \* the captured window's bounding box, NoSize once it is gone
  pass        \* which pass of the output frame is due

negotiation == <<state, streamState, active, announced, offers, allocating>>
buffers == <<place, backing, rendering, fences, reached, frameNo, lastSent>>
scene == <<target, outSize, winSize>>
vars == <<alive, stopSent, negotiation, buffers, scene, pass>>

Resizing(sz) == [kind |-> "ResizePending", size |-> sz]
Confirming(sz) == [kind |-> "ConfirmationPending", size |-> sz]
Ready(sz) == [kind |-> "Ready", size |-> sz]
IsReady == state.kind = "Ready"

Offer == [size : Size, fixated : BOOLEAN]

Frames(q) == {q[i].frame : i \in 1..Len(q)}

Init ==
  /\ target \in {"output", "window"}
  /\ outSize \in Size /\ winSize \in Size
  /\ alive = TRUE /\ stopSent = FALSE
  \* start_cast takes the output's size for a window too.
  /\ state = Resizing(outSize)
  /\ streamState = "connecting" /\ active = FALSE /\ announced = FALSE
  /\ offers = <<[size |-> outSize, fixated |-> FALSE]>>
  /\ allocating = FALSE
  /\ place = [b \in Buffer |-> "absent"]
  /\ backing = [b \in Buffer |-> NoSize]
  /\ rendering = <<>> /\ fences = {} /\ reached = {}
  /\ frameNo = 0 /\ lastSent = 0
  /\ pass = "none"

\* The event loop is free to run a callback of this cast.
Callback == alive /\ pass = "none"

\* The Cast is dropped, and with it its stream, buffers and timers.
Dropped ==
  /\ alive' = FALSE /\ stopSent' = FALSE /\ pass' = "none"
  /\ state' = Resizing(outSize)
  /\ streamState' = "connecting" /\ active' = FALSE /\ announced' = FALSE
  /\ offers' = <<>> /\ allocating' = FALSE
  /\ place' = [b \in Buffer |-> "absent"]
  /\ backing' = [b \in Buffer |-> NoSize]
  /\ rendering' = <<>> /\ fences' = {} /\ reached' = {}
  /\ frameNo' = 0 /\ lastSent' = 0
  /\ UNCHANGED scene
-----------------------------------------------------------------------------
(* PipeWire callbacks.                                                     *)

\* Paused: the first time, signal the node id; a failure stops the cast.
StatePaused ==
  /\ Callback /\ streamState \in {"connecting", "streaming"}
  /\ streamState' = "paused"
  /\ announced' = TRUE
  /\ stopSent' \in (IF announced THEN {stopSent} ELSE {stopSent, TRUE})
  /\ active' = FALSE
  /\ UNCHANGED <<alive, state, offers, allocating, buffers, scene, pass>>

StateStreaming ==
  /\ Callback /\ streamState = "paused"
  /\ streamState' = "streaming"
  /\ active' = TRUE
  /\ UNCHANGED <<alive, stopSent, state, announced, offers, allocating, buffers,
                 scene, pass>>

StateError ==
  /\ Callback /\ streamState # "error"
  /\ streamState' = "error"
  /\ active' = FALSE
  /\ stopSent' = (stopSent \/ active)
  /\ UNCHANGED <<alive, state, announced, offers, allocating, buffers, scene, pass>>

\* A mutated remove_buffer: rendering_buffers keeps its entries.
RemoveBuffersKeepQueue ==
  /\ place' = [b \in Buffer |-> "absent"]
  /\ backing' = [b \in Buffer |-> NoSize]
  /\ UNCHANGED rendering

\* remove_buffer for every buffer: pw_stream (external) clears the buffers of
\* a port whose format changes before it reports the format.
RemoveBuffers ==
  /\ place' = [b \in Buffer |-> "absent"]
  /\ backing' = [b \in Buffer |-> NoSize]
  /\ rendering' = <<>>

Answer == Head(offers)

\* param_changed with a raw video format, up to its first test of the size.
FormatArrives ==
  /\ Callback /\ offers # <<>> /\ streamState # "error"
  /\ RemoveBuffers
  /\ UNCHANGED <<alive, streamState, active, announced, fences, reached, frameNo,
                 lastSent, scene, pass>>

\* The size is not the one the state expects: an answer to an offer that has
\* been superseded is waited out while a resize is pending, and fatal else.
FormatOfOtherSize ==
  /\ FormatArrives
  /\ Answer.size # state.size
  /\ offers' = Tail(offers)
  /\ allocating' = FALSE
  /\ stopSent' = (stopSent \/ state.kind # "ResizePending")
  /\ UNCHANGED state

\* The peer left the modifier open: pick one and offer it, fixated.
FormatToFixate ==
  /\ FormatArrives
  /\ Answer.size = state.size
  /\ allocating' = FALSE
  /\ \/ /\ state' = Confirming(state.size)
        /\ offers' = Append(Tail(offers), [size |-> state.size, fixated |-> TRUE])
        /\ UNCHANGED stopSent
     \/ /\ state' \in {state, Confirming(state.size)}  \* allocation, update_params fail
        /\ offers' = Tail(offers)
        /\ stopSent' = TRUE

\* A fixed format: the state keeps its parameters if they agree, or tests an
\* allocation; then the buffer parameters go out.
FormatFixed ==
  /\ FormatArrives
  /\ Answer.size = state.size
  /\ offers' = Tail(offers)
  /\ \/ /\ state' = Ready(state.size)
        /\ allocating' = TRUE
        /\ UNCHANGED stopSent
     \/ /\ state' \in {state, Ready(state.size)}       \* allocation, update_params fail
        /\ allocating' = FALSE
        /\ stopSent' = TRUE

\* add_buffer allocates a dma-buf of the negotiated size, unless the state has
\* left Ready since the server was told to allocate: then the buffer joins the
\* stream (external: the server queues it) without one.
AddBuffer(b) ==
  /\ Callback /\ allocating /\ place[b] = "absent"
  /\ place' = [place EXCEPT ![b] = "free"]
  /\ IF IsReady
       THEN \/ /\ backing' = [backing EXCEPT ![b] = state.size]
               /\ UNCHANGED stopSent
            \/ /\ stopSent' = TRUE                     \* allocation fails
               /\ UNCHANGED backing
       ELSE UNCHANGED <<backing, stopSent>>
  /\ UNCHANGED <<alive, negotiation, rendering, fences, reached, frameNo, lastSent, scene, pass>>
-----------------------------------------------------------------------------
(* Finished frames.                                                        *)

\* A mutated queue_completed_buffers: every entry whose fence is reached.
QueueReached(q, done) ==
  [sent |-> SelectSeq(q, LAMBDA e : e.frame \in done),
   kept |-> SelectSeq(q, LAMBDA e : e.frame \notin done)]

\* queue_completed_buffers: the leading entries whose fence is reached.
QueueCompleted(q, done) ==
  LET prefixes == {k \in 0..Len(q) : \A i \in 1..k : q[i].frame \in done}
      n == CHOOSE k \in prefixes : \A j \in prefixes : j <= k
  IN  [sent |-> SubSeq(q, 1, n), kept |-> SubSeq(q, n + 1, Len(q))]

\* What a call of queue_completed_buffers does to buffers, given where they
\* are, the entries and the fences that are reached.
Drain(where, q, done) ==
  LET split == QueueCompleted(q, done)
      gone == {split.sent[i].buffer : i \in 1..Len(split.sent)}
  IN  /\ rendering' = split.kept
      /\ place' = [b \in Buffer |-> IF b \in gone THEN "consumer" ELSE where[b]]
      /\ lastSent' = IF split.sent = <<>> THEN lastSent
                     ELSE split.sent[Len(split.sent)].frame

\* The GPU finishes a frame.
GpuDone(n) ==
  /\ alive /\ n \in Frames(rendering) \cup fences
  /\ n \notin reached
  /\ reached' = reached \cup {n}
  /\ UNCHANGED <<alive, stopSent, negotiation, place, backing, rendering, fences,
                 frameNo, lastSent, scene, pass>>

\* A mutated FenceReadable: it sends its own frame and none that waits behind.
FenceSendsOwn(n) ==
  /\ Callback
  /\ n \in fences \cap reached
  /\ fences' = fences \ {n}
  /\ Drain(place, rendering, {n})
  /\ UNCHANGED <<alive, stopSent, negotiation, backing, reached, frameNo, scene, pass>>

\* The one-shot source of a frame's fence becomes readable.
FenceReadable(n) ==
  /\ Callback
  /\ n \in fences \cap reached
  /\ fences' = fences \ {n}
  /\ Drain(place, rendering, reached)
  /\ UNCHANGED <<alive, stopSent, negotiation, backing, reached, frameNo, scene, pass>>

ConsumerReturns(b) ==
  /\ alive /\ place[b] = "consumer"
  /\ place' = [place EXCEPT ![b] = "free"]
  /\ UNCHANGED <<alive, stopSent, negotiation, backing, rendering, fences, reached,
                 frameNo, lastSent, scene, pass>>
-----------------------------------------------------------------------------
(* An output frame: first the pass over the output casts, which a window    *)
(* cast falls through as well, then the pass over the window casts.         *)

\* ensure_size finds the stream ready at this size.
SizeReady(sz) ==
  /\ state = Ready(sz)
  /\ UNCHANGED <<state, offers>>

\* A mutated SizePending: the new size is taken for negotiated at once.
SizePendingReady(sz) ==
  IF ~IsReady /\ state.size = sz
    THEN UNCHANGED <<state, offers>>
    ELSE /\ state # Ready(sz)
         /\ state' = Ready(sz)
         /\ offers' = Append(offers, [size |-> sz, fixated |-> FALSE])

\* ensure_size finds it pending, or asks for it.
SizePending(sz) ==
  IF ~IsReady /\ state.size = sz
    THEN UNCHANGED <<state, offers>>
    ELSE /\ state # Ready(sz)
         /\ state' = Resizing(sz)
         /\ offers' = Append(offers, [size |-> sz, fixated |-> FALSE])

\* ensure_size asks for it and update_params fails.
SizeFails(sz) ==
  /\ state.size # sz
  /\ state' = Resizing(sz)
  /\ UNCHANGED offers

\* No damage, the rate limit, or no buffer to dequeue.
FrameSkipped == UNCHANGED buffers

\* render_to_dmabuf and queue_after_sync: with a fence to wait for, or none to
\* export, in which case the frame counts as finished.
FrameRendered ==
  /\ frameNo < MaxFrames
  /\ \E b \in Buffer :
       /\ place[b] = "free"
       /\ LET n == frameNo + 1
              where == [place EXCEPT ![b] = "rendering"]
              queue == Append(rendering, [buffer |-> b, frame |-> n])
          IN  /\ frameNo' = n
              /\ \/ /\ fences' = fences \cup {n}
                    /\ place' = where /\ rendering' = queue
                    /\ UNCHANGED <<reached, lastSent>>
                 \/ /\ reached' = reached \cup {n}
                    /\ Drain(where, queue, reached')
                    /\ UNCHANGED fences
  /\ UNCHANGED backing

\* Rendering fails: the buffer goes to the consumer marked corrupted.
FrameCorrupted ==
  /\ \E b \in Buffer :
       /\ place[b] = "free"
       /\ place' = [place EXCEPT ![b] = "consumer"]
  /\ UNCHANGED <<backing, rendering, fences, reached, frameNo, lastSent>>

Draw == FrameSkipped \/ FrameRendered \/ FrameCorrupted

\* A mutated Feed: any Ready stream will do.
FeedUnchecked(sz) ==
  \/ IsReady /\ Draw /\ UNCHANGED <<state, offers>>
  \/ SizePending(sz) /\ FrameSkipped

\* ensure_size, then draw unless the size is pending.
Feed(sz) ==
  \/ SizeReady(sz) /\ Draw
  \/ SizePending(sz) /\ FrameSkipped

FrameGuard == Callback /\ active /\ Len(offers) + 2 <= MaxOffers

AfterOutputs == IF target = "window" THEN "windows" ELSE "none"

\* render_for_screen_cast_inner.  Only a cast of another output is skipped.
RenderOutput ==
  /\ FrameGuard
  /\ Feed(outSize)
  /\ pass' = AfterOutputs
  /\ UNCHANGED <<alive, stopSent, streamState, active, announced, allocating, scene>>

\* A stream that cannot be resized is stopped once both passes are over.
RenderOutputFails ==
  /\ FrameGuard
  /\ SizeFails(outSize)
  /\ target = "window"
  /\ pass' = "windowsThenStop"
  /\ UNCHANGED <<alive, stopSent, streamState, active, announced, allocating,
                 buffers, scene>>

OutputCastFails ==
  /\ FrameGuard
  /\ target = "output" /\ state.size # outSize
  /\ Dropped

WindowsPass == alive /\ pass \in {"windows", "windowsThenStop"}

\* render_windows_for_screen_cast_inner, the window being on an output, or on
\* none and skipped.
RenderWindow ==
  /\ WindowsPass /\ pass = "windows" /\ winSize # NoSize
  /\ \/ Feed(winSize)
     \/ UNCHANGED <<state, offers, buffers>>
  /\ pass' = "none"
  /\ UNCHANGED <<alive, stopSent, streamState, active, announced, allocating, scene>>

\* dequeue_buffer_and_clear: the window is gone.  It needs no Ready state.
ClearStream ==
  /\ WindowsPass /\ pass = "windows" /\ winSize = NoSize
  /\ FrameSkipped \/ FrameRendered \/ FrameCorrupted
  /\ pass' = "none"
  /\ UNCHANGED <<state, offers, alive, stopSent, streamState, active, announced,
                 allocating, scene>>

\* One of the passes failed: the cast is stopped, whatever the second pass did.
WindowCastFails ==
  /\ WindowsPass
  /\ pass = "windowsThenStop" \/ (winSize # NoSize /\ state.size # winSize)
  /\ Dropped

\* StopCast is handled: posted by a callback above, or by the session.
StopHandled ==
  /\ Callback
  /\ Dropped

OutputModeChanges ==
  /\ Callback
  /\ outSize' \in Size
  /\ UNCHANGED <<target, winSize, alive, stopSent, negotiation, buffers, pass>>

WindowChanges ==
  /\ Callback /\ target = "window" /\ winSize # NoSize
  /\ winSize' \in Size \cup {NoSize}
  /\ UNCHANGED <<target, outSize, alive, stopSent, negotiation, buffers, pass>>
-----------------------------------------------------------------------------
FenceStep == \E n \in 1..MaxFrames : FenceReadable(n)
GpuStep == \E n \in 1..MaxFrames : GpuDone(n)
WindowsStep == RenderWindow \/ ClearStream \/ WindowCastFails

Next ==
  \/ StatePaused
  \/ StateStreaming
  \/ StateError
  \/ FormatOfOtherSize
  \/ FormatToFixate
  \/ FormatFixed
  \/ \E b \in Buffer : AddBuffer(b)
  \/ \E b \in Buffer : ConsumerReturns(b)
  \/ GpuStep
  \/ FenceStep
  \/ RenderOutput
  \/ RenderOutputFails
  \/ OutputCastFails
  \/ WindowsStep
  \/ StopHandled
  \/ OutputModeChanges
  \/ WindowChanges

Spec == Init /\ [][Next]_vars

\* The GPU finishes what it was given and the event loop serves its sources.
FairSpec ==
  /\ Spec
  /\ \A n \in 1..MaxFrames : WF_vars(GpuDone(n)) /\ SF_vars(FenceReadable(n))
  /\ WF_vars(WindowsStep)
-----------------------------------------------------------------------------
(* Properties.                                                             *)

TypeOK ==
  /\ target \in {"output", "window"} /\ alive \in BOOLEAN /\ stopSent \in BOOLEAN
  /\ state \in [kind : {"ResizePending", "ConfirmationPending", "Ready"}, size : Size]
  /\ streamState \in {"connecting", "paused", "streaming", "error"}
  /\ active \in BOOLEAN /\ announced \in BOOLEAN /\ allocating \in BOOLEAN
  /\ offers \in Seq(Offer)
  /\ place \in [Buffer -> {"absent", "free", "rendering", "consumer"}]
  /\ backing \in [Buffer -> Size \cup {NoSize}]
  /\ rendering \in Seq([buffer : Buffer, frame : Nat])
  /\ fences \subseteq Nat /\ reached \subseteq Nat
  /\ frameNo \in Nat /\ lastSent \in Nat
  /\ outSize \in Size /\ winSize \in Size \cup {NoSize}
  /\ pass \in {"none", "windows", "windowsThenStop"}

\* dequeue_buffer_and_render indexes dmabufs with the buffer it was given,
\* which panics if there is none, and renders into it a frame of the size the
\* caller asked ensure_size for: in the Ready state every buffer that can be
\* dequeued has a dma-buf, of exactly the negotiated size, although add_buffer
\* allocates none while a resize is pending.
ReadyBuffersFit ==
  IsReady => \A b \in Buffer :
    (place[b] = "free" /\ ~stopSent) => backing[b] = state.size

\* The buffers a step dequeues to render a frame into.
Dequeued(b) == frameNo' > frameNo /\ place[b] = "free" /\ place'[b] # "free"

\* A frame fits its buffer: a resize requested between the negotiation and the
\* frame, by a mode change or by the other pass, never lets a frame of one
\* size into a buffer of another.
FrameFitsBuffer ==
  [][\A b \in Buffer : (Dequeued(b) /\ ~stopSent) =>
       backing[b] = IF pass = "none" THEN outSize
                    ELSE IF winSize = NoSize THEN backing[b] ELSE winSize]_vars

\* At rest and in the step that renders, no buffer of a stale size is in use.
BuffersFit == []ReadyBuffersFit /\ FrameFitsBuffer

\* The consumer gets frames in the order they were rendered although their
\* fences signal in any order: nothing waiting is older than what was sent.
FramesInOrder ==
  /\ \A i \in 1..Len(rendering) : rendering[i].frame > lastSent
  /\ \A i, j \in 1..Len(rendering) : i < j => rendering[i].frame < rendering[j].frame

\* A buffer waits in one place: the entries of rendering_buffers are exactly
\* the dequeued buffers, each once, so none is queued twice or forgotten.
NoBufferLost ==
  /\ \A b \in Buffer : place[b] = "rendering" <=>
       \E i \in 1..Len(rendering) : rendering[i].buffer = b
  /\ \A i, j \in 1..Len(rendering) :
       rendering[i].buffer = rendering[j].buffer => i = j

\* Every rendered frame leaves the queue: its fence, or the fence of the frame
\* before it, sends it on, or the buffer is withdrawn or the cast ends.
RenderedFramesLeave ==
  \A n \in 1..MaxFrames :
    (n \in Frames(rendering)) ~> (n \notin Frames(rendering) \/ ~alive)

\* What RecordWindow promises (org.gnome.Mutter.ScreenCast): the stream of a
\* window shows the window; no frame of the output's pass goes into it.  No run
\* checks this property and the one below: TLC refutes both on the instance of
\* MCCastStream (README, section 6).
WindowCastShowsWindow ==
  [][(target = "window" /\ frameNo' > frameNo) => pass # "none"]_vars

\* dequeue_buffer_and_clear indexes dmabufs too, without asking for Ready: a
\* buffer the stream hands out must have a dma-buf there as well.
ClearFindsBuffer ==
  [][\A b \in Buffer : (Dequeued(b) /\ winSize = NoSize /\ pass # "none" /\ ~stopSent)
       => backing[b] # NoSize]_vars
=============================================================================
