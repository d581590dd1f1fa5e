----------------------------- MODULE Screencopy -----------------------------
(***************************************************************************)
(* The wlr-screencopy server (screencopy.rs).  Clients bind managers, ask  *)
(* them for frames and ask a frame to copy into a buffer.  A manager has a *)
(* queue in ScreencopyManagerState.queues from its bind until neither the  *)
(* manager nor a pending frame of it is left; two handlers unwrap the      *)
(* lookup of that queue.  A client that breaks the protocol or disconnects *)
(* is cut off, and its objects are then destroyed in no particular order.  *)
(***************************************************************************)
EXTENDS Naturals, FiniteSets

CONSTANTS
  Manager,  \* manager objects clients may bind
  Frame     \* frame objects clients may create

VARIABLES
  owner,     \* Manager -> "unbound", "alive" or "dead"
  frames,    \* Frame -> "new", "failed" or "pending" (ScreencopyFrameState)
  alive,     \* the frame objects that exist
  parent,    \* Frame -> the managers it was created from: none or one
  copied,    \* frames whose copied flag is set
  cut,       \* managers whose client has been cut off
  queues,    \* managers with an entry in ScreencopyManagerState.queues
  pending,   \* ScreencopyQueue.pending_frames of each manager
  answers,   \* Frame -> how many of failed() and ready() it was sent
  shot       \* AnvilState.pending_screenshot

vars == <<owner, frames, alive, parent, copied, cut, queues, pending, answers,
          shot>>

Init ==
  /\ owner = [m \in Manager |-> "unbound"]
  /\ frames = [f \in Frame |-> "new"]
  /\ alive = {} /\ copied = {} /\ cut = {} /\ queues = {}
  /\ parent = [f \in Frame |-> {}]
  /\ pending = [m \in Manager |-> {}]
  /\ answers = [f \in Frame |-> 0]
  /\ shot = FALSE

\* A client binds the global: the manager gets an empty queue.
BindManager(m) ==
  /\ owner[m] = "unbound"
  /\ owner' = [owner EXCEPT ![m] = "alive"]
  /\ queues' = queues \cup {m}
  /\ pending' = [pending EXCEPT ![m] = {}]
  /\ UNCHANGED <<frames, alive, parent, copied, cut, answers, shot>>

\* capture_output(_region) for an output that is gone, an empty region or one
\* outside the output: the frame fails at once and no queue hears of it.
CaptureRefused(m, f) ==
  /\ owner[m] = "alive" /\ m \notin cut
  /\ frames[f] = "new"
  /\ frames' = [frames EXCEPT ![f] = "failed"]
  /\ alive' = alive \cup {f}
  /\ answers' = [answers EXCEPT ![f] = @ + 1]
  /\ parent' = [parent EXCEPT ![f] = {m}]
  /\ UNCHANGED <<owner, copied, cut, queues, pending, shot>>

\* capture_output(_region): the frame is announced and put into the queue,
\* which the handler takes for granted.
Capture(m, f) ==
  /\ owner[m] = "alive" /\ m \notin cut
  /\ frames[f] = "new"
  /\ m \in queues
  /\ frames' = [frames EXCEPT ![f] = "pending"]
  /\ alive' = alive \cup {f}
  /\ parent' = [parent EXCEPT ![f] = {m}]
  /\ pending' = [pending EXCEPT ![m] = @ \cup {f}]
  /\ UNCHANGED <<owner, copied, cut, queues, answers, shot>>

\* The requests a frame can still receive: those of a client not cut off.
Served(m, f) == f \in alive /\ parent[f] = {m} /\ m \notin cut

\* The queue of m goes when it has become empty and m is dead already.
Prune(m) ==
  queues' = IF pending'[m] = {} /\ owner[m] # "alive" THEN queues \ {m} ELSE queues

\* copy of a frame already copied, or into a buffer of the wrong size or
\* format: a protocol error, which cuts the client off.
CopyRefused(m, f) ==
  /\ Served(m, f)
  /\ frames[f] = "pending"
  /\ cut' = cut \cup {m}
  /\ UNCHANGED <<owner, frames, alive, parent, copied, queues, pending, answers, shot>>

\* A mutated Copy: the frame may be copied again.
CopyAgain(m, f) ==
  /\ Served(m, f)
  /\ frames[f] = "pending" /\ (f \in copied \/ m \in queues)
  /\ copied' = copied \cup {f}
  /\ shot' = TRUE
  /\ answers' = [answers EXCEPT ![f] = @ + 1]
  /\ pending' = [pending EXCEPT ![m] = @ \ {f}]
  /\ Prune(m)
  /\ UNCHANGED <<owner, frames, alive, parent, cut>>

\* copy or copy_with_damage into a good buffer.  AnvilState::frame keeps the
\* request for a screenshot and drops the Screencopy, whose Drop tells the
\* client that the frame failed; the frame then leaves its queue.
Copy(m, f) ==
  /\ Served(m, f)
  /\ frames[f] = "pending" /\ f \notin copied
  /\ m \in queues
  /\ copied' = copied \cup {f}
  /\ shot' = TRUE
  /\ answers' = [answers EXCEPT ![f] = @ + 1]
  /\ pending' = [pending EXCEPT ![m] = @ \ {f}]
  /\ Prune(m)
  /\ UNCHANGED <<owner, frames, alive, parent, cut>>

\* A mutated DestroyFrame: the queue of a dead manager stays.
DestroyFrameOnly(m, f) ==
  /\ f \in alive /\ parent[f] = {m}
  /\ alive' = alive \ {f}
  /\ pending' = [pending EXCEPT ![m] = @ \ {f}]
  /\ UNCHANGED <<owner, frames, parent, copied, cut, queues, answers, shot>>

\* A frame is destroyed, by its client's request or after the cut.
DestroyFrame(m, f) ==
  /\ f \in alive /\ parent[f] = {m}
  /\ alive' = alive \ {f}
  /\ IF frames[f] = "pending" /\ m \in queues
     THEN /\ pending' = [pending EXCEPT ![m] = @ \ {f}]
          /\ Prune(m)
     ELSE UNCHANGED <<pending, queues>>
  /\ UNCHANGED <<owner, frames, parent, copied, cut, answers, shot>>

\* A mutated DestroyManager: the queue goes whatever is pending.
DestroyManagerAtOnce(m) ==
  /\ owner[m] = "alive"
  /\ owner' = [owner EXCEPT ![m] = "dead"]
  /\ queues' = queues \ {m}
  /\ UNCHANGED <<frames, alive, parent, copied, cut, pending, answers, shot>>

\* A manager is destroyed: its queue stays as long as a frame is pending.
DestroyManager(m) ==
  /\ owner[m] = "alive"
  /\ owner' = [owner EXCEPT ![m] = "dead"]
  /\ queues' = IF pending[m] = {} THEN queues \ {m} ELSE queues
  /\ UNCHANGED <<frames, alive, parent, copied, cut, pending, answers, shot>>

\* The client disconnects.
Disconnect(m) ==
  /\ owner[m] # "unbound" /\ m \notin cut
  /\ cut' = cut \cup {m}
  /\ UNCHANGED <<owner, frames, alive, parent, copied, queues, pending, answers, shot>>

\* The next rendered frame serves the request for a screenshot, once (but
\* run_x11 never looks at it).
TakeScreenshot ==
  /\ shot
  /\ shot' = FALSE
  /\ UNCHANGED <<owner, frames, alive, parent, copied, cut, queues, pending, answers>>

Next ==
  \/ TakeScreenshot
  \/ \E m \in Manager : BindManager(m) \/ DestroyManager(m) \/ Disconnect(m)
  \/ \E m \in Manager, f \in Frame :
       \/ CaptureRefused(m, f) \/ Capture(m, f)
       \/ CopyRefused(m, f) \/ Copy(m, f) \/ DestroyFrame(m, f)

\* The display server destroys every object of a client it cut off.
Fairness ==
  /\ \A m \in Manager : WF_vars(m \in cut /\ DestroyManager(m))
  /\ \A m \in Manager, f \in Frame : WF_vars(m \in cut /\ DestroyFrame(m, f))

Spec == Init /\ [][Next]_vars /\ Fairness
-----------------------------------------------------------------------------
TypeOK ==
  /\ owner \in [Manager -> {"unbound", "alive", "dead"}]
  /\ frames \in [Frame -> {"new", "failed", "pending"}]
  /\ parent \in [Frame -> SUBSET Manager]
  /\ alive \subseteq Frame /\ copied \subseteq Frame
  /\ cut \subseteq Manager /\ queues \subseteq Manager
  /\ pending \in [Manager -> SUBSET Frame]
  /\ answers \in [Frame -> 0..1]
  /\ shot \in BOOLEAN

\* The frames of m that a client may still ask to copy.
Copyable(m) ==
  {f \in alive : parent[f] = {m} /\ frames[f] = "pending" /\ f \notin copied}

\* A queue exists exactly while its manager or a frame that can still be
\* copied does, and it lists exactly those frames: the two handlers that
\* unwrap the lookup (capture and copy) always find it, in whatever order the
\* objects are destroyed, and no queue is leaked.
QueueWhileNeeded ==
  \A m \in Manager :
    /\ pending[m] = Copyable(m)
    /\ m \in queues <=> (owner[m] = "alive" \/ Copyable(m) # {})

\* Every frame is answered at most once, and one that failed or was copied
\* has been.
AnsweredOnce ==
  \A f \in Frame : answers[f] = IF frames[f] = "failed" \/ f \in copied THEN 1 ELSE 0

\* Nothing of a client that was cut off stays behind.
CutLeavesNothing ==
  \A m \in Manager : m \in cut ~> (m \notin queues /\ pending[m] = {})
=============================================================================
