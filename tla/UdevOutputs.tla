---------------------------- MODULE UdevOutputs ----------------------------
(***************************************************************************)
(* One DRM device of the udev backend (udev.rs): how its connectors become *)
(* outputs and go away again, through failures, and the render loop of     *)
(* each of its surfaces.                                                   *)
(*                                                                         *)
(* The loop is a chain of wake-ups: a frame timer or an idle callback      *)
(* renders; a rendered frame is flipped and its vblank arms the next timer; *)
(* an empty one arms it directly.  Nothing owns the chain: timers and idle *)
(* callbacks carry only the crtc and outlive the surface they were armed   *)
(* for, and a session that is paused and resumed starts the chain anew.    *)
(*                                                                         *)
(* Every handler runs on the event loop, one at a time; a connector scan   *)
(* is cut into its events, and no other handler runs before it ends.       *)
(* External: the DRM scanner, the compositor of a surface (at most one     *)
(* frame flipping and one queued behind it) and the kernel, which delivers *)
(* the vblank of each flip it accepted.  All outputs are one unit wide.    *)
(***************************************************************************)
EXTENDS Naturals, Sequences, FiniteSets

CONSTANTS
  Connector,    \* the device's connectors
  Crtc,         \* the device's CRTCs
  NoCrtc,       \* "no crtc"
  MaxFailures,  \* bound: outputs whose initialization failed
  MaxStarts     \* bound: render loops started

ASSUME OutputsAssumption ==
  /\ IsFiniteSet(Connector)
  /\ NoCrtc \notin Crtc
  /\ MaxFailures \in Nat /\ MaxStarts \in Nat

VARIABLES
  present,     \* the node has an entry in UdevData.backends
  running,     \* the session is active
  plugged,     \* connectors with a monitor
  scanned,     \* the scanner's crtc of each connector it knows as connected
  handler,     \* the handler in progress: a scan or the device's removal
  gone,        \* connectors it has still to disconnect
  arrived,     \* connectors it has still to connect
  outputs,     \* space.outputs(), in order
  advertised,  \* ipc_outputs, shared with the D-Bus thread: entries per name
  leasable,    \* BackendData.non_desktop_connectors
  surface,     \* BackendData.surfaces: the output's id per crtc, or 0
  failed,      \* history: outputs whose surface could not be made
  timers,      \* frame timers armed, per crtc
  idles,       \* idle callbacks that render, per crtc
  throttles,   \* vblank throttle timers armed, per crtc
  throttled,   \* SurfaceData.vblank_throttle_timer is Some
  presented,   \* SurfaceData.last_presentation_time is Some
  pending,     \* the surface has a frame flipping
  queued,      \* and one queued behind it
  flips,       \* flips whose vblank is still to come
  stalled,     \* history: an error the loop does not survive was reported
  starts       \* history: render loops started, per crtc

hotplug == <<present, plugged, scanned, handler, gone, arrived>>
registry == <<outputs, advertised, leasable, surface, failed>>
wakeups == <<timers, idles, throttles, throttled, flips>>
frames == <<presented, pending, queued, stalled>>
vars == <<hotplug, running, registry, wakeups, frames, starts>>

OutputId == 1..(Cardinality(Connector) + MaxFailures)
Ids == {outputs[i].id : i \in 1..Len(outputs)}
Surfaces == {surface[c] : c \in Crtc} \ {0}

\* An id no mapped output uses.
FreshId == CHOOSE id \in OutputId : id \notin Ids

\* space.outputs().find(..) by UdevOutputId: the first one mapped, 0 if none.
FindOutput(c) ==
  LET at == {i \in 1..Len(outputs) : outputs[i].crtc = c}
  IN  IF at = {} THEN 0
      ELSE outputs[CHOOSE i \in at : \A j \in at : i <= j].id

\* The wake-ups that may still render to crtc c.
Wakeups(c) == timers[c] + idles[c] + throttles[c] + flips[c]

Free == handler = "none"

Bump(f, c) == [f EXCEPT ![c] = @ + 1]
Drop(f, c) == [f EXCEPT ![c] = @ - 1]
Set(f, c, v) == [f EXCEPT ![c] = v]

Init ==
  /\ present = FALSE /\ running = TRUE
  /\ plugged \in SUBSET Connector
  /\ scanned = [k \in Connector |-> NoCrtc]
  /\ handler = "none" /\ gone = {} /\ arrived = {}
  /\ outputs = <<>> /\ advertised = [k \in Connector |-> 0] /\ leasable = {}
  /\ surface = [c \in Crtc |-> 0] /\ failed = {}
  /\ timers = [c \in Crtc |-> 0] /\ idles = [c \in Crtc |-> 0]
  /\ throttles = [c \in Crtc |-> 0] /\ throttled = [c \in Crtc |-> FALSE]
  /\ presented = [c \in Crtc |-> FALSE]
  /\ pending = [c \in Crtc |-> FALSE] /\ queued = [c \in Crtc |-> FALSE]
  /\ flips = [c \in Crtc |-> 0]
  /\ stalled = [c \in Crtc |-> FALSE] /\ starts = [c \in Crtc |-> 0]
-----------------------------------------------------------------------------
(* Hotplug.                                                                *)

Plug(k) ==
  /\ Free /\ k \notin plugged
  /\ plugged' = plugged \cup {k}
  /\ UNCHANGED <<present, scanned, handler, gone, arrived, running, registry,
                 wakeups, frames, starts>>

Unplug(k) ==
  /\ Free /\ k \in plugged
  /\ plugged' = plugged \ {k}
  /\ UNCHANGED <<present, scanned, handler, gone, arrived, running, registry,
                 wakeups, frames, starts>>

\* scan_connectors: what changed since the last scan, with a free crtc for
\* each new connector, which may be one the same scan gives up.
Scan ==
  LET lost == {k \in Connector : scanned[k] # NoCrtc /\ k \notin plugged}
      kept == {k \in Connector : scanned[k] # NoCrtc /\ k \in plugged}
      new == {k \in plugged : scanned[k] = NoCrtc}
  IN  \E f \in [Connector -> Crtc \cup {NoCrtc}] :
        /\ \A k \in kept : f[k] = scanned[k]
        /\ \A k \in Connector \ plugged : f[k] = NoCrtc
        /\ \A j, k \in Connector : (j # k /\ f[j] # NoCrtc) => f[j] # f[k]
        /\ \A k \in new : f[k] = NoCrtc => \A c \in Crtc : \E j \in Connector : f[j] = c
        /\ scanned' = f
        /\ gone' = {<<k, scanned[k]>> : k \in lost}
        /\ arrived' = {<<k, f[k]>> : k \in {j \in new : f[j] # NoCrtc}}

\* device_added ends in device_changed.
DeviceAdded ==
  /\ Free /\ ~present
  /\ present' = TRUE
  /\ Scan
  /\ handler' = "changed"
  /\ UNCHANGED <<plugged, running, registry, wakeups, frames, starts>>

\* A scan that fails changes nothing.
DeviceChanged ==
  /\ Free /\ present
  /\ Scan
  /\ handler' = "changed"
  /\ UNCHANGED <<present, plugged, running, registry, wakeups, frames, starts>>

ConnectorConnected(k, c) ==
  /\ handler = "changed" /\ gone = {} /\ <<k, c>> \in arrived
  /\ arrived' = arrived \ {<<k, c>>}
  /\ UNCHANGED <<present, plugged, scanned, handler, gone, running>>

\* What is plugged in has the non-desktop property: offered for lease only.
ConnectNonDesktop(k, c) ==
  /\ ConnectorConnected(k, c)
  /\ leasable' = leasable \cup {k}
  /\ UNCHANGED <<outputs, advertised, surface, failed, wakeups, frames, starts>>

\* The output is mapped and advertised before its surface is tried.
MapOutput(k, c) ==
  /\ outputs' = Append(outputs,
       [id |-> FreshId, connector |-> k, crtc |-> c, x |-> Len(outputs)])
  /\ advertised' = Bump(advertised, k)

ConnectDesktop(k, c) ==
  /\ ConnectorConnected(k, c)
  /\ starts[c] < MaxStarts
  /\ MapOutput(k, c)
  /\ surface' = Set(surface, c, FreshId)
  /\ idles' = Bump(idles, c)
  /\ starts' = Bump(starts, c)
  /\ throttled' = Set(throttled, c, FALSE) /\ presented' = Set(presented, c, FALSE)
  /\ pending' = Set(pending, c, FALSE) /\ queued' = Set(queued, c, FALSE)
  /\ stalled' = Set(stalled, c, FALSE)
  /\ UNCHANGED <<leasable, failed, timers, throttles, flips>>

\* The driver or the planes cannot be queried, or initialize_output fails: an
\* early return that leaves the output mapped and advertised.
ConnectFails(k, c) ==
  /\ ConnectorConnected(k, c)
  /\ Cardinality(failed) < MaxFailures
  /\ MapOutput(k, c)
  /\ failed' = failed \cup {FreshId}
  /\ UNCHANGED <<leasable, surface, wakeups, frames, starts>>

\* A mutated UnmapOutput: the output stays in the space.
UnmapNothing(c) ==
  /\ UNCHANGED outputs
  /\ \E k \in Connector : advertised' = Drop(advertised, k)

\* The outputs without that of the surface of c.
WithoutOutput(c) ==
  LET at == CHOOSE i \in 1..Len(outputs) : outputs[i].id = surface[c]
  IN  SubSeq(outputs, 1, at - 1) \o SubSeq(outputs, at + 1, Len(outputs))

\* A mutated UnmapOutput: the D-Bus side is not told.
UnmapSilently(c) ==
  /\ outputs' = WithoutOutput(c)
  /\ UNCHANGED advertised

\* What disconnecting the surface of c does to the registries: ipc_outputs is
\* searched by the output's name.
UnmapOutput(c) ==
  LET name == CHOOSE k \in Connector : \E i \in 1..Len(outputs) :
                outputs[i].id = surface[c] /\ outputs[i].connector = k
  IN  /\ outputs' = WithoutOutput(c)
      /\ advertised' = Drop(advertised, name)

\* connector_disconnected.  Dropping a surface removes no timer.
ConnectorDisconnected(k, c) ==
  /\ ~Free /\ <<k, c>> \in gone
  /\ gone' = gone \ {<<k, c>>}
  /\ IF k \in leasable
       THEN /\ leasable' = leasable \ {k}
            /\ UNCHANGED <<outputs, advertised, surface, frames, throttled>>
       ELSE /\ IF surface[c] = 0
                 THEN UNCHANGED <<outputs, advertised, surface, frames, throttled>>
                 ELSE /\ UnmapOutput(c)
                      /\ surface' = Set(surface, c, 0)
                      /\ throttled' = Set(throttled, c, FALSE)
                      /\ presented' = Set(presented, c, FALSE)
                      /\ pending' = Set(pending, c, FALSE)
                      /\ queued' = Set(queued, c, FALSE)
                      /\ stalled' = Set(stalled, c, FALSE)
            /\ UNCHANGED leasable
  /\ UNCHANGED <<present, plugged, scanned, handler, arrived, running, failed,
                 timers, idles, throttles, flips, starts>>

\* A mutated fixup_positions.
FixupNothing == UNCHANGED outputs

\* fixup_positions: the outputs side by side, in order.
FixupPositions ==
  outputs' = [i \in 1..Len(outputs) |-> [outputs[i] EXCEPT !.x = i - 1]]

ScanEnds ==
  /\ handler = "changed" /\ gone = {} /\ arrived = {}
  /\ handler' = "none"
  /\ FixupPositions
  /\ UNCHANGED <<present, plugged, scanned, gone, arrived, running, advertised,
                 leasable, surface, failed, wakeups, frames, starts>>

DeviceRemoved ==
  /\ Free /\ present
  /\ handler' = "removed"
  /\ gone' = {<<k, scanned[k]>> : k \in {j \in Connector : scanned[j] # NoCrtc}}
  /\ UNCHANGED <<present, plugged, scanned, arrived, running, registry, wakeups,
                 frames, starts>>

\* The backend is dropped and its event source removed.
RemovalEnds ==
  /\ handler = "removed" /\ gone = {}
  /\ handler' = "none"
  /\ present' = FALSE
  /\ scanned' = [k \in Connector |-> NoCrtc]
  /\ leasable' = {}
  /\ flips' = [c \in Crtc |-> 0]
  /\ FixupPositions
  /\ UNCHANGED <<plugged, gone, arrived, running, advertised, surface, failed,
                 timers, idles, throttles, throttled, frames, starts>>
-----------------------------------------------------------------------------
(* The session.                                                            *)

PauseSession ==
  /\ Free /\ running
  /\ running' = FALSE
  /\ UNCHANGED <<hotplug, registry, wakeups, frames, starts>>

\* A mutated ActivateSession: the render loops are left to themselves.
ActivateOnly ==
  /\ Free /\ ~running
  /\ running' = TRUE
  /\ UNCHANGED <<hotplug, registry, wakeups, frames, starts>>

\* The idle callback renders every surface the device has when it runs; here
\* it counts once for each crtc.
ActivateSession ==
  /\ Free /\ ~running
  /\ \A c \in Crtc : starts[c] < MaxStarts
  /\ running' = TRUE
  /\ IF present
       THEN /\ idles' = [c \in Crtc |-> idles[c] + 1]
            /\ starts' = [c \in Crtc |-> starts[c] + 1]
       ELSE UNCHANGED <<idles, starts>>
  /\ UNCHANGED <<hotplug, registry, timers, throttles, throttled, flips, frames>>
-----------------------------------------------------------------------------
(* The render loop.                                                        *)

\* render_surface once the wake-up left the counters as given.
\* Nothing to render to.
RenderMisses(c, t, i) ==
  /\ ~present \/ surface[c] = 0
  /\ timers' = t /\ idles' = i
  /\ UNCHANGED <<throttles, throttled, flips, frames>>

Renders(c) == present /\ surface[c] # 0

\* A mutated RenderQueues: a frame that was rendered is rescheduled too.
RenderQueuesAndReschedules(c, t, i) ==
  /\ Renders(c) /\ running
  /\ timers' = Bump(t, c) /\ idles' = i
  /\ IF pending[c]
       THEN queued' = Set(queued, c, TRUE) /\ UNCHANGED <<pending, flips>>
       ELSE /\ pending' = Set(pending, c, TRUE)
            /\ flips' = Bump(flips, c)
            /\ UNCHANGED queued
  /\ UNCHANGED <<throttles, throttled, presented, stalled>>

\* Damage: queue_frame flips the frame, or queues it behind the one flipping.
RenderQueues(c, t, i) ==
  /\ Renders(c) /\ running
  /\ timers' = t /\ idles' = i
  /\ IF pending[c]
       THEN queued' = Set(queued, c, TRUE) /\ UNCHANGED <<pending, flips>>
       ELSE /\ pending' = Set(pending, c, TRUE)
            /\ flips' = Bump(flips, c)
            /\ UNCHANGED queued
  /\ UNCHANGED <<throttles, throttled, presented, stalled>>

\* No damage, an inactive device, a permission denied or a failed test: the
\* next frame is tried by a timer.
RenderReschedules(c, t, i) ==
  /\ Renders(c)
  /\ timers' = Bump(t, c) /\ idles' = i
  /\ UNCHANGED <<throttles, throttled, flips, frames>>

\* Any other temporary failure ends the chain.
RenderStalls(c, t, i) ==
  /\ Renders(c) /\ running
  /\ timers' = t /\ idles' = i
  /\ stalled' = Set(stalled, c, TRUE)
  /\ UNCHANGED <<throttles, throttled, flips, presented, pending, queued>>

RenderSurface(c, t, i) ==
  \/ RenderMisses(c, t, i)
  \/ RenderQueues(c, t, i)
  \/ RenderReschedules(c, t, i)
  \/ RenderStalls(c, t, i)

FrameTimer(c) ==
  /\ Free /\ timers[c] > 0
  /\ RenderSurface(c, Drop(timers, c), idles)
  /\ UNCHANGED <<hotplug, running, registry, starts>>

IdleRender(c) ==
  /\ Free /\ idles[c] > 0
  /\ RenderSurface(c, timers, Drop(idles, c))
  /\ UNCHANGED <<hotplug, running, registry, starts>>

\* frame_finish removes the surface's own throttle timer first, whoever called.
ThrottlesLeft(c, th) == IF throttled[c] THEN Drop(th, c) ELSE th

\* No backend, no surface.
FinishMisses(c, th, fl) ==
  /\ ~present \/ surface[c] = 0
  /\ throttles' = th /\ flips' = fl
  /\ UNCHANGED <<timers, idles, throttled, frames>>

\* A mutated FinishThrottles: the early vblank is dropped.
FinishForgets(c, th, fl) ==
  /\ Renders(c) /\ presented[c]
  /\ throttles' = ThrottlesLeft(c, th)
  /\ throttled' = Set(throttled, c, FALSE)
  /\ flips' = fl
  /\ UNCHANGED <<timers, idles, frames>>

\* The vblank came too early: arm a timer that finishes the frame later.
FinishThrottles(c, th, fl) ==
  /\ Renders(c) /\ presented[c]
  /\ throttles' = Bump(ThrottlesLeft(c, th), c)
  /\ throttled' = Set(throttled, c, TRUE)
  /\ flips' = fl
  /\ UNCHANGED <<timers, idles, frames>>

\* frame_submitted, which submits the queued frame.
FinishSubmits(c, th, fl) ==
  /\ Renders(c)
  /\ queued[c] => running
  /\ throttles' = ThrottlesLeft(c, th)
  /\ throttled' = Set(throttled, c, FALSE)
  /\ presented' = Set(presented, c, TRUE)
  /\ timers' = Bump(timers, c)
  /\ IF pending[c] /\ queued[c]
       THEN /\ queued' = Set(queued, c, FALSE)
            /\ flips' = Bump(fl, c)
            /\ UNCHANGED pending
       ELSE /\ pending' = Set(pending, c, FALSE)
            /\ flips' = fl
            /\ UNCHANGED queued
  /\ UNCHANGED <<idles, stalled>>

\* The queued frame cannot be submitted.  A permission denied re-arms the
\* timer; an inactive device leaves that to the session's resume; any other
\* failure ends the chain.
FinishFails(c, th, fl) ==
  /\ Renders(c) /\ pending[c] /\ queued[c]
  /\ throttles' = ThrottlesLeft(c, th)
  /\ throttled' = Set(throttled, c, FALSE)
  /\ presented' = Set(presented, c, TRUE)
  /\ pending' = Set(pending, c, FALSE) /\ queued' = Set(queued, c, FALSE)
  /\ flips' = fl
  /\ \/ timers' = Bump(timers, c) /\ UNCHANGED stalled
     \/ ~running /\ UNCHANGED <<timers, stalled>>
     \/ running /\ stalled' = Set(stalled, c, TRUE) /\ UNCHANGED timers
  /\ UNCHANGED idles

FrameFinish(c, th, fl) ==
  \/ FinishMisses(c, th, fl)
  \/ FinishThrottles(c, th, fl)
  \/ FinishSubmits(c, th, fl)
  \/ FinishFails(c, th, fl)

VBlank(c) ==
  /\ Free /\ flips[c] > 0
  /\ FrameFinish(c, throttles, Drop(flips, c))
  /\ UNCHANGED <<hotplug, running, registry, starts>>

\* A throttle timer fires; it need not be the one the surface knows.  A timer
\* that removes itself is gone once, not twice.
ThrottleTimer(c) ==
  /\ Free /\ throttles[c] > 0
  /\ \/ throttled[c] /\ FrameFinish(c, throttles, flips)
     \/ /\ throttles[c] > (IF throttled[c] THEN 1 ELSE 0)
        /\ FrameFinish(c, Drop(throttles, c), flips)
  /\ UNCHANGED <<hotplug, running, registry, starts>>
-----------------------------------------------------------------------------
ConnectorStep ==
  \E k \in Connector, c \in Crtc :
    \/ ConnectNonDesktop(k, c)
    \/ ConnectDesktop(k, c)
    \/ ConnectFails(k, c)
    \/ ConnectorDisconnected(k, c)

LoopStep ==
  \E c \in Crtc :
    \/ FrameTimer(c)
    \/ IdleRender(c)
    \/ VBlank(c)
    \/ ThrottleTimer(c)

Next ==
  \/ \E k \in Connector : Plug(k) \/ Unplug(k)
  \/ DeviceAdded
  \/ DeviceChanged
  \/ DeviceRemoved
  \/ ConnectorStep
  \/ ScanEnds
  \/ RemovalEnds
  \/ PauseSession
  \/ ActivateSession
  \/ LoopStep

Spec == Init /\ [][Next]_vars
-----------------------------------------------------------------------------
(* Properties.                                                             *)

OutputRecord == [id : OutputId, connector : Connector, crtc : Crtc, x : Nat]

TypeOK ==
  /\ present \in BOOLEAN /\ running \in BOOLEAN
  /\ plugged \subseteq Connector
  /\ scanned \in [Connector -> Crtc \cup {NoCrtc}]
  /\ handler \in {"none", "changed", "removed"}
  /\ gone \subseteq Connector \X Crtc /\ arrived \subseteq Connector \X Crtc
  /\ outputs \in Seq(OutputRecord)
  /\ advertised \in [Connector -> Nat]
  /\ leasable \subseteq Connector
  /\ surface \in [Crtc -> OutputId \cup {0}] /\ failed \subseteq OutputId
  /\ timers \in [Crtc -> Nat] /\ idles \in [Crtc -> Nat]
  /\ throttles \in [Crtc -> Nat] /\ flips \in [Crtc -> Nat]
  /\ throttled \in [Crtc -> BOOLEAN] /\ presented \in [Crtc -> BOOLEAN]
  /\ pending \in [Crtc -> BOOLEAN] /\ queued \in [Crtc -> BOOLEAN]
  /\ stalled \in [Crtc -> BOOLEAN] /\ starts \in [Crtc -> Nat]

\* The space and the surfaces agree through hotplug, device removal and failed
\* initializations: every surface's output is mapped, and the only outputs
\* without a surface are those whose initialization failed.
OutputsAccounted ==
  /\ Surfaces \subseteq Ids
  /\ Ids \ Surfaces = failed

\* D-Bus clients are offered exactly the monitors the space has: as many of a
\* name as there are outputs of that name, although two outputs may share one
\* after a failed initialization and entries are removed by name.
AdvertisedMatchesSpace ==
  \A k \in Connector :
    advertised[k] =
    Cardinality({i \in 1..Len(outputs) : outputs[i].connector = k})

\* A surface renders the output it was made for.  The lookup is by crtc, and a
\* crtc passes from one connector to the next: it finds the right output as
\* long as no initialization has failed.
SurfaceFindsOwnOutput ==
  failed = {} => \A c \in Crtc : surface[c] # 0 => FindOutput(c) = surface[c]

\* The three registries of outputs (the space, the surfaces of the device, what
\* D-Bus clients read) agree in every state between the steps of a scan.
RegistriesAgree ==
  OutputsAccounted /\ AdvertisedMatchesSpace /\ SurfaceFindsOwnOutput

\* Between handlers the outputs tile: none overlaps another and no gap is left,
\* whatever was unplugged and whatever a new output was appended to.
OutputsTile ==
  Free => \A i \in 1..Len(outputs) : outputs[i].x = i - 1

\* The screen of a surface never freezes: while the session is active some
\* wake-up is on its way, unless the loop ended with an error it reports.
SurfaceHasLoop ==
  \A c \in Crtc :
    (present /\ running /\ surface[c] # 0 /\ ~stalled[c]) => Wakeups(c) > 0

\* A flipping frame is not forgotten: its vblank or a throttle timer finishes it.
PendingFrameFinishes ==
  \A c \in Crtc : pending[c] => flips[c] + throttles[c] > 0

\* No chain of wake-ups breaks, neither between frames nor inside one.
LoopsLive == SurfaceHasLoop /\ PendingFrameFinishes

\* Wake-ups do not multiply: each render and each vblank passes on at most the
\* one it used up, so there are never more chains than were started.
LoopsBounded ==
  \A c \in Crtc :
    Wakeups(c) + (IF queued[c] THEN 1 ELSE 0) <= starts[c]
=============================================================================
