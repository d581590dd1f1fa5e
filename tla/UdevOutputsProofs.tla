-------------------------- MODULE UdevOutputsProofs --------------------------
(***************************************************************************)
(* What one DRM device guarantees for any connectors, CRTCs and bounds:    *)
(* its three registries of outputs agree, its outputs tile, and its render *)
(* loops neither break nor multiply.                                       *)
(***************************************************************************)
EXTENDS UdevOutputs, FiniteSetTheorems, SequenceTheorems, TLAPS

-----------------------------------------------------------------------------
(* Who has which crtc.                                                     *)

\* Connector k is the one crtc c is in use for: it still has to be
\* disconnected from it, or it has been connected to it already.
Owner(k, c) ==
  \/ <<k, c>> \in gone
  \/ handler # "removed" /\ scanned[k] = c /\ <<k, c>> \notin arrived

HotplugTypes ==
  /\ present \in BOOLEAN /\ handler \in {"none", "changed", "removed"}
  /\ plugged \subseteq Connector /\ leasable \subseteq Connector
  /\ scanned \in [Connector -> Crtc \cup {NoCrtc}]
  /\ gone \subseteq Connector \X Crtc /\ arrived \subseteq Connector \X Crtc
  /\ DOMAIN surface = Crtc

\* A handler in progress, and what is left when none is.
Handling ==
  /\ handler = "none" => gone = {} /\ arrived = {}
  /\ handler = "removed" => arrived = {} /\ present
  /\ ~present => handler = "none" /\ \A k \in Connector : scanned[k] = NoCrtc

\* What the scanner found: no crtc twice, and what a connector has to be
\* connected to or disconnected from.
Scanning ==
  /\ \A j, k \in Connector : scanned[j] = scanned[k] /\ scanned[j] # NoCrtc => j = k
  /\ \A k \in Connector, c \in Crtc : <<k, c>> \in arrived => scanned[k] = c
  /\ \A k \in Connector, c \in Crtc : <<k, c>> \in gone =>
       scanned[k] = IF handler = "removed" THEN c ELSE NoCrtc
  /\ \A j, k \in Connector, c, d \in Crtc :
       <<j, c>> \in gone /\ <<k, d>> \in gone => (j = k <=> c = d)

\* A crtc has at most one owner, which is leasable only if there is no surface;
\* and what is not owned has none.
Owned ==
  /\ \A j, k \in Connector, c \in Crtc : Owner(j, c) /\ Owner(k, c) => j = k
  /\ \A k \in leasable : \E c \in Crtc : Owner(k, c)
  /\ \A c \in Crtc : surface[c] # 0 => \E k \in Connector : Owner(k, c)
  /\ \A k \in leasable, c \in Crtc : Owner(k, c) => surface[c] = 0

HotplugInv == HotplugTypes /\ Handling /\ Scanning /\ Owned

\* The actions, by what they do to the ownership.
LEMMA HotplugSteps ==
  ASSUME [Next]_vars
  PROVE  \/ UNCHANGED <<present, scanned, handler, gone, arrived, leasable, surface>>
            /\ (UNCHANGED plugged \/ \E k \in Connector : Plug(k) \/ Unplug(k))
         \/ /\ Free /\ Scan /\ handler' = "changed" /\ present' = TRUE
            /\ UNCHANGED <<plugged, leasable, surface>>
         \/ \E k \in Connector, c \in Crtc :
              ConnectNonDesktop(k, c) \/ ConnectDesktop(k, c) \/ ConnectFails(k, c)
         \/ \E k \in Connector, c \in Crtc : ConnectorDisconnected(k, c)
         \/ ScanEnds \/ DeviceRemoved \/ RemovalEnds
<1> USE DEF hotplug, registry
<1>1. CASE \E k \in Connector : Plug(k) \/ Unplug(k)
  BY <1>1 DEF Plug, Unplug
<1>2. CASE DeviceAdded \/ DeviceChanged
  BY <1>2 DEF DeviceAdded, DeviceChanged
<1>3. CASE PauseSession \/ ActivateSession
  BY <1>3 DEF PauseSession, ActivateSession
<1>4. CASE LoopStep
  BY <1>4 DEF LoopStep, FrameTimer, IdleRender, VBlank, ThrottleTimer
<1>5. CASE UNCHANGED vars
  BY <1>5 DEF vars
<1>6. CASE ConnectorStep
  BY <1>6 DEF ConnectorStep
<1>7. QED
  BY <1>1, <1>2, <1>3, <1>4, <1>5, <1>6 DEF Next

LEMMA InitHotplug == Init => HotplugInv
  BY OutputsAssumption, ZenonT(30)
    DEF Init, HotplugInv, HotplugTypes, Handling, Scanning, Owned, Owner

\* A scan gives crtcs to new connectors and lists the lost ones, and leaves
\* every crtc with its owner.
LEMMA ScanKeeps ==
  ASSUME HotplugInv, Free, Scan, handler' = "changed", present' = TRUE,
         UNCHANGED <<plugged, leasable, surface>>
  PROVE  HotplugInv'
<1>1. gone = {} /\ arrived = {} /\ handler = "none"
  BY DEF HotplugInv, Handling, Free
<1>2. /\ scanned' \in [Connector -> Crtc \cup {NoCrtc}]
      /\ \A k \in Connector : scanned[k] # NoCrtc /\ k \in plugged => scanned'[k] = scanned[k]
      /\ \A k \in Connector : k \notin plugged => scanned'[k] = NoCrtc
      /\ \A j, k \in Connector : (j # k /\ scanned'[j] # NoCrtc) => scanned'[j] # scanned'[k]
      /\ gone' = {<<k, scanned[k]>> : k \in {j \in Connector : scanned[j] # NoCrtc /\ j \notin plugged}}
      /\ arrived' = {<<k, scanned'[k]>> :
           k \in {j \in plugged : scanned[j] = NoCrtc /\ scanned'[j] # NoCrtc}}
  BY DEF Scan
<1>3. scanned \in [Connector -> Crtc \cup {NoCrtc}] /\ plugged \subseteq Connector
  BY DEF HotplugInv, HotplugTypes
<1>4. \A k \in Connector, c \in Crtc :
        <<k, c>> \in gone' <=> scanned[k] = c /\ k \notin plugged
  BY <1>2, OutputsAssumption
<1>5. \A k \in Connector, c \in Crtc :
        <<k, c>> \in arrived' <=> k \in plugged /\ scanned[k] = NoCrtc /\ scanned'[k] = c
  BY <1>2, OutputsAssumption
<1>6. gone' \subseteq Connector \X Crtc
  BY <1>2, <1>3
<1>7. arrived' \subseteq Connector \X Crtc
  BY <1>2, <1>3
<1>8. \A k \in Connector, c \in Crtc : Owner(k, c)' <=> Owner(k, c)
  <2>1. SUFFICES ASSUME NEW k \in Connector, NEW c \in Crtc
                 PROVE  Owner(k, c)' <=> Owner(k, c)
    OBVIOUS
  <2>2. Owner(k, c) <=> scanned[k] = c
    BY <1>1 DEF Owner
  <2>3. Owner(k, c)' <=> (scanned[k] = c /\ k \notin plugged)
                         \/ (scanned'[k] = c /\ ~(k \in plugged /\ scanned[k] = NoCrtc))
    BY <1>4, <1>5 DEF Owner
  <2>4. QED BY <1>2, <2>2, <2>3, OutputsAssumption
<1>9. Owned'
  BY <1>3, <1>8 DEF HotplugInv, HotplugTypes, Owned
<1>10. Scanning'
  BY <1>1, <1>2, <1>4, <1>5, OutputsAssumption DEF HotplugInv, Scanning
<1>11. QED
  BY <1>2, <1>6, <1>7, <1>9, <1>10 DEF HotplugInv, HotplugTypes, Handling

\* The crtc of a connector that is about to be connected has no surface.
LEMMA CrtcIsFree ==
  ASSUME HotplugInv, NEW k \in Connector, NEW c \in Crtc, ConnectorConnected(k, c)
  PROVE  /\ surface[c] = 0 /\ scanned[k] = c /\ \A d \in Crtc : ~Owner(k, d)
         /\ \A j \in Connector : ~Owner(j, c)
<1>1. handler = "changed" /\ gone = {} /\ <<k, c>> \in arrived
  BY DEF ConnectorConnected
<1>2. scanned[k] = c /\ c # NoCrtc
  BY <1>1, OutputsAssumption DEF HotplugInv, Scanning
<1>3. \A j \in Connector : ~Owner(j, c)
  BY <1>1, <1>2 DEF HotplugInv, Scanning, Owner
<1>4. \A d \in Crtc : ~Owner(k, d)
  BY <1>1, <1>2 DEF Owner
<1>5. QED BY <1>2, <1>3, <1>4 DEF HotplugInv, Owned

\* Connecting gives the crtc its owner.
LEMMA ConnectedKeeps ==
  ASSUME HotplugInv, NEW k \in Connector, NEW c \in Crtc, ConnectorConnected(k, c),
         \/ leasable' = leasable \cup {k} /\ UNCHANGED surface
         \/ UNCHANGED leasable /\ surface' = [surface EXCEPT ![c] = FreshId]
         \/ UNCHANGED <<leasable, surface>>
  PROVE  HotplugInv'
<1>1. /\ handler = "changed" /\ gone = {} /\ <<k, c>> \in arrived
      /\ arrived' = arrived \ {<<k, c>>}
      /\ UNCHANGED <<present, plugged, scanned, handler, gone>>
  BY DEF ConnectorConnected
<1>2. surface[c] = 0 /\ scanned[k] = c /\ (\A d \in Crtc : ~Owner(k, d))
      /\ \A j \in Connector : ~Owner(j, c)
  BY CrtcIsFree
<1>3. \A j \in Connector, d \in Crtc : Owner(j, d)' <=> Owner(j, d) \/ (j = k /\ d = c)
  BY <1>1, <1>2 DEF Owner
<1>4. HotplugTypes'
  BY <1>1 DEF HotplugInv, HotplugTypes
<1>5. Handling' /\ Scanning'
  BY <1>1 DEF HotplugInv, Handling, Scanning
<1>6. \A d \in Crtc : d # c => surface'[d] = surface[d]
  BY DEF HotplugInv, HotplugTypes
<1>7. Owned'
  <2>1. \A i, j \in Connector, d \in Crtc : Owner(i, d)' /\ Owner(j, d)' => i = j
    BY <1>2, <1>3 DEF HotplugInv, Owned
  <2>2. \A j \in leasable' : \E d \in Crtc : Owner(j, d)'
    BY <1>3 DEF HotplugInv, Owned, HotplugTypes
  <2>3. \A d \in Crtc : surface'[d] # 0 => \E j \in Connector : Owner(j, d)'
    BY <1>3, <1>6 DEF HotplugInv, Owned
  <2>4. k \notin leasable
    BY <1>2 DEF HotplugInv, Owned
  <2>5. \A j \in leasable', d \in Crtc : Owner(j, d)' => surface'[d] = 0
    <3>1. SUFFICES ASSUME NEW j \in leasable', NEW d \in Crtc, Owner(j, d)'
                   PROVE  surface'[d] = 0
      OBVIOUS
    <3>2. j \in Connector
      BY <1>4 DEF HotplugTypes
    <3>3. CASE j = k
      <4>1. d = c
        BY <1>2, <1>3, <3>1, <3>2, <3>3
      <4>2. QED BY <1>2, <2>4, <3>3, <4>1
    <3>4. CASE j # k
      <4>1. j \in leasable /\ Owner(j, d) /\ d # c
        BY <1>2, <1>3, <3>1, <3>2, <3>4
      <4>2. QED BY <1>6, <4>1 DEF HotplugInv, Owned
    <3>5. QED BY <3>3, <3>4
  <2>6. QED BY <2>1, <2>2, <2>3, <2>5 DEF Owned
<1>8. QED BY <1>4, <1>5, <1>7 DEF HotplugInv

\* Disconnecting takes the crtc from its owner, and the surface with it.
LEMMA DisconnectedKeeps ==
  ASSUME HotplugInv, NEW k \in Connector, NEW c \in Crtc, ConnectorDisconnected(k, c)
  PROVE  HotplugInv'
<1>1. /\ handler # "none" /\ <<k, c>> \in gone /\ gone' = gone \ {<<k, c>>}
      /\ UNCHANGED <<present, plugged, scanned, handler, arrived>>
      /\ \/ k \in leasable /\ leasable' = leasable \ {k} /\ UNCHANGED surface
         \/ k \notin leasable /\ surface[c] = 0 /\ UNCHANGED <<leasable, surface>>
         \/ k \notin leasable /\ UNCHANGED leasable /\ surface' = [surface EXCEPT ![c] = 0]
  BY DEF ConnectorDisconnected, Free, Set
<1>2. Owner(k, c) /\ scanned[k] = IF handler = "removed" THEN c ELSE NoCrtc
  BY <1>1 DEF Owner, HotplugInv, Scanning
<1>3. \A j \in Connector, d \in Crtc : Owner(j, d)' => Owner(j, d)
  BY <1>1 DEF Owner
<1>4. \A j \in Connector, d \in Crtc : Owner(j, d) /\ j # k => Owner(j, d)'
  BY <1>1 DEF Owner
<1>5. \A d \in Crtc : Owner(k, d) => d = c
  BY <1>1, <1>2, OutputsAssumption DEF Owner, HotplugInv, Scanning
<1>6. ~Owner(k, c)'
  BY <1>1, <1>2, OutputsAssumption DEF Owner
<1>7. surface'[c] = 0 /\ \A d \in Crtc : d # c => surface'[d] = surface[d]
  BY <1>1, <1>2 DEF HotplugInv, HotplugTypes, Owned
<1>8. HotplugTypes' /\ Handling' /\ Scanning'
  BY <1>1 DEF HotplugInv, HotplugTypes, Handling, Scanning
<1>9. Owned'
  <2>1. \A i, j \in Connector, d \in Crtc : Owner(i, d)' /\ Owner(j, d)' => i = j
    BY <1>3 DEF HotplugInv, Owned
  <2>2. k \notin leasable' /\ leasable' \subseteq leasable /\ leasable \subseteq Connector
    BY <1>1 DEF HotplugInv, HotplugTypes
  <2>3. \A j \in leasable' : \E d \in Crtc : Owner(j, d)'
    BY <1>4, <2>2 DEF HotplugInv, Owned
  <2>4. \A d \in Crtc : surface'[d] # 0 => \E j \in Connector : Owner(j, d)'
    BY <1>2, <1>4, <1>5, <1>7 DEF HotplugInv, Owned
  <2>5. \A j \in leasable', d \in Crtc : Owner(j, d)' => surface'[d] = 0
    BY <1>3, <1>7, <2>2 DEF HotplugInv, Owned
  <2>6. QED BY <2>1, <2>3, <2>4, <2>5 DEF Owned
<1>10. QED BY <1>8, <1>9 DEF HotplugInv

LEMMA NextHotplug == HotplugInv /\ [Next]_vars => HotplugInv'
<1> SUFFICES ASSUME HotplugInv, [Next]_vars PROVE HotplugInv'
  OBVIOUS
<1>1. CASE UNCHANGED <<present, scanned, handler, gone, arrived, leasable, surface>>
            /\ (UNCHANGED plugged \/ \E k \in Connector : Plug(k) \/ Unplug(k))
  <2>1. plugged' \subseteq Connector
    BY <1>1 DEF HotplugInv, HotplugTypes, Plug, Unplug
  <2>2. \A k \in Connector, c \in Crtc : Owner(k, c)' <=> Owner(k, c)
    BY <1>1 DEF Owner
  <2>3. Owned'
    BY <1>1, <2>2 DEF HotplugInv, HotplugTypes, Owned
  <2>4. Scanning'
    BY <1>1 DEF HotplugInv, Scanning
  <2>5. QED BY <1>1, <2>1, <2>3, <2>4 DEF HotplugInv, HotplugTypes, Handling
<1>2. CASE /\ Free /\ Scan /\ handler' = "changed" /\ present' = TRUE
           /\ UNCHANGED <<plugged, leasable, surface>>
  BY <1>2, ScanKeeps
<1>3. ASSUME NEW k \in Connector, NEW c \in Crtc,
             ConnectNonDesktop(k, c) \/ ConnectDesktop(k, c) \/ ConnectFails(k, c)
      PROVE  HotplugInv'
  <2>1. /\ ConnectorConnected(k, c)
        /\ \/ leasable' = leasable \cup {k} /\ UNCHANGED surface
           \/ UNCHANGED leasable /\ surface' = [surface EXCEPT ![c] = FreshId]
           \/ UNCHANGED <<leasable, surface>>
    BY <1>3 DEF ConnectNonDesktop, ConnectDesktop, ConnectFails, Set
  <2>2. QED BY <2>1, ConnectedKeeps
<1>4. ASSUME NEW k \in Connector, NEW c \in Crtc, ConnectorDisconnected(k, c)
      PROVE  HotplugInv'
  BY <1>4, DisconnectedKeeps
<1>5. CASE ScanEnds
  BY <1>5 DEF ScanEnds, HotplugInv, HotplugTypes, Handling, Scanning, Owned, Owner
<1>6. CASE DeviceRemoved
  <2>1. gone = {} /\ arrived = {} /\ handler = "none" /\ present
        /\ handler' = "removed"
        /\ gone' = {<<k, scanned[k]>> : k \in {j \in Connector : scanned[j] # NoCrtc}}
        /\ UNCHANGED <<present, plugged, scanned, arrived, leasable, surface>>
    BY <1>6 DEF DeviceRemoved, HotplugInv, Handling, Free, registry
  <2>2. scanned \in [Connector -> Crtc \cup {NoCrtc}]
    BY DEF HotplugInv, HotplugTypes
  <2>3. \A k \in Connector, c \in Crtc : <<k, c>> \in gone' <=> scanned[k] = c
    BY <2>1, OutputsAssumption
  <2>4. gone' \subseteq Connector \X Crtc
    BY <2>1, <2>2
  <2>5. \A k \in Connector, c \in Crtc : Owner(k, c)' <=> Owner(k, c)
    BY <2>1, <2>3 DEF Owner
  <2>6. Owned'
    BY <2>1, <2>5 DEF HotplugInv, HotplugTypes, Owned
  <2>7. Scanning'
    BY <2>1, <2>3, OutputsAssumption DEF HotplugInv, Scanning
  <2>8. QED BY <2>1, <2>4, <2>6, <2>7 DEF HotplugInv, HotplugTypes, Handling
<1>7. CASE RemovalEnds
  <2>1. \A k \in Connector, c \in Crtc : ~Owner(k, c)
    BY <1>7 DEF RemovalEnds, Owner
  <2>2. \A c \in Crtc : surface[c] = 0
    BY <2>1 DEF HotplugInv, Owned
  <2>3. QED
    BY <1>7, <2>2, OutputsAssumption
      DEF RemovalEnds, HotplugInv, HotplugTypes, Handling, Scanning, Owned, Owner
<1>8. QED BY <1>1, <1>2, <1>3, <1>4, <1>5, <1>6, <1>7, HotplugSteps


-----------------------------------------------------------------------------
(* Wake-ups.                                                               *)

LoopTypes ==
  /\ running \in BOOLEAN
  /\ timers \in [Crtc -> Nat] /\ idles \in [Crtc -> Nat]
  /\ throttles \in [Crtc -> Nat] /\ flips \in [Crtc -> Nat]
  /\ throttled \in [Crtc -> BOOLEAN] /\ presented \in [Crtc -> BOOLEAN]
  /\ pending \in [Crtc -> BOOLEAN] /\ queued \in [Crtc -> BOOLEAN]
  /\ stalled \in [Crtc -> BOOLEAN] /\ starts \in [Crtc -> Nat]

\* The timer a surface knows is armed, and only a surface has a frame.
LoopState(c) ==
  /\ throttled[c] => throttles[c] > 0
  /\ pending[c] => surface[c] # 0

\* LoopsLive and LoopsBounded for one crtc.
LoopLive(c) ==
  /\ (present /\ running /\ surface[c] # 0 /\ ~stalled[c]) => Wakeups(c) > 0
  /\ pending[c] => flips[c] + throttles[c] > 0

LoopBounded(c) == Wakeups(c) + (IF queued[c] THEN 1 ELSE 0) <= starts[c]

LoopOf(c) == LoopState(c) /\ LoopLive(c) /\ LoopBounded(c)

LoopInv == LoopTypes /\ \A c \in Crtc : LoopOf(c)

LEMMA InitLoops == Init => LoopInv
  BY DEF Init, LoopInv, LoopTypes, LoopOf, LoopState, LoopLive, LoopBounded, Wakeups

\* Only a device that is there has surfaces.
LEMMA SurfaceNeedsDevice ==
  ASSUME HotplugInv, NEW c \in Crtc, surface[c] # 0
  PROVE  present
<1>1. PICK k \in Connector : Owner(k, c)
  BY DEF HotplugInv, Owned
<1>2. QED BY <1>1, OutputsAssumption DEF HotplugInv, Handling, Owner

\* A wake-up that renders is passed on at most once, and is passed on unless
\* the loop ends with an error.
LEMMA RenderKeeps ==
  ASSUME HotplugInv, LoopInv, NEW c \in Crtc, NEW t \in [Crtc -> Nat], NEW i \in [Crtc -> Nat],
         \A d \in Crtc : d # c => t[d] = timers[d] /\ i[d] = idles[d],
         t[c] + i[c] + 1 = timers[c] + idles[c],
         RenderSurface(c, t, i), UNCHANGED <<present, running, surface, starts>>
  PROVE  LoopInv'
<1> USE DEF Set, Bump, frames
<1>1. LoopTypes /\ \A d \in Crtc : LoopOf(d)
  BY DEF LoopInv
<1>2. CASE RenderMisses(c, t, i)
  <2>1. LoopTypes'
    BY <1>1, <1>2 DEF LoopTypes, RenderMisses
  <2>2. ASSUME NEW d \in Crtc PROVE LoopOf(d)'
    <3>1. d = c => ~(present /\ surface[c] # 0)
      BY <1>2 DEF RenderMisses
    <3>2. QED
      BY <1>1, <1>2, <3>1
        DEF LoopTypes, RenderMisses, LoopOf, LoopState, LoopLive, LoopBounded, Wakeups
  <2>3. QED BY <2>1, <2>2 DEF LoopInv
<1>3. CASE RenderQueues(c, t, i)
  <2>0. pending' \in [Crtc -> BOOLEAN] /\ queued' \in [Crtc -> BOOLEAN]
        /\ flips' \in [Crtc -> Nat]
    <3>1. CASE pending[c]
      BY <1>1, <1>3, <3>1 DEF LoopTypes, RenderQueues
    <3>2. CASE ~pending[c]
      <4>1. pending' = Set(pending, c, TRUE) /\ flips' = Bump(flips, c) /\ queued' = queued
        BY <1>3, <3>2 DEF RenderQueues
      <4>2. pending' \in [Crtc -> BOOLEAN]
        BY <1>1, <4>1 DEF LoopTypes
      <4>3. flips' \in [Crtc -> Nat]
        BY <1>1, <4>1 DEF LoopTypes
      <4>4. QED BY <1>1, <4>1, <4>2, <4>3 DEF LoopTypes
    <3>3. QED BY <3>1, <3>2
  <2>1. LoopTypes'
    BY <1>1, <1>3, <2>0 DEF LoopTypes, RenderQueues
  <2>2. ASSUME NEW d \in Crtc PROVE LoopOf(d)'
    BY <1>1, <1>3
      DEF LoopTypes, RenderQueues, Renders, LoopOf, LoopState, LoopLive, LoopBounded, Wakeups
  <2>3. QED BY <2>1, <2>2 DEF LoopInv
<1>4. CASE RenderReschedules(c, t, i)
  <2>1. LoopTypes'
    BY <1>1, <1>4 DEF LoopTypes, RenderReschedules
  <2>2. ASSUME NEW d \in Crtc PROVE LoopOf(d)'
    BY <1>1, <1>4
      DEF LoopTypes, RenderReschedules, LoopOf, LoopState, LoopLive, LoopBounded, Wakeups
  <2>3. QED BY <2>1, <2>2 DEF LoopInv
<1>5. CASE RenderStalls(c, t, i)
  <2>1. LoopTypes'
    BY <1>1, <1>5 DEF LoopTypes, RenderStalls
  <2>2. ASSUME NEW d \in Crtc PROVE LoopOf(d)'
    BY <1>1, <1>5
      DEF LoopTypes, RenderStalls, LoopOf, LoopState, LoopLive, LoopBounded, Wakeups
  <2>3. QED BY <2>1, <2>2 DEF LoopInv
<1>6. QED BY <1>2, <1>3, <1>4, <1>5 DEF RenderSurface

\* So is one that finishes a frame: a vblank, or a throttle timer that either
\* is the surface's, which frame_finish removes, or another, which is used up.
LEMMA FinishKeeps ==
  ASSUME HotplugInv, LoopInv, NEW c \in Crtc, NEW th \in [Crtc -> Nat], NEW fl \in [Crtc -> Nat],
         \A d \in Crtc : d # c => th[d] = throttles[d] /\ fl[d] = flips[d],
         \/ th[c] = throttles[c] /\ fl[c] + 1 = flips[c]
         \/ fl[c] = flips[c] /\ throttled[c] /\ th[c] = throttles[c]
         \/ fl[c] = flips[c] /\ th[c] + 1 = throttles[c] /\ (throttled[c] => th[c] > 0),
         FrameFinish(c, th, fl), UNCHANGED <<present, running, surface, starts>>
  PROVE  LoopInv'
<1> USE DEF Set, Bump, Drop, frames
<1> DEFINE left == ThrottlesLeft(c, th)
<1>1. LoopTypes /\ \A d \in Crtc : LoopOf(d)
  BY DEF LoopInv
<1>2. throttled[c] => th[c] > 0
  BY <1>1 DEF LoopOf, LoopState
<1>3. /\ left \in [Crtc -> Nat]
      /\ \A d \in Crtc : d # c => left[d] = throttles[d]
      /\ left[c] = IF throttled[c] THEN th[c] - 1 ELSE th[c]
      /\ left[c] + fl[c] <= throttles[c] + flips[c] - 1
  BY <1>1, <1>2 DEF ThrottlesLeft, LoopTypes
<1>4. CASE FinishMisses(c, th, fl)
  <2>1. LoopTypes'
    BY <1>1, <1>4 DEF LoopTypes, FinishMisses
  <2>2. surface[c] = 0 /\ ~pending[c]
    BY <1>1, <1>4, SurfaceNeedsDevice DEF FinishMisses, LoopOf, LoopState
  <2>3. ASSUME NEW d \in Crtc PROVE LoopOf(d)'
    BY <1>1, <1>2, <1>4, <2>2
      DEF LoopTypes, FinishMisses, LoopOf, LoopState, LoopLive, LoopBounded, Wakeups
  <2>4. QED BY <2>1, <2>3 DEF LoopInv
<1>5. CASE FinishThrottles(c, th, fl)
  <2> HIDE DEF left
  <2>1. throttles' = Bump(left, c) /\ throttled' = Set(throttled, c, TRUE) /\ flips' = fl
        /\ UNCHANGED <<timers, idles, frames>>
    BY <1>5 DEF FinishThrottles, left
  <2>2. LoopTypes'
    BY <1>1, <1>3, <2>1 DEF LoopTypes
  <2>3. ASSUME NEW d \in Crtc PROVE LoopOf(d)'
    BY <1>1, <1>3, <2>1
      DEF LoopTypes, LoopOf, LoopState, LoopLive, LoopBounded, Wakeups
  <2>4. QED BY <2>2, <2>3 DEF LoopInv
<1>6. CASE FinishSubmits(c, th, fl)
  <2> HIDE DEF left
  <2>1. /\ Renders(c)
        /\ throttles' = left /\ throttled' = Set(throttled, c, FALSE)
        /\ presented' = Set(presented, c, TRUE) /\ timers' = Bump(timers, c)
        /\ \/ /\ pending[c] /\ queued[c] /\ queued' = Set(queued, c, FALSE)
              /\ flips' = Bump(fl, c) /\ UNCHANGED pending
           \/ /\ pending' = Set(pending, c, FALSE) /\ flips' = fl /\ UNCHANGED queued
        /\ UNCHANGED <<idles, stalled>>
    BY <1>6 DEF FinishSubmits, left
  <2>0. throttled' \in [Crtc -> BOOLEAN] /\ presented' \in [Crtc -> BOOLEAN]
        /\ pending' \in [Crtc -> BOOLEAN] /\ queued' \in [Crtc -> BOOLEAN]
    BY <1>1, <2>1 DEF LoopTypes
  <2>5. throttles' \in [Crtc -> Nat] /\ timers' \in [Crtc -> Nat] /\ flips' \in [Crtc -> Nat]
    BY <1>1, <1>3, <2>1 DEF LoopTypes
  <2>2. LoopTypes'
    BY <1>1, <2>0, <2>1, <2>5 DEF LoopTypes
  <2>3. ASSUME NEW d \in Crtc PROVE LoopOf(d)'
    BY <1>1, <1>3, <2>1
      DEF Renders, LoopTypes, LoopOf, LoopState, LoopLive, LoopBounded, Wakeups
  <2>4. QED BY <2>2, <2>3 DEF LoopInv
<1>7. CASE FinishFails(c, th, fl)
  <2> HIDE DEF left
  <2>1. /\ throttles' = left /\ throttled' = Set(throttled, c, FALSE)
        /\ presented' = Set(presented, c, TRUE)
        /\ pending' = Set(pending, c, FALSE) /\ queued' = Set(queued, c, FALSE)
        /\ flips' = fl /\ queued[c]
        /\ \/ timers' = Bump(timers, c) /\ UNCHANGED stalled
           \/ ~running /\ UNCHANGED <<timers, stalled>>
           \/ stalled' = Set(stalled, c, TRUE) /\ UNCHANGED timers
        /\ UNCHANGED idles
    BY <1>7 DEF FinishFails, left
  <2>0. throttled' \in [Crtc -> BOOLEAN] /\ presented' \in [Crtc -> BOOLEAN]
        /\ pending' \in [Crtc -> BOOLEAN] /\ queued' \in [Crtc -> BOOLEAN]
        /\ stalled' \in [Crtc -> BOOLEAN]
    BY <1>1, <2>1 DEF LoopTypes
  <2>5. throttles' \in [Crtc -> Nat] /\ timers' \in [Crtc -> Nat] /\ flips' \in [Crtc -> Nat]
    BY <1>1, <1>3, <2>1 DEF LoopTypes
  <2>2. LoopTypes'
    BY <1>1, <2>0, <2>1, <2>5 DEF LoopTypes
  <2>3. ASSUME NEW d \in Crtc PROVE LoopOf(d)'
    BY <1>1, <1>3, <2>1
      DEF LoopTypes, LoopOf, LoopState, LoopLive, LoopBounded, Wakeups
  <2>4. QED BY <2>2, <2>3 DEF LoopInv
<1>8. QED BY <1>4, <1>5, <1>6, <1>7 DEF FrameFinish

LEMMA NextLoops == HotplugInv /\ LoopInv /\ [Next]_vars => LoopInv'
<1> SUFFICES ASSUME HotplugInv, LoopInv, [Next]_vars PROVE LoopInv'
  OBVIOUS
<1>0. LoopTypes /\ \A c \in Crtc : LoopOf(c)
  BY DEF LoopInv
<1> USE DEF hotplug, registry, wakeups, frames, Set, Bump, Drop
<1>1. ASSUME UNCHANGED <<wakeups, frames, starts, surface>>,
             running' => running, running' \in BOOLEAN,
             present' /\ ~present => \A c \in Crtc : surface[c] = 0
      PROVE  LoopInv'
  <2>1. LoopTypes'
    BY <1>0, <1>1 DEF LoopTypes
  <2>2. ASSUME NEW c \in Crtc PROVE LoopOf(c)'
    BY <1>0, <1>1 DEF LoopOf, LoopState, LoopLive, LoopBounded, Wakeups
  <2>3. QED BY <2>1, <2>2 DEF LoopInv
<1>2. CASE \E k \in Connector : Plug(k) \/ Unplug(k)
  BY <1>0, <1>1, <1>2 DEF Plug, Unplug, LoopTypes
<1>3. CASE DeviceAdded \/ DeviceChanged \/ DeviceRemoved \/ ScanEnds \/ PauseSession
           \/ UNCHANGED vars
  <2>1. ~present => \A c \in Crtc : surface[c] = 0
    BY SurfaceNeedsDevice
  <2>2. UNCHANGED <<wakeups, frames, starts, surface>> /\ (UNCHANGED running \/ ~running')
        /\ running' \in BOOLEAN
    <3>1. CASE DeviceAdded \/ DeviceChanged \/ DeviceRemoved
      BY <1>0, <3>1 DEF DeviceAdded, DeviceChanged, DeviceRemoved, LoopTypes
    <3>2. CASE ScanEnds \/ PauseSession \/ UNCHANGED vars
      BY <1>0, <3>2 DEF ScanEnds, PauseSession, vars, LoopTypes
    <3>3. QED BY <1>3, <3>1, <3>2
  <2>3. QED BY <1>1, <2>1, <2>2
<1>4. ASSUME NEW k \in Connector, NEW c \in Crtc, ConnectNonDesktop(k, c) \/ ConnectFails(k, c)
      PROVE  LoopInv'
  BY <1>0, <1>1, <1>4 DEF ConnectNonDesktop, ConnectFails, ConnectorConnected, LoopTypes
<1>5. ASSUME NEW k \in Connector, NEW c \in Crtc, ConnectDesktop(k, c) PROVE LoopInv'
  <2>1. /\ surface' = Set(surface, c, FreshId)
        /\ idles' = Bump(idles, c) /\ starts' = Bump(starts, c)
        /\ throttled' = Set(throttled, c, FALSE) /\ presented' = Set(presented, c, FALSE)
        /\ pending' = Set(pending, c, FALSE) /\ queued' = Set(queued, c, FALSE)
        /\ stalled' = Set(stalled, c, FALSE)
        /\ UNCHANGED <<present, running, timers, throttles, flips>>
    BY <1>5 DEF ConnectDesktop, ConnectorConnected
  <2>2. LoopTypes'
    BY <1>0, <2>1 DEF LoopTypes
  <2>3. \A d \in Crtc : d # c => surface'[d] = surface[d]
    BY <2>1 DEF HotplugInv, HotplugTypes
  <2>4. ASSUME NEW d \in Crtc PROVE LoopOf(d)'
    BY <1>0, <2>1, <2>3 DEF LoopTypes, LoopOf, LoopState, LoopLive, LoopBounded, Wakeups
  <2>5. QED BY <2>2, <2>4 DEF LoopInv
<1>6. ASSUME NEW k \in Connector, NEW c \in Crtc, ConnectorDisconnected(k, c) PROVE LoopInv'
  <2>1. CASE UNCHANGED <<surface, frames, throttled>>
    BY <1>0, <1>1, <1>6, <2>1 DEF ConnectorDisconnected, LoopTypes
  <2>2. CASE /\ surface' = Set(surface, c, 0) /\ throttled' = Set(throttled, c, FALSE)
             /\ presented' = Set(presented, c, FALSE)
             /\ pending' = Set(pending, c, FALSE) /\ queued' = Set(queued, c, FALSE)
             /\ stalled' = Set(stalled, c, FALSE)
    <3>1. UNCHANGED <<present, running, timers, idles, throttles, flips, starts>>
      BY <1>6 DEF ConnectorDisconnected
    <3>2. LoopTypes'
      BY <1>0, <2>2, <3>1 DEF LoopTypes
    <3>3. surface'[c] = 0 /\ \A d \in Crtc : d # c => surface'[d] = surface[d]
      BY <2>2 DEF HotplugInv, HotplugTypes
    <3>4. ASSUME NEW d \in Crtc PROVE LoopOf(d)'
      BY <1>0, <2>2, <3>1, <3>3
        DEF LoopTypes, LoopOf, LoopState, LoopLive, LoopBounded, Wakeups
    <3>5. QED BY <3>2, <3>4 DEF LoopInv
  <2>3. QED BY <1>6, <2>1, <2>2 DEF ConnectorDisconnected
<1>7. CASE RemovalEnds
  <2>1. \A c \in Crtc : surface[c] = 0
    BY <1>7 DEF RemovalEnds, HotplugInv, Owned, Owner
  <2>2. /\ flips' = [c \in Crtc |-> 0] /\ surface' = surface
        /\ UNCHANGED <<running, timers, idles, throttles, throttled, frames, starts>>
    BY <1>7 DEF RemovalEnds
  <2>3. LoopTypes'
    BY <1>0, <2>2 DEF LoopTypes
  <2>4. ASSUME NEW c \in Crtc PROVE LoopOf(c)'
    BY <1>0, <2>1, <2>2 DEF LoopTypes, LoopOf, LoopState, LoopLive, LoopBounded, Wakeups
  <2>5. QED BY <2>3, <2>4 DEF LoopInv
<1>8. CASE ActivateSession
  <2>1. /\ running' = TRUE
        /\ \/ /\ idles' = [c \in Crtc |-> idles[c] + 1]
              /\ starts' = [c \in Crtc |-> starts[c] + 1]
           \/ ~present /\ UNCHANGED <<idles, starts>>
        /\ UNCHANGED <<present, surface, timers, throttles, throttled, flips, frames>>
    BY <1>8 DEF ActivateSession
  <2>2. LoopTypes'
    BY <1>0, <2>1 DEF LoopTypes
  <2>3. ASSUME NEW c \in Crtc PROVE LoopOf(c)'
    BY <1>0, <2>1 DEF LoopTypes, LoopOf, LoopState, LoopLive, LoopBounded, Wakeups
  <2>4. QED BY <2>2, <2>3 DEF LoopInv
<1>9. ASSUME NEW c \in Crtc, FrameTimer(c) PROVE LoopInv'
  <2>1. timers[c] > 0 /\ RenderSurface(c, Drop(timers, c), idles)
        /\ UNCHANGED <<present, running, surface, starts>>
    BY <1>9 DEF FrameTimer
  <2>2. Drop(timers, c) \in [Crtc -> Nat] /\ idles \in [Crtc -> Nat] /\ timers \in [Crtc -> Nat]
    BY <1>0, <2>1 DEF LoopTypes
  <2>3. Drop(timers, c)[c] + 1 = timers[c] /\ \A d \in Crtc : d # c => Drop(timers, c)[d] = timers[d]
    BY <1>0, <2>1 DEF LoopTypes
  <2>4. idles[c] \in Nat /\ Drop(timers, c)[c] \in Nat
    BY <2>2
  <2> HIDE DEF Drop
  <2>5. QED BY <2>1, <2>2, <2>3, <2>4, RenderKeeps
<1>10. ASSUME NEW c \in Crtc, IdleRender(c) PROVE LoopInv'
  <2>1. idles[c] > 0 /\ RenderSurface(c, timers, Drop(idles, c))
        /\ UNCHANGED <<present, running, surface, starts>>
    BY <1>10 DEF IdleRender
  <2>2. Drop(idles, c) \in [Crtc -> Nat] /\ idles \in [Crtc -> Nat] /\ timers \in [Crtc -> Nat]
    BY <1>0, <2>1 DEF LoopTypes
  <2>3. Drop(idles, c)[c] + 1 = idles[c] /\ \A d \in Crtc : d # c => Drop(idles, c)[d] = idles[d]
    BY <1>0, <2>1 DEF LoopTypes
  <2>4. timers[c] \in Nat /\ Drop(idles, c)[c] \in Nat
    BY <2>2
  <2> HIDE DEF Drop
  <2>5. QED BY <2>1, <2>2, <2>3, <2>4, RenderKeeps
<1>11. ASSUME NEW c \in Crtc, VBlank(c) PROVE LoopInv'
  <2>1. flips[c] > 0 /\ FrameFinish(c, throttles, Drop(flips, c))
        /\ UNCHANGED <<present, running, surface, starts>>
    BY <1>11 DEF VBlank
  <2>2. Drop(flips, c) \in [Crtc -> Nat] /\ flips \in [Crtc -> Nat] /\ throttles \in [Crtc -> Nat]
    BY <1>0, <2>1 DEF LoopTypes
  <2>3. Drop(flips, c)[c] + 1 = flips[c] /\ \A d \in Crtc : d # c => Drop(flips, c)[d] = flips[d]
    BY <1>0, <2>1 DEF LoopTypes
  <2>4. throttles[c] \in Nat /\ Drop(flips, c)[c] \in Nat
    BY <2>2
  <2> HIDE DEF Drop
  <2>5. QED BY <2>1, <2>2, <2>3, <2>4, FinishKeeps
<1>12. ASSUME NEW c \in Crtc, ThrottleTimer(c) PROVE LoopInv'
  <2>1. UNCHANGED <<present, running, surface, starts>> /\ throttles[c] > 0
    BY <1>12 DEF ThrottleTimer
  <2>2. throttles \in [Crtc -> Nat] /\ flips \in [Crtc -> Nat] /\ throttled \in [Crtc -> BOOLEAN]
    BY <1>0 DEF LoopTypes
  <2>3. CASE throttled[c] /\ FrameFinish(c, throttles, flips)
    BY <2>1, <2>2, <2>3, FinishKeeps
  <2>4. CASE /\ throttles[c] > (IF throttled[c] THEN 1 ELSE 0)
             /\ FrameFinish(c, Drop(throttles, c), flips)
    <3>1. Drop(throttles, c) \in [Crtc -> Nat]
      BY <2>1, <2>2
    <3>2. Drop(throttles, c)[c] + 1 = throttles[c] /\ (throttled[c] => Drop(throttles, c)[c] > 0)
          /\ \A d \in Crtc : d # c => Drop(throttles, c)[d] = throttles[d]
      BY <2>2, <2>4
    <3> HIDE DEF Drop
    <3>3. QED BY <2>1, <2>2, <2>4, <3>1, <3>2, FinishKeeps
  <2>5. QED BY <1>12, <2>3, <2>4 DEF ThrottleTimer
<1>13. QED
  BY <1>2, <1>3, <1>4, <1>5, <1>6, <1>7, <1>8, <1>9, <1>10, <1>11, <1>12
    DEF Next, ConnectorStep, LoopStep

-----------------------------------------------------------------------------
(* The registries.                                                         *)

RegistryTypes ==
  /\ outputs \in Seq(OutputRecord)
  /\ advertised \in [Connector -> Nat]
  /\ surface \in [Crtc -> OutputId \cup {0}] /\ failed \subseteq OutputId

\* Ids identify an output, and a surface has its own, that of its owner.
Identified ==
  /\ \A i, j \in 1..Len(outputs) : outputs[i].id = outputs[j].id => i = j
  /\ \A c, d \in Crtc : surface[c] = surface[d] /\ surface[c] # 0 => c = d
  /\ \A c \in Crtc : surface[c] # 0 =>
       \E i \in 1..Len(outputs) : outputs[i].id = surface[c] /\ outputs[i].crtc = c

Accounted ==
  /\ Ids = Surfaces \cup failed
  /\ Surfaces \cap failed = {}
  /\ Cardinality(failed) <= MaxFailures

RegistryInv ==
  RegistryTypes /\ Identified /\ Accounted /\ AdvertisedMatchesSpace /\ OutputsTile


LEMMA InitRegistry == Init => RegistryInv
<1> SUFFICES ASSUME Init PROVE RegistryInv
  OBVIOUS
<1>1. outputs = <<>> /\ outputs \in Seq(OutputRecord) /\ Len(outputs) = 0
  BY EmptySeq DEF Init
<1>2. \A k \in Connector : {i \in 1..Len(outputs) : outputs[i].connector = k} = {}
  BY <1>1
<1>3. AdvertisedMatchesSpace
  BY <1>2, FS_EmptySet DEF Init, AdvertisedMatchesSpace
<1>4. Ids = {} /\ Surfaces = {} /\ failed = {} /\ Cardinality(failed) = 0
  BY <1>1, FS_EmptySet DEF Init, Ids, Surfaces
<1>5. Accounted
  BY <1>4, OutputsAssumption DEF Accounted
<1>6. RegistryTypes
  BY <1>1 DEF Init, RegistryTypes
<1>7. Identified /\ OutputsTile
  BY <1>1 DEF Init, Identified, OutputsTile
<1>8. QED BY <1>3, <1>5, <1>6, <1>7 DEF RegistryInv

\* A connector owns one crtc at a time.
LEMMA OwnsOne ==
  ASSUME HotplugInv, NEW k \in Connector, NEW c \in Crtc, NEW d \in Crtc, Owner(k, c), Owner(k, d)
  PROVE  c = d
  BY OutputsAssumption DEF HotplugInv, Scanning, Owner

\* While a connector is being connected the others have at most a surface each,
\* so that an id is left for its output.
LEMMA FreshIdIsFresh ==
  ASSUME HotplugInv, RegistryInv, NEW k \in Connector, NEW c \in Crtc, ConnectorConnected(k, c)
  PROVE  FreshId \in OutputId \ Ids
<1> DEFINE others == Connector \ {k}
           owner == [s \in Surfaces |->
             CHOOSE j \in others : \E d \in Crtc : surface[d] = s /\ Owner(j, d)]
<1>1. IsFiniteSet(others) /\ Cardinality(others) = Cardinality(Connector) - 1
      /\ Cardinality(Connector) \in Nat
  BY OutputsAssumption, FS_RemoveElement, FS_CardinalityType
<1>2. \A s \in Surfaces : \E j \in others : \E d \in Crtc : surface[d] = s /\ Owner(j, d)
  BY CrtcIsFree DEF Surfaces, HotplugInv, Owned
<1>3. \A s \in Surfaces : owner[s] \in others
        /\ \E d \in Crtc : surface[d] = s /\ Owner(owner[s], d)
  <2> HIDE DEF others
  <2>1. QED BY <1>2
<1>4. owner \in Injection(Surfaces, others)
  <2>1. owner \in [Surfaces -> others]
    BY <1>3
  <2>2. \A s, t \in Surfaces : owner[s] = owner[t] => s = t
    <3> HIDE DEF owner
    <3>1. \A s \in Surfaces : owner[s] \in Connector
      BY <1>3
    <3>2. QED BY <1>3, <3>1, OwnsOne
  <2> HIDE DEF owner, others
  <2>3. QED BY <2>1, <2>2 DEF Injection, IsInjective
<1>5. IsFiniteSet(Surfaces) /\ Cardinality(Surfaces) <= Cardinality(Connector) - 1
      /\ Cardinality(Surfaces) \in Nat
  <2> HIDE DEF owner, others
  <2>1. IsFiniteSet(Surfaces) /\ Cardinality(Surfaces) <= Cardinality(others)
    BY <1>1, <1>4, FS_Injection
  <2>2. QED BY <1>1, <2>1, FS_CardinalityType
<1>6. IsFiniteSet(OutputId) /\ Cardinality(OutputId) = Cardinality(Connector) + MaxFailures
  <2>1. Cardinality(Connector) + MaxFailures \in Nat
    BY <1>1, OutputsAssumption
  <2>2. 1 \in Int /\ Cardinality(Connector) + MaxFailures \in Int
    BY <2>1
  <2>3. QED BY <2>1, <2>2, FS_Interval DEF OutputId
<1>7. IsFiniteSet(failed) /\ Cardinality(failed) \in Nat /\ Cardinality(failed) <= MaxFailures
  BY <1>6, FS_Subset, FS_CardinalityType DEF RegistryInv, RegistryTypes, Accounted
<1>8. IsFiniteSet(Ids) /\ Cardinality(Ids) = Cardinality(Surfaces) + Cardinality(failed)
  <2>1. Ids = Surfaces \cup failed /\ Surfaces \cap failed = {}
    BY DEF RegistryInv, Accounted
  <2>2. Cardinality(Surfaces \cap failed) = 0
    BY <2>1, FS_EmptySet
  <2>3. IsFiniteSet(Surfaces \cup failed)
        /\ Cardinality(Surfaces \cup failed) =
             Cardinality(Surfaces) + Cardinality(failed) - Cardinality(Surfaces \cap failed)
    BY <1>5, <1>7, FS_Union
  <2>4. QED BY <1>5, <1>7, <2>1, <2>2, <2>3
<1>9. OutputId \in SUBSET Ids => FALSE
  <2>1. SUFFICES ASSUME OutputId \in SUBSET Ids PROVE FALSE
    OBVIOUS
  <2>2. Cardinality(OutputId) <= Cardinality(Ids)
    BY <1>8, <2>1, FS_Subset
  <2>3. QED BY <1>1, <1>5, <1>6, <1>7, <1>8, <2>2, OutputsAssumption
<1>10. PICK id \in OutputId : id \notin Ids
  BY <1>9
<1>11. QED
  BY <1>10 DEF FreshId

\* Connecting a desktop connector appends its output, under an id of its own
\* that goes to the surface or, if that fails, to the failed outputs.
LEMMA MapKeeps ==
  ASSUME HotplugInv, RegistryInv, NEW k \in Connector, NEW c \in Crtc,
         ConnectorConnected(k, c), MapOutput(k, c),
         \/ surface' = [surface EXCEPT ![c] = FreshId] /\ UNCHANGED failed
         \/ UNCHANGED surface /\ failed' = failed \cup {FreshId}
            /\ Cardinality(failed) < MaxFailures
  PROVE  RegistryInv'
<1> DEFINE entry == [id |-> FreshId, connector |-> k, crtc |-> c, x |-> Len(outputs)]
<1>1. FreshId \in OutputId /\ FreshId \notin Ids /\ FreshId # 0
  <2>1. FreshId \in OutputId \ Ids
    BY FreshIdIsFresh
  <2>2. 0 \notin OutputId
    BY FS_CardinalityType, OutputsAssumption DEF OutputId
  <2>3. QED BY <2>1, <2>2
<1>2. surface[c] = 0
  BY CrtcIsFree
<1>3. outputs \in Seq(OutputRecord) /\ Len(outputs) \in Nat
  BY LenProperties DEF RegistryInv, RegistryTypes
<1>4. entry \in OutputRecord
  BY <1>1, <1>3 DEF OutputRecord
<1>5. /\ outputs' \in Seq(OutputRecord) /\ Len(outputs') = Len(outputs) + 1
      /\ \A i \in 1..Len(outputs) : outputs'[i] = outputs[i]
      /\ outputs'[Len(outputs) + 1] = entry
  <2> HIDE DEF entry
  <2>1. outputs' = Append(outputs, entry)
    BY DEF MapOutput, entry
  <2>2. QED BY <1>3, <1>4, <2>1, AppendProperties
<1>6. \A i \in 1..Len(outputs') : i \in 1..Len(outputs) \/ i = Len(outputs) + 1
  BY <1>3, <1>5
<1>7. Len(outputs) + 1 \in 1..Len(outputs') /\ 1..Len(outputs) \subseteq 1..Len(outputs')
  BY <1>3, <1>5
<1>8. Ids' = Ids \cup {FreshId}
  BY <1>5, <1>6, <1>7 DEF Ids
<1>9. surface \in [Crtc -> OutputId \cup {0}]
  BY DEF RegistryInv, RegistryTypes
<1>10. Surfaces \subseteq Ids /\ failed \subseteq Ids
  BY DEF RegistryInv, Accounted
<1>11. Accounted'
  <2>1. CASE surface' = [surface EXCEPT ![c] = FreshId] /\ UNCHANGED failed
    <3>1. Surfaces' = Surfaces \cup {FreshId}
      BY <1>1, <1>2, <1>9, <2>1 DEF Surfaces
    <3>2. QED BY <1>1, <1>8, <1>10, <2>1, <3>1 DEF RegistryInv, Accounted
  <2>2. CASE UNCHANGED surface /\ failed' = failed \cup {FreshId}
             /\ Cardinality(failed) < MaxFailures
    <3>1. Surfaces' = Surfaces
      BY <2>2 DEF Surfaces
    <3>2. IsFiniteSet(failed) /\ Cardinality(failed) \in Nat
      <4>1. IsFiniteSet(OutputId)
        <5>1. Cardinality(Connector) + MaxFailures \in Int
          BY FS_CardinalityType, OutputsAssumption
        <5>2. QED BY <5>1, FS_Interval DEF OutputId
      <4>2. QED BY <4>1, FS_Subset, FS_CardinalityType DEF RegistryInv, RegistryTypes
    <3>3. Cardinality(failed') = Cardinality(failed) + 1
      <4>1. FreshId \notin failed
        BY <1>1, <1>10
      <4>2. Cardinality(failed \cup {FreshId}) = Cardinality(failed) + 1
        BY <3>2, <4>1, FS_AddElement
      <4>3. QED BY <2>2, <4>2
    <3>4. Cardinality(failed') <= MaxFailures
      <4>1. IsFiniteSet(failed') /\ Cardinality(failed') \in Nat
        BY <2>2, <3>2, FS_AddElement, FS_CardinalityType
      <4>2. QED BY <2>2, <3>2, <3>3, <4>1, OutputsAssumption
    <3>5. QED BY <1>1, <1>8, <1>10, <2>2, <3>1, <3>4 DEF RegistryInv, Accounted
  <2>3. QED BY <2>1, <2>2
<1>12. RegistryTypes'
  <2>1. advertised' \in [Connector -> Nat]
    BY DEF RegistryInv, RegistryTypes, MapOutput, Bump
  <2>2. QED BY <1>1, <1>5, <2>1 DEF RegistryInv, RegistryTypes, OutputId, OutputRecord
<1>13. Identified'
  <2>1. \A i \in 1..Len(outputs) : outputs[i].id # FreshId
    BY <1>1 DEF Ids
  <2>2. \A i, j \in 1..Len(outputs') : outputs'[i].id = outputs'[j].id => i = j
    BY <1>5, <1>6, <2>1 DEF RegistryInv, Identified
  <2>3. \A d \in Crtc : surface[d] # FreshId
    BY <1>1, <1>10 DEF Surfaces
  <2>4. \A d, e \in Crtc : surface'[d] = surface'[e] /\ surface'[d] # 0 => d = e
    BY <1>9, <2>3 DEF RegistryInv, Identified
  <2>5. \A d \in Crtc : surface'[d] # 0 =>
          \E i \in 1..Len(outputs') : outputs'[i].id = surface'[d] /\ outputs'[i].crtc = d
    <3>1. SUFFICES ASSUME NEW d \in Crtc, surface'[d] # 0
                   PROVE  \E i \in 1..Len(outputs') :
                            outputs'[i].id = surface'[d] /\ outputs'[i].crtc = d
      OBVIOUS
    <3>2. CASE surface'[d] = surface[d]
      BY <1>5, <1>7, <3>1, <3>2 DEF RegistryInv, Identified
    <3>3. CASE surface'[d] # surface[d]
      <4>1. d = c /\ surface'[d] = FreshId
        BY <1>9, <3>3
      <4>2. QED BY <1>5, <1>7, <4>1
    <3>4. QED BY <3>2, <3>3
  <2>6. QED BY <2>2, <2>4, <2>5 DEF Identified
<1>14. AdvertisedMatchesSpace'
  <2>1. SUFFICES ASSUME NEW j \in Connector
                 PROVE  advertised'[j] =
                        Cardinality({i \in 1..Len(outputs') : outputs'[i].connector = j})
    BY DEF AdvertisedMatchesSpace
  <2> DEFINE before == {i \in 1..Len(outputs) : outputs[i].connector = j}
             after == {i \in 1..Len(outputs') : outputs'[i].connector = j}
  <2>2. after = IF j = k THEN before \cup {Len(outputs) + 1} ELSE before
    BY <1>5, <1>6, <1>7
  <2>3. IsFiniteSet(before) /\ Len(outputs) + 1 \notin before
    <3>1. IsFiniteSet(1..Len(outputs))
      BY <1>3, FS_Interval
    <3>2. QED BY <1>3, <3>1, FS_Subset
  <2>4. advertised[j] = Cardinality(before)
    BY DEF RegistryInv, AdvertisedMatchesSpace
  <2>5. advertised'[j] = IF j = k THEN advertised[j] + 1 ELSE advertised[j]
    BY DEF MapOutput, Bump, RegistryInv, RegistryTypes
  <2> HIDE DEF before, after
  <2>6. Cardinality(after) = IF j = k THEN Cardinality(before) + 1 ELSE Cardinality(before)
    BY <2>2, <2>3, FS_AddElement
  <2>7. advertised'[j] = Cardinality(after)
    BY <2>4, <2>5, <2>6
  <2>8. QED BY <2>7 DEF after
<1>15. OutputsTile'
  BY DEF OutputsTile, Free, ConnectorConnected
<1>16. QED BY <1>11, <1>12, <1>13, <1>14, <1>15 DEF RegistryInv

\* A sequence without its element at p.
LEMMA WithoutElement ==
  ASSUME NEW S, NEW q \in Seq(S), NEW p \in 1..Len(q), NEW r,
         r = SubSeq(q, 1, p - 1) \o SubSeq(q, p + 1, Len(q))
  PROVE  /\ r \in Seq(S) /\ Len(r) = Len(q) - 1
         /\ \A i \in 1..(Len(q) - 1) : r[i] = IF i < p THEN q[i] ELSE q[i + 1]
<1> DEFINE a == SubSeq(q, 1, p - 1)
           b == SubSeq(q, p + 1, Len(q))
<1>1. Len(q) \in Nat /\ \A i \in 1..Len(q) : q[i] \in S
  BY LenProperties, ElementOfSeq
<1>2. a \in Seq(S) /\ Len(a) = p - 1 /\ \A i \in 1..(p - 1) : a[i] = q[i]
  <2>1. 1 \in Int /\ p - 1 \in Int /\ \A i \in 1..(p - 1) : q[i] \in S
    BY <1>1
  <2>2. /\ a \in Seq(S)
        /\ Len(a) = IF 1 <= p - 1 THEN (p - 1) - 1 + 1 ELSE 0
        /\ \A i \in 1..((p - 1) - 1 + 1) : a[i] = q[1 + i - 1]
    BY <2>1, SubSeqProperties
  <2>3. QED BY <1>1, <2>2
<1>3. b \in Seq(S) /\ Len(b) = Len(q) - p /\ \A i \in 1..(Len(q) - p) : b[i] = q[p + i]
  <2>1. p + 1 \in Int /\ Len(q) \in Int /\ \A i \in (p + 1)..Len(q) : q[i] \in S
    BY <1>1
  <2>2. /\ b \in Seq(S)
        /\ Len(b) = IF p + 1 <= Len(q) THEN Len(q) - (p + 1) + 1 ELSE 0
        /\ \A i \in 1..(Len(q) - (p + 1) + 1) : b[i] = q[(p + 1) + i - 1]
    BY <2>1, SubSeqProperties
  <2>3. QED BY <1>1, <2>2
<1> DEFINE la == Len(a)
           lb == Len(b)
<1>4. /\ a \o b \in Seq(S) /\ Len(a \o b) = la + lb
      /\ \A i \in 1..(la + lb) : (a \o b)[i] = IF i <= la THEN a[i] ELSE b[i - la]
  <2> HIDE DEF a, b
  <2>1. a \in Seq(S) /\ b \in Seq(S)
    BY <1>2, <1>3
  <2>2. QED BY <2>1, ConcatProperties
<1>5. r = a \o b /\ la = p - 1 /\ lb = Len(q) - p /\ la + lb = Len(q) - 1
  <2>1. r = a \o b
    OBVIOUS
  <2>2. la = p - 1
    BY <1>2
  <2>3. lb = Len(q) - p
    BY <1>3
  <2> HIDE DEF a, b, la, lb
  <2>4. la + lb = Len(q) - 1
    BY <1>1, <2>2, <2>3
  <2>5. QED BY <2>1, <2>2, <2>3, <2>4
<1> HIDE DEF a, b, la, lb
<1>6. ASSUME NEW i \in 1..(Len(q) - 1) PROVE r[i] = IF i < p THEN q[i] ELSE q[i + 1]
  <2>0. r[i] = IF i <= la THEN a[i] ELSE b[i - la]
    BY <1>4, <1>5
  <2>1. CASE i < p
    <3>1. i \in 1..(p - 1) /\ i <= la
      BY <1>1, <1>5, <2>1
    <3>2. r[i] = a[i] /\ a[i] = q[i]
      BY <1>2, <2>0, <3>1
    <3>3. QED BY <2>1, <3>2
  <2>2. CASE ~(i < p)
    <3>1. i - (p - 1) \in 1..(Len(q) - p) /\ p + (i - (p - 1)) = i + 1 /\ ~(i <= p - 1)
      BY <1>1, <2>2
    <3>2. r[i] = b[i - (p - 1)]
      BY <1>5, <2>0, <3>1
    <3>3. QED BY <1>3, <2>2, <3>1, <3>2
  <2>3. QED BY <2>1, <2>2
<1>7. QED BY <1>4, <1>5, <1>6

\* The output of a surface that is disconnected leaves the space and the list
\* D-Bus clients read, and no other does.
LEMMA UnmapKeeps ==
  ASSUME HotplugInv, RegistryInv, NEW c \in Crtc, surface[c] # 0,
         UnmapOutput(c), surface' = [surface EXCEPT ![c] = 0], UNCHANGED failed,
         handler' # "none"
  PROVE  RegistryInv'
<1> DEFINE p == CHOOSE i \in 1..Len(outputs) : outputs[i].id = surface[c]
           name == CHOOSE k \in Connector : \E i \in 1..Len(outputs) :
                     outputs[i].id = surface[c] /\ outputs[i].connector = k
           n == Len(outputs)
           from(i) == IF i < p THEN i ELSE i + 1
<1>1. outputs \in Seq(OutputRecord) /\ n \in Nat /\ \A i \in 1..n : outputs[i] \in OutputRecord
  BY LenProperties, ElementOfSeq DEF RegistryInv, RegistryTypes
<1>2. p \in 1..n /\ outputs[p].id = surface[c]
  BY DEF RegistryInv, Identified
<1>3. name = outputs[p].connector /\ name \in Connector
  <2>1. outputs[p].connector \in Connector
    BY <1>1, <1>2 DEF OutputRecord
  <2>2. \A i \in 1..n : outputs[i].id = surface[c] => i = p
    BY <1>2 DEF RegistryInv, Identified
  <2> HIDE DEF p
  <2>3. \A k \in Connector : (\E i \in 1..n : outputs[i].id = surface[c]
                                /\ outputs[i].connector = k) <=> k = outputs[p].connector
    BY <1>2, <2>2
  <2>4. QED BY <2>1, <2>3
<1>4. /\ outputs' = SubSeq(outputs, 1, p - 1) \o SubSeq(outputs, p + 1, Len(outputs))
      /\ advertised' = [advertised EXCEPT ![name] = @ - 1]
  BY DEF UnmapOutput, WithoutOutput, Drop
<1> HIDE DEF p, name
<1>5. /\ outputs' \in Seq(OutputRecord) /\ Len(outputs') = n - 1
      /\ \A i \in 1..(n - 1) : outputs'[i] = outputs[from(i)]
  <2>1. /\ outputs' \in Seq(OutputRecord) /\ Len(outputs') = n - 1
        /\ \A i \in 1..(n - 1) : outputs'[i] = IF i < p THEN outputs[i] ELSE outputs[i + 1]
    BY <1>1, <1>2, <1>4, WithoutElement
  <2>2. QED BY <2>1
<1>6. /\ \A i \in 1..(n - 1) : from(i) \in 1..n /\ from(i) # p
      /\ \A i, j \in 1..(n - 1) : from(i) = from(j) => i = j
      /\ \A j \in 1..n : j # p => \E i \in 1..(n - 1) : from(i) = j
  <2>1. \A i \in 1..(n - 1) : from(i) \in 1..n /\ from(i) # p
    BY <1>1, <1>2
  <2>2. \A i, j \in 1..(n - 1) : from(i) = from(j) => i = j
    BY <1>1, <1>2
  <2>3. ASSUME NEW j \in 1..n, j # p PROVE \E i \in 1..(n - 1) : from(i) = j
    <3>1. CASE j < p
      BY <1>1, <1>2, <3>1
    <3>2. CASE j > p
      <4>1. j - 1 \in 1..(n - 1) /\ from(j - 1) = j
        BY <1>1, <1>2, <3>2
      <4>2. QED BY <4>1
    <3>3. QED BY <1>1, <1>2, <2>3, <3>1, <3>2
  <2>4. QED BY <2>1, <2>2, <2>3
<1> HIDE DEF from
<1>7. \A i \in 1..n : outputs[i].id = surface[c] => i = p
  BY <1>2 DEF RegistryInv, Identified
<1>8. Ids' = Ids \ {surface[c]}
  <2>1. \A i \in 1..Len(outputs') : outputs'[i].id \in Ids /\ outputs'[i].id # surface[c]
    BY <1>5, <1>6, <1>7 DEF Ids
  <2>2. ASSUME NEW id \in Ids, id # surface[c] PROVE \E i \in 1..Len(outputs') : outputs'[i].id = id
    <3>1. PICK j \in 1..n : outputs[j].id = id
      BY DEF Ids
    <3>2. PICK i \in 1..(n - 1) : from(i) = j
      BY <1>2, <1>6, <2>2, <3>1
    <3>3. QED BY <1>5, <3>1, <3>2
  <2>3. \A id : id \in Ids' <=> \E i \in 1..Len(outputs') : outputs'[i].id = id
    BY DEF Ids
  <2>4. QED BY <2>1, <2>2, <2>3
<1>9. surface \in [Crtc -> OutputId \cup {0}]
  BY DEF RegistryInv, RegistryTypes
<1>10. Surfaces' = Surfaces \ {surface[c]}
  BY <1>9 DEF Surfaces, RegistryInv, Identified
<1>11. surface[c] \notin failed
  BY DEF RegistryInv, Accounted, Surfaces
<1>12. Accounted'
  BY <1>8, <1>10, <1>11 DEF RegistryInv, Accounted
<1>13. Identified'
  <2>1. \A i, j \in 1..Len(outputs') : outputs'[i].id = outputs'[j].id => i = j
    BY <1>5, <1>6 DEF RegistryInv, Identified
  <2>2. \A d, e \in Crtc : surface'[d] = surface'[e] /\ surface'[d] # 0 => d = e
    BY <1>9 DEF RegistryInv, Identified
  <2>3. ASSUME NEW d \in Crtc, surface'[d] # 0
        PROVE  \E i \in 1..Len(outputs') : outputs'[i].id = surface'[d] /\ outputs'[i].crtc = d
    <3>1. d # c /\ surface'[d] = surface[d]
      BY <1>9, <2>3
    <3>2. PICK j \in 1..n : outputs[j].id = surface[d] /\ outputs[j].crtc = d
      BY <2>3, <3>1 DEF RegistryInv, Identified
    <3>3. j # p
      BY <1>2, <2>3, <3>1, <3>2 DEF RegistryInv, Identified
    <3>4. PICK i \in 1..(n - 1) : from(i) = j
      BY <1>6, <3>3
    <3>5. QED BY <1>5, <3>1, <3>2, <3>4
  <2>4. QED BY <2>1, <2>2, <2>3 DEF Identified
<1>14. /\ advertised' \in [Connector -> Nat]
       /\ AdvertisedMatchesSpace'
  <2>0. advertised \in [Connector -> Nat]
    BY DEF RegistryInv, RegistryTypes
  <2>1. ASSUME NEW k \in Connector
        PROVE  /\ advertised'[k] =
                    Cardinality({i \in 1..Len(outputs') : outputs'[i].connector = k})
               /\ advertised'[k] \in Nat
    <3> DEFINE before == {i \in 1..n : outputs[i].connector = k}
               after == {i \in 1..(n - 1) : outputs'[i].connector = k}
               f == [i \in after |-> from(i)]
    <3>1. IsFiniteSet(before) /\ Cardinality(before) \in Nat
      <4>1. IsFiniteSet(1..n)
        BY <1>1, FS_Interval
      <4>2. QED BY <4>1, FS_Subset, FS_CardinalityType
    <3>2. IsFiniteSet(before \ {p})
          /\ Cardinality(before \ {p}) = IF k = name THEN Cardinality(before) - 1
                                         ELSE Cardinality(before)
      <4>1. p \in before <=> k = name
        BY <1>2, <1>3
      <4> HIDE DEF before
      <4>2. QED BY <3>1, <4>1, FS_RemoveElement
    <3>3. f \in Bijection(after, before \ {p})
      <4>1. \A i \in after : f[i] = from(i) /\ from(i) \in before \ {p} /\ i \in 1..(n - 1)
        BY <1>5, <1>6
      <4>2. \A j \in before \ {p} : \E i \in after : from(i) = j
        <5>1. SUFFICES ASSUME NEW j \in before \ {p} PROVE \E i \in after : from(i) = j
          OBVIOUS
        <5>2. PICK i \in 1..(n - 1) : from(i) = j
          BY <1>6
        <5>3. i \in after
          BY <1>5, <5>2
        <5>4. QED BY <5>2, <5>3
      <4>3. f \in [after -> before \ {p}]
        BY <4>1
      <4> HIDE DEF f, after, before
      <4>4. \A i, j \in after : f[i] = f[j] => i = j
        BY <1>6, <4>1
      <4>5. \A j \in before \ {p} : \E i \in after : f[i] = j
        BY <4>1, <4>2
      <4>6. QED
        BY <4>3, <4>4, <4>5 DEF Bijection, Injection, IsInjective, Surjection
    <3>4. IsFiniteSet(after)
      <4>1. IsFiniteSet(1..(n - 1))
        BY <1>1, FS_Interval
      <4>2. QED BY <4>1, FS_Subset
    <3>5. Cardinality(after) = Cardinality(before \ {p})
      <4> HIDE DEF f, after, before
      <4>1. QED BY <3>3, <3>4, FS_Bijection DEF ExistsBijection
    <3>6. advertised[k] = Cardinality(before)
      BY DEF RegistryInv, AdvertisedMatchesSpace
    <3>7. advertised'[k] = IF k = name THEN advertised[k] - 1 ELSE advertised[k]
      BY <1>3, <1>4, <2>0
    <3>8. Cardinality(after) \in Nat
      BY <3>4, FS_CardinalityType
    <3> HIDE DEF f, before
    <3>9. advertised'[k] = Cardinality(after)
      BY <3>1, <3>2, <3>5, <3>6, <3>7
    <3>10. QED BY <1>5, <3>8, <3>9
  <2>2. advertised' \in [Connector -> Nat]
    BY <1>4, <2>0, <2>1
  <2>3. QED BY <2>1, <2>2 DEF AdvertisedMatchesSpace
<1>15. RegistryTypes'
  BY <1>5, <1>9, <1>14 DEF RegistryInv, RegistryTypes, OutputId, OutputRecord
<1>16. OutputsTile'
  BY DEF OutputsTile, Free
<1>17. QED BY <1>12, <1>13, <1>14, <1>15, <1>16 DEF RegistryInv

\* The outputs are moved, not replaced.
LEMMA FixupKeeps ==
  ASSUME RegistryInv, FixupPositions, UNCHANGED <<advertised, surface, failed>>
  PROVE  RegistryInv'
<1>1. outputs \in Seq(OutputRecord) /\ Len(outputs) \in Nat
      /\ \A i \in 1..Len(outputs) : outputs[i] \in OutputRecord
  BY LenProperties, ElementOfSeq DEF RegistryInv, RegistryTypes
<1>2. \A i \in 1..Len(outputs) : [outputs[i] EXCEPT !.x = i - 1] \in OutputRecord
  BY <1>1, SMTT(30) DEF OutputRecord
<1>3. outputs' \in Seq(OutputRecord) /\ Len(outputs') = Len(outputs)
      /\ \A i \in 1..Len(outputs) : outputs'[i] = [outputs[i] EXCEPT !.x = i - 1]
  BY <1>1, <1>2 DEF FixupPositions
<1>4. \A i \in 1..Len(outputs) :
        /\ outputs'[i].id = outputs[i].id /\ outputs'[i].connector = outputs[i].connector
        /\ outputs'[i].crtc = outputs[i].crtc /\ outputs'[i].x = i - 1
  BY <1>1, <1>3 DEF OutputRecord
<1>5. Ids' = Ids /\ Surfaces' = Surfaces
  BY <1>3, <1>4 DEF Ids, Surfaces
<1>6. \A k \in Connector : {i \in 1..Len(outputs') : outputs'[i].connector = k} =
                           {i \in 1..Len(outputs) : outputs[i].connector = k}
  BY <1>3, <1>4
<1>7. AdvertisedMatchesSpace'
  BY <1>6 DEF RegistryInv, AdvertisedMatchesSpace
<1>8. Identified'
  BY <1>3, <1>4 DEF RegistryInv, Identified
<1>9. OutputsTile'
  BY <1>3, <1>4 DEF OutputsTile
<1>10. QED
  BY <1>3, <1>5, <1>7, <1>8, <1>9 DEF RegistryInv, RegistryTypes, Accounted, OutputId, OutputRecord

LEMMA NextRegistry == HotplugInv /\ RegistryInv /\ [Next]_vars => RegistryInv'
<1> SUFFICES ASSUME HotplugInv, RegistryInv, [Next]_vars PROVE RegistryInv'
  OBVIOUS
<1> USE DEF hotplug, registry
<1>1. ASSUME UNCHANGED <<outputs, advertised, surface, failed>>, Free' => Free
      PROVE  RegistryInv'
  <2>1. RegistryTypes' /\ Identified'
    BY <1>1 DEF RegistryInv, RegistryTypes, Identified
  <2>2. Ids' = Ids /\ Surfaces' = Surfaces
    BY <1>1 DEF Ids, Surfaces
  <2>3. Accounted'
    BY <1>1, <2>2 DEF RegistryInv, Accounted
  <2>4. AdvertisedMatchesSpace' /\ OutputsTile'
    BY <1>1 DEF RegistryInv, AdvertisedMatchesSpace, OutputsTile
  <2>5. QED BY <2>1, <2>3, <2>4 DEF RegistryInv
<1>2. CASE (\E k \in Connector : Plug(k) \/ Unplug(k)) \/ DeviceAdded \/ DeviceChanged
           \/ DeviceRemoved \/ PauseSession \/ ActivateSession
  BY <1>1, <1>2
    DEF Plug, Unplug, DeviceAdded, DeviceChanged, DeviceRemoved, PauseSession, ActivateSession,
        Free
<1>3. CASE LoopStep \/ UNCHANGED vars
  BY <1>1, <1>3 DEF LoopStep, FrameTimer, IdleRender, VBlank, ThrottleTimer, Free, vars
<1>4. ASSUME NEW k \in Connector, NEW c \in Crtc, ConnectNonDesktop(k, c) PROVE RegistryInv'
  BY <1>1, <1>4 DEF ConnectNonDesktop, ConnectorConnected, Free
<1>5. ASSUME NEW k \in Connector, NEW c \in Crtc, ConnectDesktop(k, c) \/ ConnectFails(k, c)
      PROVE  RegistryInv'
  BY <1>5, MapKeeps DEF ConnectDesktop, ConnectFails, Set
<1>6. ASSUME NEW k \in Connector, NEW c \in Crtc, ConnectorDisconnected(k, c) PROVE RegistryInv'
  <2>1. handler' = handler /\ handler # "none" /\ failed' = failed
    BY <1>6 DEF ConnectorDisconnected, Free
  <2>2. CASE UNCHANGED <<outputs, advertised, surface>>
    BY <1>1, <2>1, <2>2 DEF Free
  <2>3. CASE surface[c] # 0 /\ UnmapOutput(c) /\ surface' = [surface EXCEPT ![c] = 0]
    BY <2>1, <2>3, UnmapKeeps
  <2>4. QED BY <1>6, <2>2, <2>3 DEF ConnectorDisconnected, Set
<1>7. CASE ScanEnds \/ RemovalEnds
  BY <1>7, FixupKeeps DEF ScanEnds, RemovalEnds
<1>8. QED BY <1>2, <1>3, <1>4, <1>5, <1>6, <1>7 DEF Next, ConnectorStep

-----------------------------------------------------------------------------
(* The theorems.                                                           *)

OutputsInv == HotplugInv /\ LoopInv /\ RegistryInv

LEMMA OutputsInvHolds == Spec => []OutputsInv
<1>1. Init => OutputsInv
  BY InitHotplug, InitLoops, InitRegistry DEF OutputsInv
<1>2. OutputsInv /\ [Next]_vars => OutputsInv'
  BY NextHotplug, NextLoops, NextRegistry DEF OutputsInv
<1>3. QED BY <1>1, <1>2, PTL DEF Spec

\* Every variable of the device keeps its type, ids included: there is always
\* one left for a new output.
THEOREM TypesHold == Spec => []TypeOK
<1>1. OutputsInv => TypeOK
  BY DEF OutputsInv, HotplugInv, HotplugTypes, LoopInv, LoopTypes, RegistryInv, RegistryTypes,
         TypeOK
<1>2. QED BY <1>1, OutputsInvHolds, PTL

\* The space, the surfaces of the device and the list D-Bus clients read agree,
\* whatever is plugged and unplugged and whatever fails.
THEOREM RegistriesHold == Spec => []RegistriesAgree
<1>1. OutputsInv => OutputsAccounted
  BY DEF OutputsInv, RegistryInv, Accounted, OutputsAccounted
<1>2. OutputsInv => AdvertisedMatchesSpace
  BY DEF OutputsInv, RegistryInv
<1>3. OutputsInv => SurfaceFindsOwnOutput
  <2>1. SUFFICES ASSUME OutputsInv, failed = {}, NEW c \in Crtc, surface[c] # 0
                 PROVE  FindOutput(c) = surface[c]
    BY DEF SurfaceFindsOwnOutput
  <2> DEFINE at == {i \in 1..Len(outputs) : outputs[i].crtc = c}
  <2>2. PICK p \in 1..Len(outputs) : outputs[p].id = surface[c] /\ outputs[p].crtc = c
    BY <2>1 DEF OutputsInv, RegistryInv, Identified
  <2>0. Identified /\ Ids = Surfaces
    BY <2>1 DEF OutputsInv, RegistryInv, Accounted
  <2>3. ASSUME NEW i \in at PROVE i = p
    <3>1. i \in 1..Len(outputs) /\ outputs[i].crtc = c /\ outputs[i].id \in Ids
      BY <2>3 DEF Ids
    <3>2. PICK d \in Crtc : surface[d] = outputs[i].id /\ surface[d] # 0
      BY <2>0, <3>1 DEF Surfaces
    <3> HIDE DEF at
    <3>3. PICK j \in 1..Len(outputs) : outputs[j].id = surface[d] /\ outputs[j].crtc = d
      BY <2>0, <3>2 DEF Identified
    <3>4. i = j
      BY <2>0, <3>1, <3>2, <3>3 DEF Identified
    <3>5. d = c
      BY <3>1, <3>3, <3>4
    <3>6. QED BY <2>0, <2>2, <3>1, <3>2, <3>5 DEF Identified
  <2>4. at = {p} /\ p \in Nat
    BY <2>2, <2>3
  <2>5. (CHOOSE i \in at : \A j \in at : i <= j) = p
    <3> HIDE DEF at
    <3>1. QED BY <2>4
  <2>6. QED BY <2>2, <2>4, <2>5 DEF FindOutput
<1>4. QED BY <1>1, <1>2, <1>3, OutputsInvHolds, PTL DEF RegistriesAgree

\* Between handlers the outputs tile.
THEOREM TilingHolds == Spec => []OutputsTile
<1>1. OutputsInv => OutputsTile
  BY DEF OutputsInv, RegistryInv
<1>2. QED BY <1>1, OutputsInvHolds, PTL

\* No render loop breaks while its surface lives and the session is active.
THEOREM LivenessHolds == Spec => []LoopsLive
<1>1. OutputsInv => LoopsLive
  BY DEF OutputsInv, LoopInv, LoopOf, LoopLive, LoopsLive, SurfaceHasLoop, PendingFrameFinishes
<1>2. QED BY <1>1, OutputsInvHolds, PTL

\* and none multiplies.
THEOREM BoundHolds == Spec => []LoopsBounded
<1>1. OutputsInv => LoopsBounded
  BY DEF OutputsInv, LoopInv, LoopOf, LoopBounded, LoopsBounded
<1>2. QED BY <1>1, OutputsInvHolds, PTL

=============================================================================
