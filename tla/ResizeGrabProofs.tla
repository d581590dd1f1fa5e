-------------------------- MODULE ResizeGrabProofs --------------------------
(***************************************************************************)
(* What interactive resizing guarantees for every set of windows and       *)
(* widths, and however many configures the client leaves unanswered.       *)
(***************************************************************************)
EXTENDS ResizeGrab, SequenceTheorems, TLAPS

-----------------------------------------------------------------------------
(* The types.                                                              *)

\* What a grab and a state are made of.
LEMMA Records ==
  /\ NoGrab.kind = "none" /\ Click.kind = "click"
  /\ NotResizing.state = "NotResizing"
  /\ \A g \in {NoGrab, Click} \cup ResizeSurfaceGrab :
       g.kind = "resize" => g \in ResizeSurfaceGrab
  /\ \A g \in ResizeSurfaceGrab :
       g.window \in Window /\ g.far \in Far /\ g.last \in Width
  /\ \A r \in ResizeState : r.state = "Resizing" => r.far \in Far
<1>1. NoGrab.kind = "none" /\ Click.kind = "click"
  BY DEF NoGrab, Click
<1>2. NotResizing.state = "NotResizing"
  BY DEF NotResizing
<1>3. \A r \in ResizeState : r.state = "Resizing" => r.far \in Far
  BY <1>2 DEF ResizeState
<1>4. QED BY <1>1, <1>2, <1>3 DEF ResizeSurfaceGrab

\* A far edge a resize may begin with is an edge.
LEMMA FarEdgesAreFar ==
  ASSUME TypeOK, NEW w \in Window
  PROVE  FarEdges(w) \subseteq Far
  BY ResizeGrabAssumption DEF FarEdges, Far, TypeOK, Width

\* The location computed from an edge is a number.
LEMMA AnchoredType ==
  ASSUME NEW far \in Far, NEW x \in Int, NEW wd \in Width
  PROVE  Anchored(far, x, wd) \in Int
  BY ResizeGrabAssumption DEF Anchored, Far, Width

\* The types after a configure, which concerns one Wayland window.
LEMMA ConfiguredTypes ==
  ASSUME TypeOK, NEW w \in Wayland, NEW state \in Told, Configured(w, state)
  PROVE  /\ told' \in [Wayland -> Told] /\ sent' \in [Wayland -> Seq(Configure)]
         /\ serial' \in Nat
<1>1. CASE state = told[w]
  BY <1>1 DEF Configured, TypeOK
<1>2. CASE state # told[w]
  <2> DEFINE c == [serial |-> serial + 1, resizing |-> state.resizing]
  <2>1. c \in Configure
    BY DEF TypeOK, Told, Configure
  <2>2. sent[w] \in Seq(Configure)
    BY DEF TypeOK
  <2>3. Append(sent[w], c) \in Seq(Configure)
    BY <2>1, <2>2, AppendProperties
  <2>4. /\ told' = [told EXCEPT ![w] = state] /\ serial' = serial + 1
        /\ sent' = [sent EXCEPT ![w] = Append(@, c)]
    BY <1>2 DEF Configured
  <2> HIDE DEF c
  <2>5. QED BY <2>3, <2>4 DEF TypeOK
<1>3. QED BY <1>1, <1>2

\* The types after a pass of the layout.
LEMMA ArrangedTypes ==
  ASSUME TypeOK, NEW living \in SUBSET Window, NEW widths, ArrangeLayout(living, widths)
  PROVE  /\ told' \in [Wayland -> Told] /\ sent' \in [Wayland -> Seq(Configure)]
         /\ serial' \in Nat
<1>1. NotTold \in Told /\ <<>> \in Seq(Configure)
  BY ResizeGrabAssumption DEF Told, NotTold
<1>2. ASSUME NEW w \in Wayland PROVE [told[w] EXCEPT !.width = SlotWidth] \in Told
  <2>1. told[w] \in Told /\ SlotWidth \in 0..MaxWidth
    BY ResizeGrabAssumption DEF TypeOK
  <2>2. QED BY <2>1 DEF Told
<1>3. ASSUME NEW w \in Wayland
      PROVE  [serial |-> serial + 1, resizing |-> told[w].resizing] \in Configure
  <2>1. told[w] \in Told /\ serial + 1 \in Nat
    BY DEF TypeOK
  <2>2. QED BY <2>1 DEF Told, Configure
<1>4. ASSUME NEW w \in Wayland
      PROVE  /\ sent[w] \in Seq(Configure)
             /\ Append(sent[w], [serial |-> serial + 1, resizing |-> told[w].resizing])
                  \in Seq(Configure)
  <2>1. sent[w] \in Seq(Configure)
    BY DEF TypeOK
  <2>2. QED BY <2>1, <1>3, AppendProperties
<1>5. told' \in [Wayland -> Told]
  BY <1>1, <1>2 DEF ArrangeLayout, TypeOK
<1>6. sent' \in [Wayland -> Seq(Configure)]
  BY <1>1, <1>4 DEF ArrangeLayout, TypeOK
<1>7. serial' \in Nat
  BY DEF ArrangeLayout, TypeOK
<1>8. QED BY <1>5, <1>6, <1>7

\* The actions, one by one: what every proof below has to go through.
LEMMA Actions ==
  ASSUME Next
  PROVE  \/ \E d \in Device : Press(d) \/ OtherRequest(d) \/ ReleaseOther(d)
         \/ \E d \in Device, w \in Window : \E far \in FarEdges(w), open \in BOOLEAN :
              BeginResize(d, w, far, open)
         \/ \E d \in Device, wd \in Width : Motion(d, wd)
         \/ \E d \in Device : ReleaseResize(d)
         \/ Cancel
         \/ \E w \in Wayland : \E i \in 1..Len(sent[w]) : AckConfigure(w, i)
         \/ \E w \in Wayland, wd \in Width, offset \in Int : Commit(w, wd, offset)
         \/ \E w \in Wayland, x \in Int : MapElement(w, x)
         \/ \E w \in Wayland : Destroy(w)
         \/ \E w \in X11 : CommitX11(w)
<1>1. "pointer" \in Device /\ "touch" \in Device
  BY DEF Device
<1>2. ASSUME NEW d \in Device, NEW w \in Wayland, NEW far \in FarEdges(w),
             ResizeRequest(d, w, far)
      PROVE  BeginResize(d, w, far, TRUE) /\ w \in Window
  BY <1>2 DEF ResizeRequest, Window
<1>3. ASSUME NEW w \in X11, NEW far \in FarEdges(w), ResizeRequestX11(w, far)
      PROVE  BeginResize("pointer", w, far, FALSE) /\ w \in Window
  BY <1>3 DEF ResizeRequestX11, Window
<1>4. ASSUME NEW w \in Window, NEW far \in FarEdges(w), ModifierResize(w, far)
      PROVE  BeginResize("pointer", w, far, FALSE)
  BY <1>4 DEF ModifierResize
<1>5. 0 \in Int /\ Offset \subseteq Int /\ Place \subseteq Int
  BY ResizeGrabAssumption
<1>6. QED
  BY <1>1, <1>2, <1>3, <1>4, <1>5
     DEF Next, IpcMoveWindow, MoveMotion, PointerMotion, TouchMotion, PointerButton, TouchUp

\* The initial state has the types.
LEMMA InitTypes == Init => TypeOK
<1> SUFFICES ASSUME Init PROVE TypeOK
  OBVIOUS
<1>1. SlotWidth \in Width /\ 0 \in 0..MaxWidth /\ <<>> \in Seq(Configure)
  BY ResizeGrabAssumption DEF Width
<1>2. NotTold \in Told
  BY <1>1 DEF NotTold, Told
<1>3. NotResizing \in ResizeState
  BY DEF ResizeState
<1>4. QED BY <1>1, <1>2, <1>3 DEF Init, TypeOK

\* Every step keeps the types.
LEMMA NextTypes == TypeOK /\ [Next]_vars => TypeOK'
<1> SUFFICES ASSUME TypeOK, [Next]_vars PROVE TypeOK'
  OBVIOUS
<1> USE DEF place, client
<1>1. ASSUME NEW d \in Device, Press(d) \/ OtherRequest(d) \/ ReleaseOther(d)
      PROVE  TypeOK'
  <2>1. Resized(d) \subseteq Window
    BY DEF Resized
  <2>2. QED BY <1>1, <2>1 DEF TypeOK, Press, OtherRequest, ReleaseOther, Drop
<1>2. ASSUME NEW d \in Device, NEW w \in Window, NEW far \in FarEdges(w),
             NEW open \in BOOLEAN, BeginResize(d, w, far, open)
      PROVE  TypeOK'
  <2> DEFINE g == [kind |-> "resize", open |-> open, window |-> w, far |-> far,
                   last |-> IF w \in Wayland THEN width[w] ELSE SlotWidth]
             r == [state |-> "Resizing", far |-> far]
  <2>1. far \in Far
    BY FarEdgesAreFar
  <2>2. g \in ResizeSurfaceGrab
    BY <2>1, ResizeGrabAssumption DEF ResizeSurfaceGrab, TypeOK, Width
  <2>3. r \in ResizeState
    BY <2>1 DEF ResizeState
  <2>4. disturbed' \subseteq Window
    BY <1>2 DEF BeginResize, Resized, TypeOK
  <2>5. grab' = [grab EXCEPT ![d] = g] /\ resize' = [resize EXCEPT ![w] = r]
        /\ UNCHANGED <<tiling, loc, width, client, alive, serial>>
        /\ shifted' = shifted \ {w}
    BY <1>2 DEF BeginResize
  <2> HIDE DEF g, r
  <2>6. QED BY <2>2, <2>3, <2>4, <2>5 DEF TypeOK
<1>3. ASSUME NEW d \in Device, NEW wd \in Width, Motion(d, wd)
      PROVE  TypeOK'
  <2> DEFINE w == grab[d].window
  <2>1. grab[d] \in ResizeSurfaceGrab /\ w \in Window
    BY <1>3, Records DEF Motion, TypeOK
  <2>2. [grab[d] EXCEPT !.last = wd] \in ResizeSurfaceGrab
    BY <2>1 DEF ResizeSurfaceGrab
  <2>3. [resizing |-> TRUE, width |-> wd] \in Told
    BY ResizeGrabAssumption DEF Told, Width
  <2>4. grab' \in [Device -> {NoGrab, Click} \cup ResizeSurfaceGrab]
    BY <1>3, <2>2 DEF Motion, Drop, TypeOK
  <2>5. /\ told' \in [Wayland -> Told] /\ sent' \in [Wayland -> Seq(Configure)]
        /\ serial' \in Nat
    <3>1. CASE UNCHANGED <<told, sent, serial>>
      BY <3>1 DEF TypeOK
    <3>2. CASE w \in Wayland /\ Configured(w, [resizing |-> TRUE, width |-> wd])
      BY <3>2, <2>3, ConfiguredTypes
    <3>3. QED BY <1>3, <3>1, <3>2 DEF Motion
  <2>6. UNCHANGED <<tiling, resize, place, acked, current, alive, disturbed>>
    BY <1>3 DEF Motion
  <2>7. QED BY <2>4, <2>5, <2>6 DEF TypeOK
<1>4. ASSUME NEW d \in Device, ReleaseResize(d)
      PROVE  TypeOK'
  <2> DEFINE w == grab[d].window
  <2>1. grab[d] \in ResizeSurfaceGrab /\ w \in Window
    BY <1>4, Records DEF ReleaseResize, TypeOK
  <2>2. FinalState(d) \in Told
    BY <2>1, Records, ResizeGrabAssumption DEF FinalState, Told, Width
  <2>3. grab' \in [Device -> {NoGrab, Click} \cup ResizeSurfaceGrab]
    BY <1>4 DEF ReleaseResize, Drop, TypeOK
  <2>4. resize' \in [Window -> ResizeState]
    <3>1. /\ NotResizing \in ResizeState /\ [state |-> "WaitingForCommit"] \in ResizeState
          /\ [state |-> "WaitingForFinalAck", serial |-> serial + 1] \in ResizeState
      BY DEF ResizeState, TypeOK
    <3>2. CASE w \in alive
      <4>1. Finished(w)
        BY <1>4, <3>2 DEF ReleaseResize
      <4>2. \E r \in ResizeState : resize' = [resize EXCEPT ![w] = r]
        BY <3>1, <4>1 DEF Finished
      <4>3. QED BY <4>2 DEF TypeOK
    <3>3. CASE w \notin alive
      BY <1>4, <3>3 DEF ReleaseResize, TypeOK
    <3>4. QED BY <3>2, <3>3
  <2>5. /\ told' \in [Wayland -> Told] /\ sent' \in [Wayland -> Seq(Configure)]
        /\ serial' \in Nat
    <3>1. CASE UNCHANGED <<told, sent, serial>>
      BY <3>1 DEF TypeOK
    <3>2. CASE w \in Wayland /\ Configured(w, FinalState(d))
      BY <3>2, <2>2, ConfiguredTypes
    <3>3. QED BY <1>4, <3>1, <3>2 DEF ReleaseResize
  <2>6. loc' \in [Wayland -> Int]
    <3>1. CASE w \in alive \cap Wayland
      <4>1. Anchored(grab[d].far, loc[w], width[w]) \in Int
        BY <3>1, <2>1, Records, AnchoredType DEF TypeOK
      <4>2. QED BY <1>4, <3>1, <4>1 DEF ReleaseResize, TypeOK
    <3>2. QED BY <1>4, <3>1 DEF ReleaseResize, TypeOK
  <2>7. UNCHANGED <<tiling, width, acked, current, alive, disturbed>> /\ shifted' \subseteq shifted
    BY <1>4 DEF ReleaseResize
  <2>8. QED BY <2>3, <2>4, <2>5, <2>6, <2>7 DEF TypeOK
<1>5. CASE Cancel
  <2>1. "touch" \in Device /\ Resized("touch") \subseteq Window
    BY DEF Device, Resized
  <2>2. QED BY <1>5, <2>1 DEF Cancel, Drop, TypeOK
<1>6. ASSUME NEW w \in Wayland, NEW i \in 1..Len(sent[w]), AckConfigure(w, i)
      PROVE  TypeOK'
  <2>1. sent[w] \in Seq(Configure) /\ sent[w][i] \in Configure
    BY ElementOfSeq DEF TypeOK
  <2>2. SubSeq(sent[w], i + 1, Len(sent[w])) \in Seq(Configure)
    BY <2>1, LenProperties, SubSeqProperties
  <2>3. resize' \in [Window -> ResizeState]
    BY <1>6 DEF AckConfigure, ResizeState, TypeOK
  <2>4. QED BY <1>6, <2>1, <2>2, <2>3 DEF AckConfigure, TypeOK, Configure
<1>7. ASSUME NEW w \in Wayland, NEW wd \in Width, NEW offset \in Int, Commit(w, wd, offset)
      PROVE  TypeOK'
  <2>1. resize' \in [Window -> ResizeState]
    BY <1>7 DEF Commit, FinishResizing, ResizeState, TypeOK
  <2>2. /\ told' \in [Wayland -> Told] /\ sent' \in [Wayland -> Seq(Configure)]
        /\ serial' \in Nat
    <3>1. CASE Resizing(w)
      BY <1>7, <3>1 DEF Commit, TypeOK
    <3>2. CASE ~Resizing(w)
      <4>1. ArrangeLayout(alive, width') /\ alive \subseteq Window
        BY <1>7, <3>2 DEF Commit, TypeOK
      <4>2. QED BY <4>1, ArrangedTypes
    <3>3. QED BY <3>1, <3>2
  <2>3. loc' \in [Wayland -> Int]
    <3> DEFINE hooked == IF Resizing(w) THEN HandleToplevelCommit(w, wd) ELSE Slots(alive)
    <3>1. hooked \in [Wayland -> Int]
      <4>1. CASE Resizing(w)
        <5>1. w \in Window /\ resize[w].far \in Far
          BY <4>1, Records DEF Resizing, TypeOK, Window
        <5>2. Anchored(resize[w].far, loc[w], wd) \in Int
          BY <5>1, AnchoredType DEF TypeOK
        <5>3. QED BY <4>1, <5>2 DEF HandleToplevelCommit, TypeOK
      <4>2. CASE ~Resizing(w)
        BY <4>2 DEF Slots, TypeOK
      <4>3. QED BY <4>1, <4>2
    <3>2. loc' = [hooked EXCEPT ![w] = @ + offset]
      BY <1>7 DEF Commit
    <3> HIDE DEF hooked
    <3>3. QED BY <3>1, <3>2
  <2>4. shifted' \subseteq Window
    BY <1>7 DEF Commit, Shifts, TypeOK
  <2>5. QED BY <1>7, <2>1, <2>2, <2>3, <2>4 DEF Commit, TypeOK
<1>8. ASSUME NEW w \in Wayland, Destroy(w)
      PROVE  TypeOK'
  <2>1. ArrangeLayout(alive', width) /\ alive' \subseteq Window
    BY <1>8 DEF Destroy, TypeOK
  <2>2. /\ told' \in [Wayland -> Told] /\ sent' \in [Wayland -> Seq(Configure)]
        /\ serial' \in Nat
    BY <2>1, ArrangedTypes
  <2>3. SlotWidth \in Width /\ NotResizing \in ResizeState
    BY ResizeGrabAssumption DEF Width, ResizeState
  <2>4. loc' \in [Wayland -> Int]
    BY <1>8 DEF Destroy, Slots, TypeOK
  <2>5. QED BY <1>8, <2>1, <2>2, <2>3, <2>4 DEF Destroy, TypeOK
<1>9. ASSUME NEW w \in X11, CommitX11(w)
      PROVE  TypeOK'
  <2>1. resize' \in [Window -> ResizeState]
    BY <1>9 DEF CommitX11, FinishResizing, ResizeState, TypeOK
  <2>2. QED BY <1>9, <2>1 DEF CommitX11, TypeOK
<1>10. ASSUME NEW w \in Wayland, NEW x \in Int, MapElement(w, x)
       PROVE  TypeOK'
  BY <1>10 DEF MapElement, Shifts, TypeOK
<1>11. CASE UNCHANGED vars
  BY <1>11 DEF vars, TypeOK
<1>12. QED
  BY Actions, <1>1, <1>2, <1>3, <1>4, <1>5, <1>6, <1>7, <1>8, <1>9, <1>10, <1>11

\* Every variable of the resize machinery keeps its type.
THEOREM TypesHold == Spec => []TypeOK
<1>1. QED BY InitTypes, NextTypes, PTL DEF Spec

-----------------------------------------------------------------------------
(* The grab and the state of its window.                                   *)

\* The invariant: an undisturbed window is held by one grab at most, and then it
\* is in the state Resizing with the grab's data.  That the grab is the only one
\* makes the release of another grab harmless.
HeldInv ==
  /\ HeldExactlyWhileResizing
  /\ \A w \in Undisturbed : \A d, e \in Device : Holds(d, w) /\ Holds(e, w) => d = e

\* A step that leaves the grabs alone, or ends some that held no window that is
\* undisturbed afterwards, and does not touch whether and how an undisturbed
\* window is resized, keeps the invariant.
LEMMA HeldKept ==
  ASSUME HeldInv, Undisturbed' \subseteq Undisturbed,
         \A w \in Undisturbed', d \in Device :
           /\ Holds(d, w)' <=> Holds(d, w)
           /\ Holds(d, w) => grab'[d].far = grab[d].far,
         \A w \in Undisturbed' :
           /\ Resizing(w)' <=> Resizing(w)
           /\ Resizing(w) => resize'[w].far = resize[w].far
  PROVE  HeldInv'
<1>1. ASSUME NEW w \in Undisturbed' PROVE Held(w)' <=> Resizing(w)'
  BY <1>1 DEF HeldInv, HeldExactlyWhileResizing, Held
<1>2. ASSUME NEW w \in Undisturbed', NEW d \in Device, Holds(d, w)'
      PROVE  grab'[d].far = resize'[w].far
  BY <1>2 DEF HeldInv, HeldExactlyWhileResizing, Held
<1>3. ASSUME NEW w \in Undisturbed', NEW d \in Device, NEW e \in Device,
             Holds(d, w)', Holds(e, w)'
      PROVE  d = e
  BY <1>3 DEF HeldInv
<1>4. QED BY <1>1, <1>2, <1>3 DEF HeldInv, HeldExactlyWhileResizing

\* Initially there is no grab and no resize.
LEMMA InitHeld == Init => HeldInv
<1> SUFFICES ASSUME Init PROVE HeldInv
  OBVIOUS
<1>1. \A d \in Device, w \in Window : ~Holds(d, w)
  BY Records DEF Init, Holds
<1>2. \A w \in Window : ~Resizing(w)
  BY Records DEF Init, Resizing
<1>3. Undisturbed \subseteq Window
  BY DEF Init, Undisturbed
<1>4. QED BY <1>1, <1>2, <1>3 DEF HeldInv, HeldExactlyWhileResizing, Held

\* Every step keeps the invariant.
LEMMA NextHeld == TypeOK /\ HeldInv /\ [Next]_vars => HeldInv'
<1> SUFFICES ASSUME TypeOK, HeldInv, [Next]_vars PROVE HeldInv'
  OBVIOUS
<1>0. Undisturbed \subseteq Window
  BY DEF TypeOK, Undisturbed
<1>1. ASSUME NEW d \in Device, Press(d) \/ OtherRequest(d) \/ ReleaseOther(d)
      PROVE  HeldInv'
  <2>1. /\ UNCHANGED <<resize, alive>> /\ disturbed' = disturbed \cup Resized(d)
        /\ \E g \in {NoGrab, Click} : grab' = [grab EXCEPT ![d] = g]
    <3>1. CASE Press(d) \/ ReleaseOther(d)
      <4>1. Resized(d) = {}
        BY <3>1, Records DEF Press, ReleaseOther, Resized, Holds
      <4>2. QED BY <3>1, <4>1 DEF Press, ReleaseOther, Drop
    <3>2. CASE OtherRequest(d)
      BY <3>2 DEF OtherRequest
    <3>3. QED BY <1>1, <3>1, <3>2
  <2>2. Undisturbed' \subseteq Undisturbed
    BY <2>1 DEF Undisturbed
  <2>3. ASSUME NEW w \in Undisturbed' PROVE ~Holds(d, w)
    BY <1>0, <2>1, <2>2, <2>3 DEF Undisturbed, Resized
  <2>4. \A w \in Undisturbed' : ~Holds(d, w)'
    BY <2>1, Records DEF Holds, TypeOK
  <2>5. \A e \in Device \ {d} : grab'[e] = grab[e]
    BY <2>1 DEF TypeOK
  <2>6. \A w \in Undisturbed', e \in Device :
          /\ Holds(e, w)' <=> Holds(e, w)
          /\ Holds(e, w) => grab'[e].far = grab[e].far
    BY <2>3, <2>4, <2>5 DEF Holds
  <2>7. QED BY <2>1, <2>2, <2>6, HeldKept DEF Resizing
<1>2. ASSUME NEW d \in Device, NEW w \in Window, NEW far \in FarEdges(w),
             NEW open \in BOOLEAN, BeginResize(d, w, far, open)
      PROVE  HeldInv'
  <2>1. /\ grab'[d].kind = "resize" /\ grab'[d].window = w /\ grab'[d].far = far
        /\ \A e \in Device \ {d} : grab'[e] = grab[e]
    BY <1>2 DEF BeginResize, TypeOK
  <2>2. /\ resize'[w].state = "Resizing" /\ resize'[w].far = far
        /\ \A v \in Window \ {w} : resize'[v] = resize[v]
    BY <1>2 DEF BeginResize, TypeOK
  <2>3. /\ Undisturbed' \subseteq Undisturbed \cup {w}
        /\ \A v \in Undisturbed' : v # w => ~Holds(d, v)
        /\ w \in Undisturbed' => \A e \in Device \ {d} : ~Holds(e, w)
    BY <1>2, <1>0 DEF BeginResize, Undisturbed, Resized
  <2>4. ASSUME NEW v \in Undisturbed', v = w
        PROVE  /\ Held(v)' /\ Resizing(v)'
               /\ \A e \in Device : Holds(e, v)' => e = d /\ grab'[e].far = resize'[v].far
    BY <2>1, <2>2, <2>3, <2>4 DEF Held, Holds, Resizing
  <2>5. ASSUME NEW v \in Undisturbed', v # w
        PROVE  /\ v \in Undisturbed /\ resize'[v] = resize[v]
               /\ \A e \in Device : Holds(e, v)' <=> Holds(e, v)
               /\ \A e \in Device : Holds(e, v) => grab'[e] = grab[e]
    BY <2>1, <2>2, <2>3, <2>5, <1>0 DEF Holds
  <2>6. ASSUME NEW v \in Undisturbed'
        PROVE  /\ Held(v)' <=> Resizing(v)'
               /\ \A e \in Device : Holds(e, v)' => grab'[e].far = resize'[v].far
               /\ \A e, f \in Device : Holds(e, v)' /\ Holds(f, v)' => e = f
    <3>1. CASE v = w
      BY <2>4, <3>1
    <3>2. CASE v # w
      BY <2>5, <3>2 DEF HeldInv, HeldExactlyWhileResizing, Held, Resizing
    <3>3. QED BY <3>1, <3>2
  <2>7. QED BY <2>6 DEF HeldInv, HeldExactlyWhileResizing
<1>3. ASSUME NEW d \in Device, NEW wd \in Width, Motion(d, wd)
      PROVE  HeldInv'
  <2>1. UNCHANGED <<resize, alive, disturbed>> /\ Undisturbed' = Undisturbed
    BY <1>3 DEF Motion, Undisturbed
  <2>2. \A e \in Device \ {d} : grab'[e] = grab[e]
    BY <1>3 DEF Motion, Drop, TypeOK
  <2>3. ASSUME NEW v \in Undisturbed'
        PROVE  (Holds(d, v)' <=> Holds(d, v)) /\ (Holds(d, v) => grab'[d].far = grab[d].far)
    <3>1. CASE grab[d].window \notin alive
      <4>1. grab' = [grab EXCEPT ![d] = NoGrab] /\ v \in alive
        BY <1>3, <2>1, <2>3, <3>1 DEF Motion, Drop, Undisturbed
      <4>2. QED BY <3>1, <4>1, Records DEF Holds, TypeOK
    <3>2. CASE grab[d].window \in alive
      <4>1. grab[d] \in ResizeSurfaceGrab
        BY <1>3, Records DEF Motion, TypeOK
      <4>2. grab'[d] = grab[d] \/ grab'[d] = [grab[d] EXCEPT !.last = wd]
        BY <1>3, <3>2 DEF Motion, TypeOK
      <4>3. QED BY <4>1, <4>2 DEF Holds, ResizeSurfaceGrab
    <3>3. QED BY <3>1, <3>2
  <2>4. \A v \in Undisturbed', e \in Device :
          (Holds(e, v)' <=> Holds(e, v)) /\ (Holds(e, v) => grab'[e].far = grab[e].far)
    BY <2>2, <2>3 DEF Holds
  <2>5. QED BY <2>1, <2>4, HeldKept DEF Resizing
<1>4. ASSUME NEW d \in Device, ReleaseResize(d)
      PROVE  HeldInv'
  <2> DEFINE w == grab[d].window
  <2>1. Undisturbed' = Undisturbed /\ Holds(d, w)
    BY <1>4 DEF ReleaseResize, Undisturbed, Holds
  <2>2. grab'[d] = NoGrab /\ \A e \in Device \ {d} : grab'[e] = grab[e]
    BY <1>4 DEF ReleaseResize, Drop, TypeOK
  <2>3. ASSUME NEW v \in Undisturbed', v = w
        PROVE  ~Resizing(v)' /\ \A e \in Device : ~Holds(e, v)'
    <3>1. ~Resizing(v)'
      <4>1. v \in alive /\ v \in Window
        BY <1>0, <2>1, <2>3 DEF Undisturbed
      <4>2. Finished(v)
        BY <1>4, <2>3, <4>1 DEF ReleaseResize
      <4>3. QED BY <4>1, <4>2, Records DEF Finished, Resizing, TypeOK
    <3>2. \A e \in Device \ {d} : ~Holds(e, v)
      BY <2>1, <2>3 DEF HeldInv
    <3>3. QED BY <3>1, <3>2, <2>2, Records DEF Holds
  <2>4. ASSUME NEW v \in Undisturbed', v # w
        PROVE  /\ resize'[v] = resize[v]
               /\ \A e \in Device : Holds(e, v)' <=> Holds(e, v)
               /\ \A e \in Device : Holds(e, v) => grab'[e] = grab[e]
    <3>1. resize'[v] = resize[v]
      BY <1>4, <1>0, <2>1, <2>4 DEF ReleaseResize, Finished, TypeOK
    <3>2. ~Holds(d, v) /\ ~Holds(d, v)'
      BY <2>2, <2>4, Records DEF Holds
    <3>3. QED BY <2>2, <3>1, <3>2 DEF Holds
  <2>5. ASSUME NEW v \in Undisturbed'
        PROVE  /\ Held(v)' <=> Resizing(v)'
               /\ \A e \in Device : Holds(e, v)' => grab'[e].far = resize'[v].far
               /\ \A e, f \in Device : Holds(e, v)' /\ Holds(f, v)' => e = f
    <3>1. CASE v = w
      BY <2>3, <3>1 DEF Held
    <3>2. CASE v # w
      BY <2>1, <2>4, <3>2 DEF HeldInv, HeldExactlyWhileResizing, Held, Resizing
    <3>3. QED BY <3>1, <3>2
  <2>6. QED BY <2>5 DEF HeldInv, HeldExactlyWhileResizing
<1>5. CASE Cancel
  <2>1. /\ UNCHANGED <<resize, alive>> /\ disturbed' = disturbed \cup Resized("touch")
        /\ grab' = [grab EXCEPT !["touch"] = NoGrab] /\ "touch" \in Device
    BY <1>5 DEF Cancel, Drop, Device
  <2>2. Undisturbed' \subseteq Undisturbed
    BY <2>1 DEF Undisturbed
  <2>3. \A v \in Undisturbed' : ~Holds("touch", v)
    BY <1>0, <2>1 DEF Undisturbed, Resized
  <2>4. \A v \in Undisturbed' : ~Holds("touch", v)'
    BY <2>1, Records DEF Holds, TypeOK
  <2>5. \A e \in Device \ {"touch"} : grab'[e] = grab[e]
    BY <2>1 DEF TypeOK
  <2>6. \A v \in Undisturbed', e \in Device :
          (Holds(e, v)' <=> Holds(e, v)) /\ (Holds(e, v) => grab'[e].far = grab[e].far)
    BY <2>3, <2>4, <2>5 DEF Holds
  <2>7. QED BY <2>1, <2>2, <2>6, HeldKept DEF Resizing
<1>6. ASSUME NEW w \in Wayland, NEW i \in 1..Len(sent[w]), AckConfigure(w, i)
      PROVE  HeldInv'
  <2>1. UNCHANGED <<grab, alive, disturbed>> /\ Undisturbed' = Undisturbed
    BY <1>6 DEF AckConfigure, Undisturbed
  <2>2. \A v \in Window : /\ Resizing(v)' <=> Resizing(v)
                          /\ Resizing(v) => resize'[v].far = resize[v].far
    BY <1>6 DEF AckConfigure, EndsWith, Resizing, TypeOK
  <2>3. QED BY <1>0, <2>1, <2>2, HeldKept DEF Holds
<1>7. ASSUME NEW w \in Window, FinishResizing(w), UNCHANGED <<grab, alive, disturbed>>
      PROVE  HeldInv'
  <2>1. Undisturbed' = Undisturbed
    BY <1>7 DEF Undisturbed
  <2>2. \A v \in Window : /\ Resizing(v)' <=> Resizing(v)
                          /\ Resizing(v) => resize'[v].far = resize[v].far
    BY <1>7, Records DEF FinishResizing, Resizing, TypeOK
  <2>3. QED BY <1>0, <1>7, <2>1, <2>2, HeldKept DEF Holds
<1>8. ASSUME NEW w \in Wayland, Destroy(w)
      PROVE  HeldInv'
  <2>1. /\ UNCHANGED grab /\ Undisturbed' \subseteq Undisturbed \ {w}
        /\ \A v \in Window \ {w} : resize'[v] = resize[v]
    BY <1>8 DEF Destroy, Undisturbed, TypeOK
  <2>2. QED BY <1>0, <2>1, HeldKept DEF Holds, Resizing
<1>9. CASE UNCHANGED vars
  BY <1>9, HeldKept DEF vars, Undisturbed, Holds, Resizing
<1>10. ASSUME NEW w \in Wayland, NEW wd \in Width, NEW offset \in Int, Commit(w, wd, offset)
       PROVE  HeldInv'
  BY <1>7, <1>10 DEF Commit, Window
<1>11. ASSUME NEW w \in X11, CommitX11(w)
       PROVE  HeldInv'
  BY <1>7, <1>11 DEF CommitX11, Window
<1>12. ASSUME NEW w \in Wayland, NEW x \in Int, MapElement(w, x)
       PROVE  HeldInv'
  BY <1>12, HeldKept DEF MapElement, Undisturbed, Holds, Resizing
<1>13. QED
  BY Actions, <1>1, <1>2, <1>3, <1>4, <1>5, <1>6, <1>8, <1>9, <1>10, <1>11, <1>12

\* A window one grab resizes is in the state Resizing, with the data of the grab,
\* until the grab is released, whatever the client acks and commits meanwhile: the
\* release (grabs.rs:845) and the post-commit hook (xdg.rs:169) rely on it.
THEOREM HeldHolds == Spec => []HeldExactlyWhileResizing
<1>1. HeldInv => HeldExactlyWhileResizing
  BY DEF HeldInv
<1>2. QED BY InitTypes, NextTypes, InitHeld, NextHeld, <1>1, PTL DEF Spec

-----------------------------------------------------------------------------
(* The far edge.                                                           *)

\* What an action does to the windows it is not about; `living` is alive'.
LEMMA ArrangedElsewhere ==
  ASSUME TypeOK, NEW living \in SUBSET Window, NEW widths, ArrangeLayout(living, widths),
         NEW v \in Wayland, v \in living
  PROVE  told'[v].resizing = told[v].resizing
<1>1. told'[v] = told[v] \/ told'[v] = [told[v] EXCEPT !.width = SlotWidth]
  BY DEF ArrangeLayout
<1>2. told[v] \in Told
  BY DEF TypeOK
<1>3. QED BY <1>1, <1>2 DEF Told

\* The edge of one window, and what keeps it.
EdgeStays(w) ==
  w \notin shifted /\ Resizing(w) /\ resize[w].far # NoEdge => loc[w] + width[w] = resize[w].far

\* Every step keeps the far edges.
LEMMA NextEdge == TypeOK /\ OppositeEdgeStays /\ [Next]_vars => OppositeEdgeStays'
<1> SUFFICES ASSUME TypeOK, OppositeEdgeStays, [Next]_vars, ~tiling'
             PROVE  \A v \in Undisturbed' \cap Wayland : EdgeStays(v)'
  BY DEF OppositeEdgeStays, EdgeStays, Resizing
<1> USE DEF place, client
<1>0. /\ ~tiling
      /\ \A v \in Undisturbed \cap Wayland : EdgeStays(v)
      /\ Undisturbed \subseteq Window /\ Wayland \subseteq Window
  <2>1. tiling' = tiling
    BY Actions DEF vars, Press, OtherRequest, ReleaseOther, BeginResize, Motion,
       ReleaseResize, Cancel, AckConfigure, Commit, MapElement, Destroy, CommitX11
  <2>2. QED BY <2>1 DEF OppositeEdgeStays, EdgeStays, Undisturbed, TypeOK, Window
<1>1. ASSUME UNCHANGED <<resize, place>>, Undisturbed' \subseteq Undisturbed
      PROVE  \A v \in Undisturbed' \cap Wayland : EdgeStays(v)'
  BY <1>0, <1>1 DEF EdgeStays, Resizing
<1>2. ASSUME NEW d \in Device, Press(d) \/ OtherRequest(d) \/ ReleaseOther(d)
      PROVE  UNCHANGED <<resize, place>> /\ Undisturbed' \subseteq Undisturbed
  BY <1>2 DEF Press, OtherRequest, ReleaseOther, Undisturbed
<1>3. ASSUME NEW d \in Device, NEW w \in Window, NEW far \in FarEdges(w),
             NEW open \in BOOLEAN, BeginResize(d, w, far, open),
             NEW v \in Undisturbed' \cap Wayland
      PROVE  EdgeStays(v)'
  <2>1. /\ UNCHANGED <<loc, width>> /\ shifted' = shifted \ {w}
        /\ Undisturbed' \subseteq Undisturbed \cup {w}
    BY <1>3 DEF BeginResize, Undisturbed
  <2>2. CASE v = w
    <3>1. resize'[w].far = far
      BY <1>3 DEF BeginResize, TypeOK
    <3>2. far # NoEdge => far = loc[w] + width[w]
      BY <1>3, <2>2 DEF FarEdges
    <3>3. QED BY <2>1, <2>2, <3>1, <3>2 DEF EdgeStays
  <2>3. CASE v # w
    <3>1. resize'[v] = resize[v] /\ v \in Undisturbed
      BY <1>3, <1>0, <2>1, <2>3 DEF BeginResize, TypeOK
    <3>2. QED BY <1>0, <1>3, <2>1, <2>3, <3>1 DEF EdgeStays, Resizing
  <2>4. QED BY <2>2, <2>3
<1>4. ASSUME NEW d \in Device, NEW wd \in Width, Motion(d, wd)
      PROVE  UNCHANGED <<resize, place>> /\ Undisturbed' \subseteq Undisturbed
  BY <1>4 DEF Motion, Undisturbed
<1>5. ASSUME NEW d \in Device, ReleaseResize(d), NEW v \in Undisturbed' \cap Wayland
      PROVE  EdgeStays(v)'
  <2>1. UNCHANGED width /\ v \in Undisturbed /\ v \in alive /\ v \in Window
    BY <1>5, <1>0 DEF ReleaseResize, Undisturbed
  <2>2. CASE v = grab[d].window
    <3>1. Finished(v)
      BY <1>5, <2>1, <2>2 DEF ReleaseResize
    <3>2. ~Resizing(v)'
      BY <2>1, <3>1, Records DEF Finished, Resizing, TypeOK
    <3>3. QED BY <3>2 DEF EdgeStays
  <2>3. CASE v # grab[d].window
    <3>1. resize'[v] = resize[v] /\ loc'[v] = loc[v] /\ (v \in shifted => v \in shifted')
      BY <1>5, <2>1, <2>3 DEF ReleaseResize, Finished, TypeOK
    <3>2. QED BY <1>0, <2>1, <3>1, <1>5 DEF EdgeStays, Resizing
  <2>4. QED BY <2>2, <2>3
<1>6. CASE Cancel
  <2>1. UNCHANGED <<resize, place>> /\ Undisturbed' \subseteq Undisturbed
    BY <1>6 DEF Cancel, Undisturbed
  <2>2. QED BY <1>1, <2>1
<1>7. ASSUME NEW w \in Wayland, NEW i \in 1..Len(sent[w]), AckConfigure(w, i),
             NEW v \in Undisturbed' \cap Wayland
      PROVE  EdgeStays(v)'
  <2>1. UNCHANGED place /\ v \in Undisturbed /\ v \in Window
    BY <1>7, <1>0 DEF AckConfigure, Undisturbed
  <2>2. Resizing(v)' => resize'[v] = resize[v]
    BY <1>7, <2>1 DEF AckConfigure, EndsWith, Resizing, TypeOK
  <2>3. QED BY <1>0, <1>7, <2>1, <2>2 DEF EdgeStays, Resizing
<1>8. ASSUME NEW w \in Wayland, NEW wd \in Width, NEW offset \in Int, Commit(w, wd, offset),
             NEW v \in Undisturbed' \cap Wayland
      PROVE  EdgeStays(v)'
  <2>1. v \in Undisturbed /\ v \in alive /\ v \in Window
    BY <1>8, <1>0 DEF Commit, Undisturbed
  <2>2. Resizing(v)' => resize'[v] = resize[v] /\ Resizing(v)
    BY <1>8, <2>1, <1>0, Records DEF Commit, FinishResizing, Resizing, TypeOK
  <2> DEFINE hooked == IF Resizing(w) THEN HandleToplevelCommit(w, wd) ELSE Slots(alive)
  <2>3. loc' = [hooked EXCEPT ![w] = @ + offset] /\ DOMAIN hooked = Wayland
    BY <1>8 DEF Commit, HandleToplevelCommit, Slots, TypeOK
  <2>4. CASE v = w
    <3>1. CASE Resizing(w) /\ offset = 0
      <4>1. resize[w].far \in Far
        BY <3>1, <1>0, Records DEF Resizing, TypeOK
      <4>2. width'[w] = wd /\ loc'[w] = Anchored(resize[w].far, loc[w], wd) + 0
        BY <1>8, <2>3, <3>1 DEF Commit, HandleToplevelCommit, TypeOK
      <4>3. QED
        BY <2>2, <2>4, <4>1, <4>2 DEF EdgeStays, Anchored, Far, Width
    <3>2. CASE Resizing(w) /\ offset # 0
      <4>1. w \in shifted'
        BY <1>0, <1>8, <3>2 DEF Commit, Shifts
      <4>2. QED BY <2>4, <4>1 DEF EdgeStays
    <3>3. CASE ~Resizing(w)
      BY <2>2, <2>4, <3>3 DEF EdgeStays
    <3>4. QED BY <3>1, <3>2, <3>3
  <2>5. CASE v # w
    <3>1. width'[v] = width[v] /\ (v \in shifted => v \in shifted')
      BY <1>8, <2>5 DEF Commit, Shifts, TypeOK
    <3>2. hooked[v] = loc[v]
      BY <1>0, <1>8, <2>1, <2>5 DEF HandleToplevelCommit, Slots, TypeOK
    <3>3. loc'[v] = loc[v]
      BY <1>8, <2>3, <2>5, <3>2
    <3>4. QED BY <1>0, <1>8, <2>1, <2>2, <3>1, <3>3 DEF EdgeStays
  <2>6. QED BY <2>4, <2>5
<1>9. ASSUME NEW w \in Wayland, Destroy(w), NEW v \in Undisturbed' \cap Wayland
      PROVE  EdgeStays(v)'
  <2>1. v # w /\ v \in Undisturbed /\ v \in alive' /\ alive' \subseteq Window
    BY <1>9, <1>0 DEF Destroy, Undisturbed, TypeOK
  <2>2. resize'[v] = resize[v] /\ width'[v] = width[v] /\ (v \in shifted => v \in shifted')
    BY <1>9, <1>0, <2>1 DEF Destroy, TypeOK
  <2>3. loc'[v] = loc[v]
    BY <1>0, <1>9, <2>1 DEF Destroy, Slots
  <2>4. QED BY <1>0, <1>9, <2>1, <2>2, <2>3 DEF EdgeStays, Resizing
<1>10. ASSUME NEW w \in X11, CommitX11(w), NEW v \in Undisturbed' \cap Wayland
       PROVE  EdgeStays(v)'
  <2>1. UNCHANGED place /\ v \in Undisturbed /\ v \in Window
    BY <1>10, <1>0 DEF CommitX11, Undisturbed
  <2>2. Resizing(v)' => resize'[v] = resize[v]
    BY <1>10, <2>1, <1>0, Records DEF CommitX11, FinishResizing, Resizing, TypeOK
  <2>3. QED BY <1>0, <1>10, <2>1, <2>2 DEF EdgeStays, Resizing
<1>11. ASSUME NEW w \in Wayland, NEW x \in Int, MapElement(w, x),
              NEW v \in Undisturbed' \cap Wayland
       PROVE  EdgeStays(v)'
  <2>1. /\ UNCHANGED <<resize, width>> /\ v \in Undisturbed /\ v \in Window
        /\ v \in shifted => v \in shifted'
    BY <1>11, <1>0 DEF MapElement, Shifts, Undisturbed
  <2>2. CASE v = w
    <3>1. Resizing(v) => v \in shifted'
      BY <1>11, <2>1, <2>2 DEF MapElement, Shifts
    <3>2. QED BY <2>1, <3>1 DEF EdgeStays, Resizing
  <2>3. CASE v # w
    <3>1. loc'[v] = loc[v]
      BY <1>11, <2>3 DEF MapElement, TypeOK
    <3>2. QED BY <1>0, <1>11, <2>1, <3>1 DEF EdgeStays, Resizing
  <2>4. QED BY <2>2, <2>3
<1>12. CASE UNCHANGED vars
  <2>1. UNCHANGED <<resize, place>> /\ Undisturbed' \subseteq Undisturbed
    BY <1>12 DEF vars, Undisturbed
  <2>2. QED BY <1>1, <2>1
<1>13. QED
  BY Actions, <1>1, <1>2, <1>3, <1>4, <1>5, <1>6, <1>7, <1>8, <1>9, <1>10, <1>11, <1>12

\* In the floating layout the far edge of a window dragged by its near edge stays
\* where it was when the resize began, whatever widths the client commits, and
\* whenever (xdg.rs:937-966); when an offset, the other device or the socket moves
\* the window away, the next commit without an offset puts the edge back.
THEOREM EdgeHolds == Spec => []OppositeEdgeStays
<1>1. Init => OppositeEdgeStays
  BY Records DEF Init, OppositeEdgeStays, Undisturbed, Resizing, Window
<1>2. QED BY InitTypes, NextTypes, <1>1, NextEdge, PTL DEF Spec

-----------------------------------------------------------------------------
(* What the client is told.                                                *)

\* The invariant: only a window in the state Resizing was told so last.  The
\* property follows because such a window is held.
ToldInv == \A w \in Undisturbed \cap Wayland : told[w].resizing => Resizing(w)

\* After a configure the window was told its state, and no other anything.
LEMMA ConfiguredTells ==
  ASSUME TypeOK, NEW w \in Wayland, NEW state, Configured(w, state)
  PROVE  told'[w] = state /\ \A v \in Wayland \ {w} : told'[v] = told[v]
  BY DEF Configured, TypeOK

\* A step that tells no undisturbed window anything new about resizing, and ends
\* no resize, keeps the invariant.
LEMMA ToldKept ==
  ASSUME ToldInv, Undisturbed' \subseteq Undisturbed,
         \A v \in Undisturbed' \cap Wayland :
           /\ told'[v].resizing => told[v].resizing
           /\ Resizing(v) => Resizing(v)'
  PROVE  ToldInv'
  BY DEF ToldInv

\* Every step keeps the invariant.
LEMMA NextTold == TypeOK /\ HeldInv /\ ToldInv /\ [Next]_vars => ToldInv'
<1> SUFFICES ASSUME TypeOK, HeldInv, ToldInv, [Next]_vars PROVE ToldInv'
  OBVIOUS
<1> USE DEF client
<1>0. Undisturbed \subseteq Window /\ Wayland \subseteq Window
  BY DEF TypeOK, Undisturbed, Window
<1>1. ASSUME UNCHANGED <<resize, told>>, Undisturbed' \subseteq Undisturbed
      PROVE  ToldInv'
  BY <1>1, ToldKept DEF Resizing
<1>2. ASSUME NEW d \in Device, Press(d) \/ OtherRequest(d) \/ ReleaseOther(d)
      PROVE  UNCHANGED <<resize, told>> /\ Undisturbed' \subseteq Undisturbed
  BY <1>2 DEF Press, OtherRequest, ReleaseOther, Undisturbed
<1>3. ASSUME NEW d \in Device, NEW w \in Window, NEW far \in FarEdges(w),
             NEW open \in BOOLEAN, BeginResize(d, w, far, open)
      PROVE  ToldInv'
  <2>1. UNCHANGED told /\ Undisturbed' \subseteq Undisturbed \cup {w}
    BY <1>3 DEF BeginResize, Undisturbed
  <2>2. Resizing(w)' /\ \A v \in Window \ {w} : resize'[v] = resize[v]
    BY <1>3 DEF BeginResize, Resizing, TypeOK
  <2>3. QED BY <1>0, <2>1, <2>2 DEF ToldInv, Resizing
<1>4. ASSUME NEW d \in Device, NEW wd \in Width, Motion(d, wd)
      PROVE  ToldInv'
  <2> DEFINE w == grab[d].window
             state == [resizing |-> TRUE, width |-> wd]
  <2>1. UNCHANGED resize /\ Undisturbed' = Undisturbed /\ Holds(d, w)
    BY <1>4 DEF Motion, Undisturbed, Holds
  <2>2. CASE w \in Wayland /\ w \in alive /\ Configured(w, state)
    <3>1. \A v \in Wayland \ {w} : told'[v] = told[v]
      BY <2>2, ConfiguredTells
    <3>2. w \in Undisturbed => Resizing(w)
      BY <2>1 DEF HeldInv, HeldExactlyWhileResizing, Held
    <3>3. QED BY <2>1, <3>1, <3>2 DEF ToldInv, Resizing
  <2>3. CASE UNCHANGED told
    BY <1>1, <2>1, <2>3
  <2>4. QED BY <1>4, <2>2, <2>3 DEF Motion
<1>5. ASSUME NEW d \in Device, ReleaseResize(d)
      PROVE  ToldInv'
  <2> DEFINE w == grab[d].window
  <2>1. Undisturbed' = Undisturbed
    BY <1>5 DEF ReleaseResize, Undisturbed
  <2>2. \A v \in Undisturbed : v # w => resize'[v] = resize[v]
    BY <1>5, <1>0 DEF ReleaseResize, Finished, TypeOK
  <2>3. CASE w \in alive \cap Wayland
    <3>1. Configured(w, FinalState(d))
      BY <1>5, <2>3 DEF ReleaseResize
    <3>2. told'[w] = FinalState(d) /\ \A v \in Wayland \ {w} : told'[v] = told[v]
      BY <2>3, <3>1, ConfiguredTells
    <3>3. ~told'[w].resizing
      BY <3>2 DEF FinalState
    <3>4. QED BY <2>1, <2>2, <3>2, <3>3 DEF ToldInv, Resizing
  <2>4. CASE w \notin alive \cap Wayland
    <3>1. UNCHANGED told /\ w \notin Undisturbed \cap Wayland
      BY <1>5, <2>4 DEF ReleaseResize, Undisturbed
    <3>2. QED BY <2>1, <2>2, <3>1 DEF ToldInv, Resizing
  <2>5. QED BY <2>3, <2>4
<1>6. CASE Cancel
  <2>1. UNCHANGED <<resize, told>> /\ Undisturbed' \subseteq Undisturbed
    BY <1>6 DEF Cancel, Undisturbed
  <2>2. QED BY <1>1, <2>1
<1>7. ASSUME NEW w \in Wayland, NEW i \in 1..Len(sent[w]), AckConfigure(w, i)
      PROVE  ToldInv'
  <2>1. UNCHANGED told /\ Undisturbed' = Undisturbed
    BY <1>7 DEF AckConfigure, Undisturbed
  <2>2. \A v \in Window : Resizing(v) => Resizing(v)'
    BY <1>7 DEF AckConfigure, EndsWith, Resizing, TypeOK
  <2>3. QED BY <1>0, <2>1, <2>2, ToldKept
<1>8. ASSUME NEW w \in Window, FinishResizing(w)
      PROVE  \A v \in Window : Resizing(v) => Resizing(v)'
  BY <1>8 DEF FinishResizing, Resizing, TypeOK
<1>9. ASSUME NEW w \in Wayland, NEW wd \in Width, NEW offset \in Int, Commit(w, wd, offset)
      PROVE  ToldInv'
  <2>1. Undisturbed' = Undisturbed /\ Undisturbed \subseteq alive /\ FinishResizing(w)
    BY <1>9 DEF Commit, Undisturbed
  <2>2. ASSUME NEW v \in Undisturbed' \cap Wayland
        PROVE  told'[v].resizing => told[v].resizing
    <3>1. CASE Resizing(w)
      BY <1>9, <3>1 DEF Commit
    <3>2. CASE ~Resizing(w)
      <4>1. ArrangeLayout(alive, width') /\ alive \subseteq Window /\ v \in alive
        BY <1>9, <2>1, <2>2, <3>2 DEF Commit, TypeOK
      <4>2. QED BY <4>1, <2>2, ArrangedElsewhere
    <3>3. QED BY <3>1, <3>2
  <2>3. QED BY <1>0, <1>8, <2>1, <2>2, ToldKept
<1>10. ASSUME NEW w \in Wayland, Destroy(w)
       PROVE  ToldInv'
  <2>1. /\ Undisturbed' \subseteq Undisturbed \ {w} /\ Undisturbed' \subseteq alive'
        /\ alive' \subseteq Window /\ ArrangeLayout(alive', width)
    BY <1>10 DEF Destroy, Undisturbed, TypeOK
  <2>2. ASSUME NEW v \in Undisturbed' \cap Wayland
        PROVE  /\ told'[v].resizing => told[v].resizing
               /\ Resizing(v) => Resizing(v)'
    <3>1. told'[v].resizing = told[v].resizing
      BY <2>1, <2>2, ArrangedElsewhere
    <3>2. resize'[v] = resize[v]
      BY <1>0, <1>10, <2>1, <2>2 DEF Destroy, TypeOK
    <3>3. QED BY <3>1, <3>2 DEF Resizing
  <2>3. QED BY <2>1, <2>2, ToldKept
<1>11. ASSUME NEW w \in X11, CommitX11(w)
       PROVE  ToldInv'
  <2>1. UNCHANGED told /\ Undisturbed' = Undisturbed /\ FinishResizing(w) /\ w \in Window
    BY <1>11 DEF CommitX11, Undisturbed, Window
  <2>2. QED BY <1>0, <1>8, <2>1, ToldKept
<1>12. CASE UNCHANGED vars
  <2>1. UNCHANGED <<resize, told>> /\ Undisturbed' \subseteq Undisturbed
    BY <1>12 DEF vars, Undisturbed
  <2>2. QED BY <1>1, <2>1
<1>13. ASSUME NEW w \in Wayland, NEW x \in Int, MapElement(w, x)
       PROVE  ToldInv'
  <2>1. UNCHANGED <<resize, told>> /\ Undisturbed' \subseteq Undisturbed
    BY <1>13 DEF MapElement, Undisturbed
  <2>2. QED BY <1>1, <2>1
<1>14. QED
  BY Actions, <1>1, <1>2, <1>3, <1>4, <1>5, <1>6, <1>7, <1>9, <1>10, <1>11, <1>12, <1>13

\* A window nobody resizes was last told that it is not being resized, whatever
\* the layout and the other grabs told it meanwhile (grabs.rs:770, :817).
THEOREM ToldHolds == Spec => []ToldWhenOver
<1>1. Init => ToldInv
  BY DEF Init, ToldInv, Undisturbed, NotTold
<1>2. HeldInv /\ ToldInv => ToldWhenOver
  BY DEF HeldInv, HeldExactlyWhileResizing, ToldInv, ToldWhenOver
<1>3. QED BY InitTypes, NextTypes, InitHeld, NextHeld, NextTold, <1>1, <1>2, PTL DEF Spec

-----------------------------------------------------------------------------
(* What the client has acked when the resize ends.                         *)

\* The configures a window has not acked carry serials in the order they were
\* sent, none later than the counter.
SerialsInv ==
  \A w \in Wayland :
    /\ \A i \in 1..Len(sent[w]) : sent[w][i].serial <= serial
    /\ \A i, j \in 1..Len(sent[w]) : i < j => sent[w][i].serial <= sent[w][j].serial

\* While the release waits for an ack, what was sent since then is not Resizing.
\* FinalStateAcked alone is not inductive: the ack that ends the wait may have any
\* serial from that of the release on, and skips those before.
FinalAckInv ==
  \A w \in Undisturbed \cap Wayland :
    resize[w].state = "WaitingForFinalAck" =>
      \A i \in 1..Len(sent[w]) : sent[w][i].serial >= resize[w].serial => ~sent[w][i].resizing

FinalInv == SerialsInv /\ FinalAckInv /\ FinalStateAcked

\* What may happen to the configures of a window that acks nothing: they stay, or
\* one is added that says what the window is told.
Extended(w) ==
  \/ sent'[w] = sent[w]
  \/ /\ sent'[w] = Append(sent[w], [serial |-> serial + 1, resizing |-> told'[w].resizing])
     /\ serial' = serial + 1

\* A configure sent to one window extends its list and no other.
LEMMA ConfiguredExtends ==
  ASSUME TypeOK, NEW w \in Wayland, NEW state \in Told, Configured(w, state)
  PROVE  serial' >= serial /\ \A v \in Wayland : Extended(v)
<1>1. CASE state = told[w]
  BY <1>1 DEF Configured, Extended, TypeOK
<1>2. CASE state # told[w]
  <2>1. /\ told' = [told EXCEPT ![w] = state] /\ serial' = serial + 1
        /\ sent' = [sent EXCEPT ![w] =
                      Append(@, [serial |-> serial + 1, resizing |-> state.resizing])]
    BY <1>2 DEF Configured
  <2>2. told'[w] = state
    BY <2>1 DEF TypeOK
  <2>3. QED BY <2>1, <2>2 DEF Extended, TypeOK
<1>3. QED BY <1>1, <1>2

\* A pass of the layout extends the lists of the windows that live.
LEMMA ArrangedExtends ==
  ASSUME TypeOK, NEW living \in SUBSET Window, NEW widths, ArrangeLayout(living, widths)
  PROVE  /\ serial' >= serial
         /\ \A v \in Wayland \cap living : Extended(v)
         /\ \A v \in Wayland \ living : sent'[v] = <<>>
<1>1. serial' >= serial /\ \A v \in Wayland \ living : sent'[v] = <<>>
  BY DEF ArrangeLayout, TypeOK
<1>2. ASSUME NEW v \in Wayland \cap living
      PROVE  Extended(v)
  <2>1. told'[v].resizing = told[v].resizing
    BY ArrangedElsewhere
  <2>2. \/ sent'[v] = sent[v]
        \/ /\ sent'[v] = Append(sent[v], [serial |-> serial + 1, resizing |-> told[v].resizing])
           /\ serial' = serial + 1
    BY DEF ArrangeLayout
  <2>3. QED BY <2>1, <2>2 DEF Extended
<1>3. QED BY <1>1, <1>2

\* The members of an extended list.
LEMMA ExtendedMembers ==
  ASSUME TypeOK, NEW w \in Wayland, Extended(w), NEW i \in 1..Len(sent'[w])
  PROVE  \/ i \in 1..Len(sent[w]) /\ sent'[w][i] = sent[w][i]
         \/ /\ i = Len(sent[w]) + 1 /\ serial' = serial + 1
            /\ sent'[w][i] = [serial |-> serial + 1, resizing |-> told'[w].resizing]
<1>1. sent[w] \in Seq(Configure)
  BY DEF TypeOK
<1>2. CASE sent'[w] = sent[w]
  BY <1>2
<1>3. CASE sent'[w] # sent[w]
  <2> DEFINE c == [serial |-> serial + 1, resizing |-> told'[w].resizing]
  <2>1. sent'[w] = Append(sent[w], c) /\ serial' = serial + 1
    BY <1>3 DEF Extended
  <2> HIDE DEF c
  <2>2. /\ Len(sent'[w]) = Len(sent[w]) + 1 /\ sent'[w][Len(sent[w]) + 1] = c
        /\ \A j \in 1..Len(sent[w]) : sent'[w][j] = sent[w][j]
    BY <1>1, <2>1
  <2>3. Len(sent[w]) \in Nat
    BY <1>1
  <2>4. i \in 1..Len(sent[w]) \/ i = Len(sent[w]) + 1
    BY <2>2, <2>3
  <2>5. QED BY <2>1, <2>2, <2>4 DEF c
<1>4. QED BY <1>2, <1>3

\* Extending lists keeps the serials in order.
LEMMA SerialsKept ==
  ASSUME TypeOK, TypeOK', SerialsInv, serial' >= serial,
         \A w \in Wayland : Extended(w) \/ sent'[w] = <<>>
  PROVE  SerialsInv'
<1>1. ASSUME NEW w \in Wayland, Extended(w)
      PROVE  /\ \A i \in 1..Len(sent'[w]) : sent'[w][i].serial <= serial'
             /\ \A i, j \in 1..Len(sent'[w]) : i < j => sent'[w][i].serial <= sent'[w][j].serial
  <2>1. /\ \A i \in 1..Len(sent[w]) : sent[w][i] \in Configure /\ sent[w][i].serial <= serial
        /\ \A i, j \in 1..Len(sent[w]) : i < j => sent[w][i].serial <= sent[w][j].serial
    BY ElementOfSeq DEF SerialsInv, TypeOK
  <2>2. \A i \in 1..Len(sent'[w]) :
          \/ i \in 1..Len(sent[w]) /\ sent'[w][i] = sent[w][i]
          \/ i = Len(sent[w]) + 1 /\ serial' = serial + 1 /\ sent'[w][i].serial = serial + 1
    <3> TAKE i \in 1..Len(sent'[w])
    <3>1. \/ i \in 1..Len(sent[w]) /\ sent'[w][i] = sent[w][i]
          \/ /\ i = Len(sent[w]) + 1 /\ serial' = serial + 1
             /\ sent'[w][i] = [serial |-> serial + 1, resizing |-> told'[w].resizing]
      BY <1>1, ExtendedMembers
    <3>2. QED BY <3>1
  <2>3. serial \in Nat /\ serial' \in Nat /\ Len(sent[w]) \in Nat
    BY LenProperties DEF TypeOK
  <2>4. \A i \in 1..Len(sent[w]) : sent[w][i].serial \in Nat
    BY <2>1 DEF Configure
  <2>5. \A i \in 1..Len(sent'[w]) : sent'[w][i].serial <= serial'
    BY <2>1, <2>2, <2>3, <2>4
  <2>6. ASSUME NEW i \in 1..Len(sent'[w]), NEW j \in 1..Len(sent'[w]), i < j
        PROVE  sent'[w][i].serial <= sent'[w][j].serial
    <3>0. Len(sent'[w]) \in Nat
      BY LenProperties DEF TypeOK
    <3>1. i \in 1..Len(sent[w]) /\ sent'[w][i] = sent[w][i]
      <4>1. j \in 1..Len(sent[w]) \/ j = Len(sent[w]) + 1
        BY <2>2
      <4>2. i # Len(sent[w]) + 1
        BY <2>3, <2>6, <3>0, <4>1
      <4>3. QED BY <2>2, <4>2
    <3>2. CASE j \in 1..Len(sent[w]) /\ sent'[w][j] = sent[w][j]
      BY <2>1, <2>6, <3>1, <3>2
    <3>3. CASE sent'[w][j].serial = serial + 1
      BY <2>1, <2>3, <2>4, <3>1, <3>3
    <3>4. QED BY <2>2, <3>2, <3>3
  <2>7. QED BY <2>5, <2>6
<1>2. ASSUME NEW w \in Wayland, sent'[w] = <<>>
      PROVE  1..Len(sent'[w]) = {}
  BY <1>2
<1>3. QED BY <1>1, <1>2 DEF SerialsInv

\* A window whose list is only extended, and that waits for what it waited for or
\* is resized, keeps to the two facts: it is told no Resizing while it waits.
LEMMA FinalKept ==
  ASSUME TypeOK, FinalInv, ToldInv',
         NEW v \in Undisturbed' \cap Wayland, Extended(v),
         \/ v \in Undisturbed /\ resize'[v] = resize[v] /\ acked'[v] = acked[v]
         \/ resize'[v].state \in {"Resizing", "NotResizing"}
  PROVE  /\ resize'[v].state = "WaitingForFinalAck" =>
              \A i \in 1..Len(sent'[v]) :
                sent'[v][i].serial >= resize'[v].serial => ~sent'[v][i].resizing
         /\ resize'[v].state = "WaitingForCommit" =>
              ~acked'[v] /\ \A i \in 1..Len(sent'[v]) : ~sent'[v][i].resizing
<1>1. CASE resize'[v].state \in {"Resizing", "NotResizing"}
  BY <1>1
<1>2. CASE /\ v \in Undisturbed /\ resize'[v] = resize[v] /\ acked'[v] = acked[v]
           /\ resize'[v].state \in {"WaitingForFinalAck", "WaitingForCommit"}
  <2>1. ~told'[v].resizing
    BY <1>2 DEF ToldInv, Resizing
  <2>2. \A i \in 1..Len(sent'[v]) :
          (i \in 1..Len(sent[v]) /\ sent'[v][i] = sent[v][i]) \/ ~sent'[v][i].resizing
    <3> TAKE i \in 1..Len(sent'[v])
    <3>1. \/ i \in 1..Len(sent[v]) /\ sent'[v][i] = sent[v][i]
          \/ sent'[v][i] = [serial |-> serial + 1, resizing |-> told'[v].resizing]
      BY ExtendedMembers
    <3>2. QED BY <2>1, <3>1
  <2>3. QED BY <1>2, <2>2 DEF FinalInv, FinalAckInv, FinalStateAcked
<1>3. CASE /\ v \in Undisturbed /\ resize'[v] = resize[v] /\ acked'[v] = acked[v]
           /\ resize'[v].state \notin {"WaitingForFinalAck", "WaitingForCommit"}
  BY <1>3
<1>4. QED BY <1>1, <1>2, <1>3

\* The same for a step that is about no window's wait.
LEMMA AllFinalKept ==
  ASSUME TypeOK, TypeOK', FinalInv, ToldInv', serial' >= serial,
         \A v \in Wayland : Extended(v) \/ (sent'[v] = <<>> /\ v \notin Undisturbed'),
         \A v \in Undisturbed' \cap Wayland :
           \/ v \in Undisturbed /\ resize'[v] = resize[v] /\ acked'[v] = acked[v]
           \/ resize'[v].state \in {"Resizing", "NotResizing"}
  PROVE  FinalInv'
<1>1. SerialsInv'
  BY SerialsKept DEF FinalInv
<1>2. ASSUME NEW v \in Undisturbed' \cap Wayland
      PROVE  /\ resize'[v].state = "WaitingForFinalAck" =>
                  \A i \in 1..Len(sent'[v]) :
                    sent'[v][i].serial >= resize'[v].serial => ~sent'[v][i].resizing
             /\ resize'[v].state = "WaitingForCommit" =>
                  ~acked'[v] /\ \A i \in 1..Len(sent'[v]) : ~sent'[v][i].resizing
  BY FinalKept
<1>3. QED BY <1>1, <1>2 DEF FinalInv, FinalAckInv, FinalStateAcked

\* Every step keeps the two facts.
LEMMA NextFinal ==
  TypeOK /\ TypeOK' /\ HeldInv /\ ToldInv /\ ToldInv' /\ FinalInv /\ [Next]_vars => FinalInv'
<1> SUFFICES ASSUME TypeOK, TypeOK', HeldInv, ToldInv, ToldInv', FinalInv, [Next]_vars
             PROVE  FinalInv'
  OBVIOUS
<1> USE DEF client
<1>0. Undisturbed \subseteq Window /\ Wayland \subseteq Window /\ serial \in Nat
  BY DEF TypeOK, Undisturbed, Window
<1>1. ASSUME UNCHANGED <<resize, client, serial>>, Undisturbed' \subseteq Undisturbed
      PROVE  FinalInv'
  BY <1>0, <1>1, AllFinalKept DEF Extended
<1>2. ASSUME NEW d \in Device, Press(d) \/ OtherRequest(d) \/ ReleaseOther(d)
      PROVE  UNCHANGED <<resize, client, serial>> /\ Undisturbed' \subseteq Undisturbed
  BY <1>2 DEF Press, OtherRequest, ReleaseOther, Undisturbed
<1>3. ASSUME NEW d \in Device, NEW w \in Window, NEW far \in FarEdges(w),
             NEW open \in BOOLEAN, BeginResize(d, w, far, open)
      PROVE  FinalInv'
  <2>1. UNCHANGED <<client, serial>> /\ Undisturbed' \subseteq Undisturbed \cup {w}
    BY <1>3 DEF BeginResize, Undisturbed
  <2>2. /\ resize'[w].state = "Resizing"
        /\ \A v \in Window \ {w} : resize'[v] = resize[v]
    BY <1>3 DEF BeginResize, TypeOK
  <2>3. QED BY <1>0, <2>1, <2>2, AllFinalKept DEF Extended
<1>4. ASSUME NEW d \in Device, NEW wd \in Width, Motion(d, wd)
      PROVE  FinalInv'
  <2> DEFINE w == grab[d].window
             state == [resizing |-> TRUE, width |-> wd]
  <2>1. UNCHANGED <<resize, acked>> /\ Undisturbed' = Undisturbed
    BY <1>4 DEF Motion, Undisturbed
  <2>2. CASE w \in Wayland /\ Configured(w, state)
    <3>1. state \in Told
      BY ResizeGrabAssumption DEF Told, Width
    <3>2. serial' >= serial /\ \A v \in Wayland : Extended(v)
      BY <2>2, <3>1, ConfiguredExtends
    <3>3. QED BY <2>1, <3>2, AllFinalKept
  <2>3. CASE UNCHANGED <<client, serial>>
    BY <1>1, <2>1, <2>3
  <2>4. QED BY <1>4, <2>2, <2>3 DEF Motion
<1>5. ASSUME NEW d \in Device, ReleaseResize(d)
      PROVE  FinalInv'
  <2> DEFINE w == grab[d].window
  <2>1. Undisturbed' = Undisturbed /\ UNCHANGED acked /\ grab[d] \in ResizeSurfaceGrab
    BY <1>5, Records DEF ReleaseResize, Undisturbed, TypeOK
  <2>2. \A v \in Undisturbed : v # w => resize'[v] = resize[v]
    BY <1>5, <1>0 DEF ReleaseResize, Finished, TypeOK
  <2>3. CASE w \in alive \cap Wayland
    <3>1. Configured(w, FinalState(d)) /\ FinalState(d) \in Told
      BY <1>5, <2>1, <2>3, Records, ResizeGrabAssumption
         DEF ReleaseResize, FinalState, Told, Width
    <3>2. serial' >= serial /\ \A v \in Wayland : Extended(v)
      BY <2>3, <3>1, ConfiguredExtends
    <3>3. SerialsInv'
      BY <3>2, SerialsKept DEF FinalInv
    <3>4. ~told'[w].resizing
      BY <2>3, <3>1, ConfiguredTells DEF FinalState
    <3>5. /\ Finished(w) /\ w \in Window /\ w \notin X11
      BY <1>5, <1>0, <2>3, ResizeGrabAssumption DEF ReleaseResize
    <3>6. \/ resize'[w] = NotResizing
          \/ resize'[w] = [state |-> "WaitingForFinalAck", serial |-> serial + 1]
      BY <3>5 DEF Finished, TypeOK
    <3>7. ASSUME resize'[w] = [state |-> "WaitingForFinalAck", serial |-> serial + 1],
                 NEW i \in 1..Len(sent'[w]), sent'[w][i].serial >= serial + 1
          PROVE  ~sent'[w][i].resizing
      <4>1. \/ i \in 1..Len(sent[w]) /\ sent'[w][i] = sent[w][i]
            \/ sent'[w][i] = [serial |-> serial + 1, resizing |-> told'[w].resizing]
        BY <2>3, <3>2, ExtendedMembers
      <4>2. CASE i \in 1..Len(sent[w]) /\ sent'[w][i] = sent[w][i]
        <5>1. sent[w][i] \in Configure /\ sent[w][i].serial <= serial
          BY <2>3, <4>2, ElementOfSeq DEF TypeOK, FinalInv, SerialsInv
        <5>2. QED BY <1>0, <3>7, <4>2, <5>1 DEF Configure
      <4>3. CASE sent'[w][i] = [serial |-> serial + 1, resizing |-> told'[w].resizing]
        BY <3>4, <4>3
      <4>4. QED BY <4>1, <4>2, <4>3
    <3>8. resize'[w].state # "WaitingForCommit"
      BY <3>6 DEF NotResizing
    <3>9. resize'[w].state = "WaitingForFinalAck" =>
            \A i \in 1..Len(sent'[w]) :
              sent'[w][i].serial >= resize'[w].serial => ~sent'[w][i].resizing
      BY <3>6, <3>7 DEF NotResizing
    <3>10. ASSUME NEW v \in Undisturbed' \cap Wayland, v # w
           PROVE  /\ resize'[v].state = "WaitingForFinalAck" =>
                       \A i \in 1..Len(sent'[v]) :
                         sent'[v][i].serial >= resize'[v].serial => ~sent'[v][i].resizing
                  /\ resize'[v].state = "WaitingForCommit" =>
                       ~acked'[v] /\ \A i \in 1..Len(sent'[v]) : ~sent'[v][i].resizing
      <4>1. v \in Undisturbed /\ resize'[v] = resize[v] /\ acked'[v] = acked[v]
        BY <2>1, <2>2, <3>10
      <4>2. QED BY <3>2, <4>1, FinalKept
    <3>11. FinalAckInv'
      BY <3>9, <3>10 DEF FinalAckInv
    <3>12. FinalStateAcked'
      BY <3>8, <3>10 DEF FinalStateAcked
    <3>13. QED BY <3>3, <3>11, <3>12 DEF FinalInv
  <2>4. CASE w \notin alive \cap Wayland
    <3>1. UNCHANGED <<client, serial>> /\ w \notin Undisturbed \cap Wayland
      BY <1>5, <2>4 DEF ReleaseResize, Undisturbed
    <3>2. QED BY <1>0, <2>1, <2>2, <3>1, AllFinalKept DEF Extended
  <2>5. QED BY <2>3, <2>4
<1>6. CASE Cancel
  <2>1. UNCHANGED <<resize, client, serial>> /\ Undisturbed' \subseteq Undisturbed
    BY <1>6 DEF Cancel, Undisturbed
  <2>2. QED BY <1>1, <2>1
<1>7. ASSUME NEW w \in Wayland, NEW n \in 1..Len(sent[w]), AckConfigure(w, n)
      PROVE  FinalInv'
  <2>1. /\ UNCHANGED <<told, serial>> /\ Undisturbed' = Undisturbed /\ w \in Window
        /\ sent' = [sent EXCEPT ![w] = SubSeq(@, n + 1, Len(@))]
        /\ acked' = [acked EXCEPT ![w] = sent[w][n].resizing]
    BY <1>7, <1>0 DEF AckConfigure, Undisturbed
  <2>2. /\ sent[w] \in Seq(Configure) /\ Len(sent[w]) \in Nat
        /\ sent'[w] = SubSeq(sent[w], n + 1, Len(sent[w])) /\ acked'[w] = sent[w][n].resizing
        /\ \A v \in Wayland \ {w} : sent'[v] = sent[v] /\ acked'[v] = acked[v]
    BY <2>1, LenProperties DEF TypeOK
  <2>3. Len(sent'[w]) = Len(sent[w]) - n
        /\ \A i \in 1..Len(sent'[w]) : i + n \in 1..Len(sent[w]) /\ sent'[w][i] = sent[w][i + n]
    <3>1. n + 1 \in 1..(Len(sent[w]) + 1) /\ n \in Nat
      BY <2>2
    <3> DEFINE q == sent[w]
    <3>2. /\ Len(SubSeq(q, n + 1, Len(q))) = IF n + 1 <= Len(q) THEN Len(q) - (n + 1) + 1 ELSE 0
          /\ \A i \in 1..(Len(q) - (n + 1) + 1) : SubSeq(q, n + 1, Len(q))[i] = q[n + 1 + i - 1]
      <4>1. Len(q) \in Int /\ n + 1 \in Int /\ \A i \in (n + 1)..Len(q) : q[i] \in Configure
        BY <2>2, <3>1, ElementOfSeq
      <4> HIDE DEF q
      <4>2. QED BY <4>1, SubSeqProperties
    <3>3. n \in 1..Len(q) /\ Len(q) \in Nat /\ sent'[w] = SubSeq(q, n + 1, Len(q))
      BY <2>2
    <3>4. Len(q) = Len(sent[w]) /\ \A i : q[i] = sent[w][i]
      OBVIOUS
    <3> HIDE DEF q
    <3>5. Len(sent'[w]) = Len(q) - n
      BY <3>1, <3>2, <3>3
    <3>6. ASSUME NEW i \in 1..Len(sent'[w])
          PROVE  i + n \in 1..Len(q) /\ sent'[w][i] = q[i + n]
      <4>1. i \in 1..(Len(q) - (n + 1) + 1) /\ n + 1 + i - 1 = i + n /\ i + n \in 1..Len(q)
        BY <3>1, <3>3, <3>5
      <4>2. QED BY <3>2, <3>3, <4>1
    <3>7. QED BY <3>4, <3>5, <3>6
  <2>4. \A v \in Window \ {w} : resize'[v] = resize[v]
    BY <1>7, <2>1 DEF AckConfigure, TypeOK
  <2>5. SerialsInv'
    <3>1. /\ \A i \in 1..Len(sent'[w]) : sent'[w][i].serial <= serial'
          /\ \A i, j \in 1..Len(sent'[w]) : i < j => sent'[w][i].serial <= sent'[w][j].serial
      <4>1. /\ \A i \in 1..Len(sent[w]) : sent[w][i].serial <= serial
            /\ \A i, j \in 1..Len(sent[w]) : i < j => sent[w][i].serial <= sent[w][j].serial
        BY DEF FinalInv, SerialsInv
      <4>2. serial' = serial
        BY <2>1
      <4>3. \A i \in 1..Len(sent'[w]) : sent'[w][i].serial <= serial'
        BY <2>3, <4>1, <4>2
      <4>4. ASSUME NEW i \in 1..Len(sent'[w]), NEW j \in 1..Len(sent'[w]), i < j
            PROVE  sent'[w][i].serial <= sent'[w][j].serial
        <5>1. i + n < j + n
          BY <2>2, <4>4
        <5>2. sent[w][i + n].serial <= sent[w][j + n].serial
          BY <2>3, <4>1, <5>1
        <5>3. QED BY <2>3, <5>2
      <4>5. QED BY <4>3, <4>4
    <3>2. ASSUME NEW v \in Wayland, v # w
          PROVE  /\ \A i \in 1..Len(sent'[v]) : sent'[v][i].serial <= serial'
                 /\ \A i, j \in 1..Len(sent'[v]) :
                      i < j => sent'[v][i].serial <= sent'[v][j].serial
      <4>1. sent'[v] = sent[v] /\ serial' = serial
        BY <2>1, <2>2, <3>2
      <4>2. QED BY <4>1 DEF FinalInv, SerialsInv
    <3>3. QED BY <3>1, <3>2 DEF SerialsInv
  <2>6. w \in Undisturbed =>
          /\ resize'[w].state = "WaitingForFinalAck" =>
               \A i \in 1..Len(sent'[w]) :
                 sent'[w][i].serial >= resize'[w].serial => ~sent'[w][i].resizing
          /\ resize'[w].state = "WaitingForCommit" =>
               ~acked'[w] /\ \A i \in 1..Len(sent'[w]) : ~sent'[w][i].resizing
    <3> SUFFICES ASSUME w \in Undisturbed
                 PROVE  /\ resize'[w].state = "WaitingForFinalAck" =>
                             \A i \in 1..Len(sent'[w]) :
                               sent'[w][i].serial >= resize'[w].serial => ~sent'[w][i].resizing
                        /\ resize'[w].state = "WaitingForCommit" =>
                             ~acked'[w] /\ \A i \in 1..Len(sent'[w]) : ~sent'[w][i].resizing
      OBVIOUS
    <3>1. CASE EndsWith(w, sent[w][n])
      <4>1. resize'[w].state = "WaitingForCommit"
        BY <1>7, <2>1, <3>1 DEF AckConfigure, TypeOK
      <4>2. /\ resize[w].state = "WaitingForFinalAck"
            /\ sent[w][n].serial >= resize[w].serial
        BY <3>1 DEF EndsWith
      <4>3. ASSUME NEW i \in n..Len(sent[w])
            PROVE  ~sent[w][i].resizing
        <5>1. i \in 1..Len(sent[w]) /\ sent[w][i] \in Configure /\ sent[w][n] \in Configure
          BY <2>2, ElementOfSeq
        <5>2. sent[w][n].serial <= sent[w][i].serial
          BY <5>1 DEF FinalInv, SerialsInv, Configure
        <5>3. resize[w].serial \in Nat
          <6>1. resize[w] \in ResizeState
            BY <2>1 DEF TypeOK
          <6>2. QED BY <4>2, <6>1 DEF ResizeState, NotResizing
        <5>4. sent[w][i].serial >= resize[w].serial
          BY <4>2, <5>1, <5>2, <5>3 DEF Configure
        <5>5. QED BY <4>2, <5>1, <5>4 DEF FinalInv, FinalAckInv
      <4>4. ~acked'[w]
        BY <2>2, <4>3
      <4>5. \A i \in 1..Len(sent'[w]) : ~sent'[w][i].resizing
        BY <2>2, <2>3, <4>3
      <4>6. QED BY <4>1, <4>4, <4>5
    <3>2. CASE ~EndsWith(w, sent[w][n])
      <4>1. resize'[w] = resize[w]
        BY <1>7, <3>2 DEF AckConfigure
      <4>2. QED BY <2>2, <2>3, <4>1 DEF FinalInv, FinalAckInv, FinalStateAcked
    <3>3. QED BY <3>1, <3>2
  <2>7. ASSUME NEW v \in Undisturbed' \cap Wayland, v # w
        PROVE  /\ v \in Undisturbed \cap Wayland /\ resize'[v] = resize[v]
               /\ sent'[v] = sent[v] /\ acked'[v] = acked[v]
    BY <1>0, <2>1, <2>2, <2>4, <2>7
  <2>8. ASSUME NEW v \in Undisturbed' \cap Wayland
        PROVE  /\ resize'[v].state = "WaitingForFinalAck" =>
                    \A i \in 1..Len(sent'[v]) :
                      sent'[v][i].serial >= resize'[v].serial => ~sent'[v][i].resizing
               /\ resize'[v].state = "WaitingForCommit" =>
                    ~acked'[v] /\ \A i \in 1..Len(sent'[v]) : ~sent'[v][i].resizing
    <3>1. CASE v = w
      BY <1>0, <2>1, <2>6, <3>1
    <3>2. CASE v # w
      <4>1. /\ v \in Undisturbed \cap Wayland /\ resize'[v] = resize[v]
            /\ sent'[v] = sent[v] /\ acked'[v] = acked[v]
        BY <2>7, <3>2
      <4>2. QED BY <4>1 DEF FinalInv, FinalAckInv, FinalStateAcked
    <3>3. QED BY <3>1, <3>2
  <2>9. FinalAckInv' /\ FinalStateAcked'
    BY <2>8 DEF FinalAckInv, FinalStateAcked
  <2>10. QED BY <2>5, <2>9 DEF FinalInv
<1>8. ASSUME NEW w \in Window, FinishResizing(w)
      PROVE  \A v \in Window : resize'[v] = resize[v] \/ resize'[v].state = "NotResizing"
  BY <1>8 DEF FinishResizing, NotResizing, TypeOK
<1>9. ASSUME NEW w \in Wayland, NEW wd \in Width, NEW offset \in Int, Commit(w, wd, offset)
      PROVE  FinalInv'
  <2>1. /\ Undisturbed' = Undisturbed /\ UNCHANGED acked /\ FinishResizing(w)
        /\ alive' = alive /\ alive \subseteq Window
    BY <1>9 DEF Commit, Undisturbed, TypeOK
  <2>2. CASE Resizing(w)
    <3>1. UNCHANGED <<told, sent, serial>>
      BY <1>9, <2>2 DEF Commit
    <3>2. QED BY <1>0, <1>8, <2>1, <3>1, AllFinalKept DEF Extended
  <2>3. CASE ~Resizing(w)
    <3>1. ArrangeLayout(alive, width')
      BY <1>9, <2>3 DEF Commit
    <3>2. /\ serial' >= serial
          /\ \A v \in Wayland \cap alive : Extended(v)
          /\ \A v \in Wayland \ alive : sent'[v] = <<>>
      BY <2>1, <3>1, ArrangedExtends
    <3>3. \A v \in Wayland : Extended(v) \/ (sent'[v] = <<>> /\ v \notin Undisturbed')
      BY <2>1, <3>2 DEF Undisturbed
    <3>4. QED BY <1>0, <1>8, <2>1, <3>2, <3>3, AllFinalKept
  <2>4. QED BY <2>2, <2>3
<1>10. ASSUME NEW w \in Wayland, Destroy(w)
       PROVE  FinalInv'
  <2>1. /\ Undisturbed' \subseteq Undisturbed \ {w} /\ Undisturbed' \subseteq alive'
        /\ alive' \subseteq Window /\ ArrangeLayout(alive', width)
    BY <1>10 DEF Destroy, Undisturbed, TypeOK
  <2>2. /\ serial' >= serial
        /\ \A v \in Wayland \cap alive' : Extended(v)
        /\ \A v \in Wayland \ alive' : sent'[v] = <<>>
    BY <2>1, ArrangedExtends
  <2>3. \A v \in Wayland \ {w} : resize'[v] = resize[v] /\ acked'[v] = acked[v]
    BY <1>0, <1>10 DEF Destroy, TypeOK
  <2>4. \A v \in Wayland : Extended(v) \/ (sent'[v] = <<>> /\ v \notin Undisturbed')
    BY <2>1, <2>2
  <2>5. QED BY <2>1, <2>2, <2>3, <2>4, AllFinalKept
<1>11. ASSUME NEW w \in X11, CommitX11(w)
       PROVE  FinalInv'
  <2>1. /\ UNCHANGED <<client, serial>> /\ Undisturbed' = Undisturbed /\ FinishResizing(w)
        /\ w \in Window
    BY <1>11 DEF CommitX11, Undisturbed, Window
  <2>2. QED BY <1>0, <1>8, <2>1, AllFinalKept DEF Extended
<1>12. CASE UNCHANGED vars
  <2>1. UNCHANGED <<resize, client, serial>> /\ Undisturbed' \subseteq Undisturbed
    BY <1>12 DEF vars, Undisturbed
  <2>2. QED BY <1>1, <2>1
<1>13. ASSUME NEW w \in Wayland, NEW x \in Int, MapElement(w, x)
       PROVE  FinalInv'
  <2>1. UNCHANGED <<resize, client, serial>> /\ Undisturbed' \subseteq Undisturbed
    BY <1>13 DEF MapElement, Undisturbed
  <2>2. QED BY <1>1, <2>1
<1>14. QED
  BY Actions, <1>1, <1>2, <1>3, <1>4, <1>5, <1>6, <1>7, <1>9, <1>10, <1>11, <1>12, <1>13

\* When the resize waits for the client's final commit, nothing the client has
\* acked or may still ack says Resizing, whichever configures it skipped and
\* whatever the layout sent in between (xdg.rs:370-420).
THEOREM FinalHolds == Spec => []FinalStateAcked
<1>1. Init => FinalInv
  <2> SUFFICES ASSUME Init PROVE FinalInv
    OBVIOUS
  <2>1. ASSUME NEW w \in Wayland PROVE 1..Len(sent[w]) = {}
    <3>1. sent[w] = <<>>
      BY DEF Init
    <3>2. QED BY <3>1
  <2>2. ASSUME NEW w \in Window PROVE resize[w].state = "NotResizing"
    <3>1. resize[w] = NotResizing
      BY DEF Init
    <3>2. QED BY <3>1 DEF NotResizing
  <2>3. QED
    BY <2>1, <2>2 DEF FinalInv, SerialsInv, FinalAckInv, FinalStateAcked, Window
<1>2. FinalInv => FinalStateAcked
  BY DEF FinalInv
<1>3. Init => ToldInv
  BY DEF Init, ToldInv, Undisturbed, NotTold
<1>4. QED
  BY InitTypes, NextTypes, InitHeld, NextHeld, NextTold, NextFinal, <1>1, <1>2, <1>3, PTL DEF Spec
=============================================================================
