----------------------------- MODULE ResizeGrab -----------------------------
(***************************************************************************)
(* Interactive resizing (shell/grabs.rs, shell/xdg.rs, shell/x11.rs,       *)
(* shell/mod.rs, layout.rs): the grab a pointer or a touch holds, the      *)
(* ResizeState kept with the surface, and the configure, ack and commit    *)
(* exchange with the client.                                               *)
(*                                                                         *)
(* The three are tied together by nothing but the order of the calls: the  *)
(* grab is replaced by any request that carries the serial it began with,  *)
(* the client acks and commits when it likes, and every commit may re-tile *)
(* every window.                                                           *)
(*                                                                         *)
(* One axis is modelled: a resize drags the near edge of the window (LEFT  *)
(* or TOP) and the far one stays, or the location does.  The Wayland       *)
(* windows belong to one client, each has committed and is centered;       *)
(* window animations are off, so that a plan of the layout moves a window  *)
(* at once.  The places of X11 windows are left out.                       *)
(***************************************************************************)
EXTENDS Integers, Sequences

CONSTANTS
  Wayland, X11,   \* the toplevel windows of each kind
  NoEdge,         \* the far edge of a resize that keeps the location
  MaxWidth,       \* bound: widths after the clamp to the client's limits, and
                  \* far edges that a resize begins with
  Place,          \* bound: where others, and offsets, move windows to
  Offset,         \* what clients add to the place of their windows (buffer_delta)
  SlotWidth,      \* the width of a window's slot in the tiling layout, at x = 0
  MaxSerial       \* bound: no release after this many configures

Window == Wayland \cup X11

ASSUME ResizeGrabAssumption ==
  /\ Wayland \cap X11 = {}
  /\ MaxWidth \in Nat \ {0}
  /\ SlotWidth \in 1..MaxWidth
  /\ MaxSerial \in Nat
  /\ Place \cup Offset \subseteq Int
  /\ NoEdge \notin Int

VARIABLES
  tiling,     \* config.layout.layout is not Floating
  grab,       \* the grab of each device
  resize,     \* SurfaceData.resize_state
  loc, width, \* where the space has a Wayland window, its geometry's width
  told,       \* the state of the last configure sent to a window
  sent,       \* the configures its client has not acked
  acked,      \* the state of the last acked configure says Resizing
  current,    \* the same, of the last acked configure at the last commit
  alive,      \* the windows not destroyed
  serial,     \* SERIAL_COUNTER: the serial of the last configure
  disturbed,  \* history: windows whose resize another grab replaced or shared,
              \* or that was cancelled, since it last began alone
  shifted     \* history: windows that something else has moved during their resize,
              \* since the commit handler last put the far edge back

place == <<loc, width, shifted>>
client == <<told, sent, acked, current>>
vars == <<tiling, grab, resize, place, client, alive, serial, disturbed>>

Device == {"pointer", "touch"}
Width == 1..MaxWidth

NoGrab == [kind |-> "none"]
Click == [kind |-> "click", open |-> TRUE]   \* any grab that is no resize
NotResizing == [state |-> "NotResizing"]
NotTold == [resizing |-> FALSE, width |-> 0]

Holds(d, w) == grab[d].kind = "resize" /\ grab[d].window = w
Held(w) == \E d \in Device : Holds(d, w)
Resized(d) == {w \in Window : Holds(d, w)}
Resizing(w) == resize[w].state = "Resizing"

Init ==
  /\ tiling \in BOOLEAN
  /\ grab = [d \in Device |-> NoGrab]
  /\ resize = [w \in Window |-> NotResizing]
  /\ loc = [w \in Wayland |-> 0]
  /\ width = [w \in Wayland |-> SlotWidth]
  /\ told = [w \in Wayland |-> NotTold]
  /\ sent = [w \in Wayland |-> <<>>]
  /\ acked = [w \in Wayland |-> FALSE] /\ current = [w \in Wayland |-> FALSE]
  /\ alive = Window
  /\ serial = 0
  /\ disturbed = {} /\ shifted = {}
-----------------------------------------------------------------------------
(* What the handlers share.                                                *)

\* The window w, which may be in a resize, is moved by something else.
Shifts(w) == shifted' = shifted \cup ({w} \cap {v \in Window : Resizing(v)})

\* with_pending_state and send_pending_configure: nothing is sent when nothing
\* changed.
Configured(w, state) ==
  IF state = told[w]
  THEN UNCHANGED <<told, sent, serial>>
  ELSE /\ told' = [told EXCEPT ![w] = state]
       /\ serial' = serial + 1
       /\ sent' = [sent EXCEPT ![w] =
                     Append(@, [serial |-> serial + 1, resizing |-> state.resizing])]

\* ResizeData, reduced to the edge that stays: the far one when the near one is
\* dragged.  An X11 window's is left out.
FarEdges(w) ==
  {NoEdge} \cup (IF w \in Wayland THEN {loc[w] + width[w]} \cap 1..MaxWidth ELSE {})

\* The location that keeps the far edge in place.
Anchored(far, x, wd) == IF far = NoEdge THEN x ELSE far - wd

\* Where a pass of the layout puts the windows that live.
Slots(living) == [w \in Wayland |-> IF w \in living /\ ~tiling THEN loc[w] ELSE 0]

\* arrange_layout of the windows that live, with the widths given: those that
\* have another width than their slot are asked for it; a floating layout does
\* nothing.  The configures of one pass go to different windows, and share a
\* serial.  What was kept of a destroyed window is gone.
ArrangeLayout(living, widths) ==
  LET asked == {w \in Wayland \cap living :
                  tiling /\ widths[w] # SlotWidth /\ told[w].width # SlotWidth}
      kept(f, none) == [w \in Wayland |-> IF w \in living THEN f[w] ELSE none]
      configure(w) == [serial |-> serial + 1, resizing |-> told[w].resizing]
  IN  /\ told' = kept([w \in Wayland |->
                    IF w \in asked THEN [told[w] EXCEPT !.width = SlotWidth]
                    ELSE told[w]], NotTold)
      /\ sent' = kept([w \in Wayland |->
                    IF w \in asked THEN Append(sent[w], configure(w))
                    ELSE sent[w]], <<>>)
      /\ serial' = IF asked # {} THEN serial + 1 ELSE serial

-----------------------------------------------------------------------------
(* Grabs begin.                                                            *)

\* A press or a touch on the client's surface; the client learns its serial.
Press(d) ==
  /\ grab[d] = NoGrab
  /\ grab' = [grab EXCEPT ![d] = Click]
  /\ UNCHANGED <<tiling, resize, place, client, alive, serial, disturbed>>

\* A mutated BeginResize: last_window_size is only known after a motion.
BeginResizeUnsized(d, w, far, open) ==
  /\ w \in alive
  /\ resize' = [resize EXCEPT ![w] = [state |-> "Resizing", far |-> far]]
  /\ grab' = [grab EXCEPT ![d] =
                [kind |-> "resize", open |-> open, window |-> w, far |-> far,
                 last |-> 0]]
  /\ disturbed' = disturbed \ {w} /\ shifted' = shifted \ {w}
  /\ UNCHANGED <<tiling, loc, width, client, alive, serial>>

\* The common end of the three ways to begin: `open` says that the client can
\* still name the serial of the new grab, and that it began on its surface.
BeginResize(d, w, far, open) ==
  /\ w \in alive
  /\ resize' = [resize EXCEPT ![w] = [state |-> "Resizing", far |-> far]]
  /\ grab' = [grab EXCEPT ![d] =
                [kind |-> "resize", open |-> open, window |-> w, far |-> far,
                 last |-> IF w \in Wayland THEN width[w] ELSE SlotWidth]]
  /\ disturbed' = LET shared == {v \in {w} : \E e \in Device \ {d} : Holds(e, v)}
                  IN  ((disturbed \cup Resized(d)) \ {w}) \cup shared
  /\ shifted' = shifted \ {w}
  /\ UNCHANGED <<tiling, loc, width, client, alive, serial>>

\* xdg_toplevel.resize: any grab that has the serial will do, one that an
\* earlier request installed included.
ResizeRequest(d, w, far) ==
  /\ grab[d] # NoGrab /\ grab[d].open
  /\ BeginResize(d, w, far, TRUE)

\* The X11 request: the pointer is grabbed, by whatever grab; a new serial.
ResizeRequestX11(w, far) ==
  /\ grab["pointer"] # NoGrab
  /\ BeginResize("pointer", w, far, FALSE)

\* The resize modifier and a click, a gesture of the floating layout only.
ModifierResize(w, far) ==
  /\ ~tiling
  /\ BeginResize("pointer", w, far, FALSE)

\* xdg_toplevel.move or xdg_popup.grab with the serial of the grab; a resize it
\* replaces is told nothing, since `unset` is empty.
OtherRequest(d) ==
  /\ grab[d] # NoGrab /\ grab[d].open
  /\ grab' = [grab EXCEPT ![d] = Click]
  /\ disturbed' = disturbed \cup Resized(d)
  /\ UNCHANGED <<tiling, resize, place, client, alive, serial>>
-----------------------------------------------------------------------------
(* The device moves, is released, or the touch is cancelled.               *)

Drop(d) == grab' = [grab EXCEPT ![d] = NoGrab]

\* The grab of a destroyed window ends, any other asks for the new width.  A
\* motion leaves a serial for the release.
Motion(d, wd) ==
  /\ grab[d].kind = "resize" /\ serial + 1 < MaxSerial
  /\ LET w == grab[d].window
     IN  \/ /\ w \notin alive
            /\ Drop(d)
            /\ UNCHANGED <<client, serial>>
         \/ /\ w \in alive
            /\ UNCHANGED <<acked, current>>
            /\ IF w \in Wayland
               THEN /\ grab' = [grab EXCEPT ![d].last = wd]
                    /\ Configured(w, [resizing |-> TRUE, width |-> wd])
               ELSE UNCHANGED <<grab, told, sent, serial>>
  /\ UNCHANGED <<tiling, resize, place, alive, disturbed>>

\* What the resize waits for now: an X11 window acks nothing.  A window found in
\* another state is reset.  Nobody reads the ResizeData of the later states.  The
\* serial is the first that a configure may have after the release, one more than
\* the event's own.
Finished(w) ==
  resize' = [resize EXCEPT ![w] =
               IF ~Resizing(w) THEN NotResizing
               ELSE IF w \in X11 THEN [state |-> "WaitingForCommit"]
               ELSE [state |-> "WaitingForFinalAck", serial |-> serial + 1]]

\* A mutated FinalState: the Resizing state is not unset.
FinalStateKept(d) == [resizing |-> TRUE, width |-> grab[d].last]

\* What a window is told at the end.
FinalState(d) == [resizing |-> FALSE, width |-> grab[d].last]

\* The last button or the finger is up: the window is put where the far edge is
\* kept with the width it has by now.
ReleaseResize(d) ==
  LET w == grab[d].window
  IN  /\ grab[d].kind = "resize" /\ serial < MaxSerial
      /\ Drop(d)
      /\ IF w \in alive THEN Finished(w) ELSE UNCHANGED resize
      /\ shifted' = shifted \ {w}
      /\ IF w \in alive \cap Wayland
         THEN /\ Configured(w, FinalState(d))
              /\ loc' = [loc EXCEPT ![w] = Anchored(grab[d].far, @, width[w])]
         ELSE UNCHANGED <<told, sent, serial, loc>>
      /\ UNCHANGED <<tiling, width, acked, current, alive, disturbed>>

PointerMotion(wd) == Motion("pointer", wd)
TouchMotion(wd) == Motion("touch", wd)
PointerButton == ReleaseResize("pointer")
TouchUp == ReleaseResize("touch")

\* The end of a grab of another kind.
ReleaseOther(d) ==
  /\ grab[d] = Click
  /\ Drop(d)
  /\ UNCHANGED <<tiling, resize, place, client, alive, serial, disturbed>>

\* The touch grabs only unset themselves.
Cancel ==
  /\ grab["touch"] # NoGrab
  /\ Drop("touch")
  /\ disturbed' = disturbed \cup Resized("touch")
  /\ UNCHANGED <<tiling, resize, place, client, alive, serial>>
-----------------------------------------------------------------------------
(* Others move windows while they are resized.                             *)

MapElement(w, x) ==
  /\ w \in Wayland \cap alive
  /\ loc' = [loc EXCEPT ![w] = x]
  /\ Shifts(w)
  /\ UNCHANGED <<tiling, grab, resize, width, client, alive, serial, disturbed>>

\* The motion of a move grab, one of the grabs of another kind.
MoveMotion(d, w, x) == grab[d] = Click /\ MapElement(w, x)

\* ipc_move_window.
IpcMoveWindow(w, x) == MapElement(w, x)
-----------------------------------------------------------------------------
(* The client answers.                                                     *)

\* A mutated EndsWith: any acknowledgement will do.
EndsWithAny(w, configure) ==
  /\ resize[w].state = "WaitingForFinalAck"
  /\ current[w]

\* Whether the ack of this configure is the one the resize waits for.
EndsWith(w, configure) ==
  /\ resize[w].state = "WaitingForFinalAck"
  /\ configure.serial >= resize[w].serial
  /\ current[w]

\* The client acks the i-th configure it has, and with it those before.
AckConfigure(w, i) ==
  /\ w \in alive
  /\ sent' = [sent EXCEPT ![w] = SubSeq(@, i + 1, Len(@))]
  /\ acked' = [acked EXCEPT ![w] = sent[w][i].resizing]
  /\ resize' = IF EndsWith(w, sent[w][i])
               THEN [resize EXCEPT ![w] = [state |-> "WaitingForCommit"]]
               ELSE resize
  /\ UNCHANGED <<tiling, grab, place, told, current, alive, serial, disturbed>>

\* A mutated FinishResizing: every state ends with the commit.
FinishAny(w) == resize' = [resize EXCEPT ![w] = NotResizing]

\* A mutated FinishResizing: the state stays.
FinishNever(w) == resize' = resize

\* The end of the commit handler.
FinishResizing(w) ==
  resize' = IF resize[w].state = "WaitingForCommit"
            THEN [resize EXCEPT ![w] = NotResizing] ELSE resize

\* A mutated HandleToplevelCommit: the window stays where it is.
HandleToplevelStay(w, wd) == loc

\* Where a window that is being resized goes, with the width it commits.
HandleToplevelCommit(w, wd) == [loc EXCEPT ![w] = Anchored(resize[w].far, @, wd)]

\* The commit of a Wayland toplevel, with a width of the client's choice.  Its
\* post-commit hook comes first, which does not re-tile while this window is
\* resized; then the handler adds the offset the client attached the buffer at.
Commit(w, wd, offset) ==
  /\ w \in Wayland \cap alive
  /\ width' = [width EXCEPT ![w] = wd]
  /\ current' = [current EXCEPT ![w] = acked[w]]
  /\ FinishResizing(w)
  /\ LET hooked == IF Resizing(w) THEN HandleToplevelCommit(w, wd) ELSE Slots(alive)
     IN  /\ loc' = [hooked EXCEPT ![w] = @ + offset]
         /\ offset # 0 => loc'[w] \in Place
  /\ IF offset # 0 THEN Shifts(w) ELSE shifted' = shifted \ {w}
  /\ IF Resizing(w) THEN UNCHANGED <<told, sent, serial>> ELSE ArrangeLayout(alive, width')
  /\ UNCHANGED <<tiling, grab, acked, alive, disturbed>>

\* An X11 window has no post-commit hook.
CommitX11(w) ==
  /\ w \in X11
  /\ FinishResizing(w)
  /\ UNCHANGED <<tiling, grab, place, client, alive, serial, disturbed>>

\* toplevel_destroyed; a grab on the window finds out later.
Destroy(w) ==
  /\ w \in Wayland \cap alive
  /\ alive' = alive \ {w}
  /\ resize' = [resize EXCEPT ![w] = NotResizing]
  /\ disturbed' = disturbed \ {w} /\ shifted' = shifted \ {w}
  /\ acked' = [acked EXCEPT ![w] = FALSE] /\ current' = [current EXCEPT ![w] = FALSE]
  /\ width' = [width EXCEPT ![w] = SlotWidth]
  /\ loc' = Slots(alive')
  /\ ArrangeLayout(alive', width)
  /\ UNCHANGED <<tiling, grab>>
-----------------------------------------------------------------------------
Next ==
  \/ \E d \in Device :
       \/ Press(d) \/ OtherRequest(d) \/ ReleaseOther(d)
       \/ \E w \in Wayland : \E far \in FarEdges(w) : ResizeRequest(d, w, far)
  \/ \E wd \in Width : PointerMotion(wd) \/ TouchMotion(wd)
  \/ PointerButton \/ TouchUp \/ Cancel
  \/ \E w \in X11 : \E far \in FarEdges(w) : ResizeRequestX11(w, far)
  \/ \E w \in Window : \E far \in FarEdges(w) : ModifierResize(w, far)
  \/ \E w \in Wayland :
       \/ \E i \in 1..Len(sent[w]) : AckConfigure(w, i)
       \/ \E wd \in Width, offset \in Offset \cup {0} : Commit(w, wd, offset)
       \/ \E x \in Place : IpcMoveWindow(w, x) \/ \E d \in Device : MoveMotion(d, w, x)
       \/ Destroy(w)
  \/ \E w \in X11 : CommitX11(w)

\* The protocol obliges a client to ack what it is sent and to commit then.
Fairness ==
  /\ \A w \in Wayland :
       /\ WF_vars(\E i \in 1..Len(sent[w]) : AckConfigure(w, i))
       /\ WF_vars(\E wd \in Width, offset \in Offset \cup {0} : Commit(w, wd, offset))
  /\ \A w \in X11 : WF_vars(CommitX11(w))

Spec == Init /\ [][Next]_vars
FairSpec == Spec /\ Fairness
-----------------------------------------------------------------------------
Far == Int \cup {NoEdge}
ResizeSurfaceGrab ==
  [kind : {"resize"}, open : BOOLEAN, window : Window, far : Far, last : Width]
ResizeState ==
  {NotResizing} \cup [state : {"Resizing"}, far : Far]
  \cup [state : {"WaitingForFinalAck"}, serial : Nat] \cup [state : {"WaitingForCommit"}]
Told == [resizing : BOOLEAN, width : 0..MaxWidth]
Configure == [serial : Nat, resizing : BOOLEAN]

\* Type correctness of the state.
TypeOK ==
  /\ tiling \in BOOLEAN
  /\ grab \in [Device -> {NoGrab, Click} \cup ResizeSurfaceGrab]
  /\ resize \in [Window -> ResizeState]
  /\ loc \in [Wayland -> Int] /\ width \in [Wayland -> Width]
  /\ told \in [Wayland -> Told]
  /\ sent \in [Wayland -> Seq(Configure)]
  /\ acked \in [Wayland -> BOOLEAN] /\ current \in [Wayland -> BOOLEAN]
  /\ alive \cup disturbed \cup shifted \subseteq Window
  /\ serial \in Nat

Undisturbed == alive \ disturbed

\* A window that one grab resizes is in the state Resizing, and with the data of
\* the grab, until the grab is released, whatever the client acks and commits in
\* the meantime; afterwards it never is.  The release relies on it
\* (grabs.rs:845-856), and so does the post-commit hook (xdg.rs:169-177).
HeldExactlyWhileResizing ==
  \A w \in Undisturbed :
    /\ Held(w) <=> Resizing(w)
    /\ \A d \in Device : Holds(d, w) => grab[d].far = resize[w].far

\* The edge opposite to the dragged one stays where it was when the resize began,
\* however late the client's commits are and whatever widths they have
\* (xdg.rs:937-966).  Something else may move the window away: an offset of the
\* client's, the other device, the socket.  Then the next commit without an offset
\* puts the edge back.  The tiling layout moves windows on its own.
OppositeEdgeStays ==
  ~tiling => \A w \in (Undisturbed \cap Wayland) \ shifted :
    Resizing(w) /\ resize[w].far # NoEdge => loc[w] + width[w] = resize[w].far

\* A window nobody resizes was last told that it is not being resized: the two
\* places that set and unset the Resizing state (grabs.rs:770, :817) leave no
\* client drawing itself as if it were (the pending state outlives the grab).
ToldWhenOver ==
  \A w \in Undisturbed \cap Wayland : ~Held(w) => ~told[w].resizing

\* When the resize waits for the client's final commit, the state that the commit
\* will apply is not the Resizing one, and no configure that says so is still to
\* be acked: an ack of an older configure, of this resize or of an earlier one,
\* does not end the wait (xdg.rs:370-420).
FinalStateAcked ==
  \A w \in Undisturbed \cap Wayland :
    resize[w].state = "WaitingForCommit" =>
      ~acked[w] /\ \A i \in 1..Len(sent[w]) : ~sent[w][i].resizing

\* The client's part of a release that can be recognised (xdg.rs:376-403): the
\* final configure is on its way, and all that the client has seen of the resize
\* says Resizing.  A release that changes nothing sends no configure, and a client
\* that skips to the final one was never resizing: both wait for ever.
Recognisable(w) ==
  /\ resize[w].state = "WaitingForFinalAck"
  /\ acked[w] /\ current[w]
  /\ \E i \in 1..Len(sent[w]) : sent[w][i].serial >= resize[w].serial
  /\ \A i \in 1..Len(sent[w]) :
       sent[w][i].serial < resize[w].serial => sent[w][i].resizing

\* Such a release comes to rest, as does every window that waits for the commit:
\* however the acks and the commits interleave, the final ack is recognised and
\* a commit after it ends the resize (unless a new one begins).
ComesToRest ==
  \A w \in Window :
    (/\ w \in Undisturbed
     /\ \/ resize[w].state = "WaitingForCommit"
        \/ w \in Wayland /\ Recognisable(w))
    ~> (w \notin alive \/ resize[w].state \in {"NotResizing", "Resizing"})

\* xdg.rs:169: "Don't re-tile while the user is manually resizing a window."  The
\* widths a window is asked for while a grab resizes it are the ones of the grab.
AskedWidthIsTheGrabs ==
  [][\A w \in Wayland :
       Held(w) /\ Held(w)' /\ w \in alive' =>
         \/ told'[w].width = told[w].width
         \/ \E d \in Device : Holds(d, w)' /\ told'[w].width = grab'[d].last]_vars
=============================================================================
