------------------------------- MODULE Screen -------------------------------
(***************************************************************************)
(* What the outputs show: windows that are hidden and fade, the window     *)
(* that fills an output (FullscreenSurface, kept in the user data of the   *)
(* output while the client keeps a state of its own), and the pictures of  *)
(* closed windows.  Which windows a workspace has is the business of       *)
(* Workspaces: here a switch shows any of the hidden ones.                 *)
(***************************************************************************)
EXTENDS Scene

CONSTANTS
  X11,       \* the windows of X11 clients
  Output,
  Primary,   \* space.outputs().next()
  NoOutput

ASSUME ScreenAssumption == Primary \in Output /\ NoOutput \notin Output

VARIABLES
  stack,      \* space.elements(), from the bottom to the top
  place,      \* Window -> the output it is on
  hidden, fading, centering,  \* WindowState.hidden, fade_anim and needs_center
  buffer,     \* windows whose surface has a buffer
  snapshot,   \* Window -> pending_close_snapshot: "none", or whether it is the
              \* "last" content or that of an "old" mapping
  closing,    \* closed windows with an animation -> what it shows
  fullscreen, \* Output -> what FullscreenSurface::get returns
  told,       \* Window -> [on, output]: the Fullscreen state sent and fullscreen_output
  focus,      \* focused_window()
  astray      \* windows that left an output's FullscreenSurface behind (history)

vars == <<stack, place, hidden, fading, centering, buffer, snapshot, closing, fullscreen,
          told, focus, astray>>

Mapped == {stack[i] : i \in 1..Len(stack)}
At(o) == {w \in Mapped : place[w] = o}
Without(q, w) == RemoveAt(q, CHOOSE i \in DOMAIN q : q[i] = w)
Raised(w) == Append(Without(stack, w), w)
NotTold == [on |-> FALSE, output |-> NoOutput]

\* What output_elements and the hit tests read.  A window is skipped until it is
\* centred, and when it is hidden and has faded.
ViewOf(o) ==
  [stack |-> stack,
   here |-> At(o),
   hidden |-> hidden \cap At(o),
   shown |-> At(o) \ (centering \cup (hidden \ fading)),
   fullscreen |-> fullscreen[o]]

Init ==
  /\ stack = <<>> /\ hidden = {} /\ fading = {} /\ centering = {} /\ buffer = {}
  /\ place = [w \in Window |-> Primary]
  /\ snapshot = [w \in Window |-> "none"]
  /\ closing = [w \in Window |-> "none"]
  /\ fullscreen = [o \in Output |-> NoWindow]
  /\ told = [w \in Window |-> NotTold]
  /\ focus = NoWindow
  /\ astray = {}
-----------------------------------------------------------------------------
(* The life of a window.                                                   *)

\* new_toplevel and map_window_request: on the output under the pointer, on
\* top and focused.  A Wayland window has no size yet, so it waits.
Map(w, o) ==
  /\ w \notin Mapped /\ closing[w] = "none"
  /\ stack' = Append(stack, w)
  /\ place' = [place EXCEPT ![w] = o]
  /\ centering' = IF w \in X11 THEN centering ELSE centering \cup {w}
  /\ buffer' = IF w \in X11 THEN buffer \cup {w} ELSE buffer
  /\ focus' = w
  /\ UNCHANGED <<hidden, fading, snapshot, closing, fullscreen, told, astray>>

\* A commit with new content: the first one centres the window.  A snapshot of
\* an earlier mapping is kept.
Commit(w) ==
  /\ w \in Mapped \ X11
  /\ w \notin buffer \/ snapshot[w] = "last"
  /\ buffer' = buffer \cup {w}
  /\ centering' = centering \ {w}
  /\ snapshot' = [snapshot EXCEPT ![w] = IF @ = "last" THEN "old" ELSE @]
  /\ UNCHANGED <<stack, place, hidden, fading, closing, fullscreen, told, focus, astray>>

\* capture_close_snapshot: the configuration may turn it off and it may fail.
Captured(w) == IF w \in buffer \ X11 THEN {"last", "none"} ELSE {"none"}

\* A commit that removes the buffer: the hook that runs before it takes a
\* picture if there is none, and the surface stays in the space.
Unmap(w) ==
  /\ w \in buffer \ X11
  /\ buffer' = buffer \ {w}
  /\ \E picture \in Captured(w) :
       snapshot' = [snapshot EXCEPT ![w] = IF @ = "none" THEN picture ELSE @]
  /\ UNCHANGED <<stack, place, hidden, fading, centering, closing, fullscreen, told, focus,
                 astray>>

\* What start_close_animation_from_snapshot shows, or else
\* start_close_animation_inner, which takes a picture now.
LastPicture(w) == IF snapshot[w] = "none" THEN Captured(w) ELSE {snapshot[w]}

\* The window dies: CompositorHandler::destroyed or toplevel_destroyed, whichever
\* comes first, starts its animation.  FullscreenSurface::get forgets a dead window.
Destroy(w) ==
  /\ w \in Mapped
  /\ stack' = Without(stack, w)
  /\ \E picture \in LastPicture(w) : closing' = [closing EXCEPT ![w] = picture]
  /\ hidden' = hidden \ {w} /\ fading' = fading \ {w} /\ centering' = centering \ {w}
  /\ buffer' = buffer \ {w}
  /\ snapshot' = [snapshot EXCEPT ![w] = "none"]
  /\ fullscreen' = [o \in Output |-> IF fullscreen[o] = w THEN NoWindow ELSE fullscreen[o]]
  /\ told' = [told EXCEPT ![w] = NotTold]
  /\ focus' = IF focus = w THEN NoWindow ELSE focus
  /\ astray' = astray \ {w}
  /\ UNCHANGED place

\* A frame finds the animation of a closed window done and drops the picture:
\* cleanup_finished_close_animations.
PictureEnds(w) ==
  /\ closing[w] # "none"
  /\ closing' = [closing EXCEPT ![w] = "none"]
  /\ UNCHANGED <<stack, place, hidden, fading, centering, buffer, snapshot, fullscreen, told,
                 focus, astray>>

\* A frame finds the fades of a switch done, which began together: Layout::update.
FadesEnd(o) ==
  /\ At(o) \cap fading # {}
  /\ fading' = fading \ At(o)
  /\ UNCHANGED <<stack, place, hidden, centering, buffer, snapshot, closing, fullscreen, told,
                 focus, astray>>
-----------------------------------------------------------------------------
(* Fullscreen.                                                             *)

\* Asking again leaves what was set on other outputs; without the output's
\* resource the request to leave will not know the output.
StaysAstray(w, target, output) ==
  IF output # target \/ \E o \in Output \ {target} : fullscreen[o] = w THEN astray \cup {w} ELSE astray

\* fullscreen_request: the output that was asked for, or else the first one.
\* The client may not have bound that output.
FullscreenRequest(w, asked, bound) ==
  LET target == IF asked = NoOutput THEN Primary ELSE asked
      output == IF bound THEN target ELSE asked
  IN  /\ w \in Mapped \ X11
      /\ told' = [told EXCEPT ![w] = [on |-> TRUE, output |-> output]]
      /\ fullscreen' = [fullscreen EXCEPT ![target] = w]
      /\ astray' = StaysAstray(w, target, output)
      /\ UNCHANGED <<stack, place, hidden, fading, centering, buffer, snapshot, closing, focus>>

\* A mutated UnfullscreenRequest: the output keeps the window.
UnfullscreenRequestKept(w) ==
  /\ w \in Mapped \ X11
  /\ told' = [told EXCEPT ![w] = NotTold]
  /\ UNCHANGED <<stack, place, hidden, fading, centering, buffer, snapshot, closing, fullscreen,
                 focus, astray>>

\* unfullscreen_request: the output the client was told of is cleared, whichever
\* window it holds by now.
UnfullscreenRequest(w) ==
  /\ w \in Mapped \ X11
  /\ told' = [told EXCEPT ![w] = NotTold]
  /\ fullscreen' = [o \in Output |-> IF o = told[w].output THEN NoWindow ELSE fullscreen[o]]
  /\ UNCHANGED <<stack, place, hidden, fading, centering, buffer, snapshot, closing, focus,
                 astray>>

\* The same for an X11 window: the output it is on, and the first that holds it.
FullscreenRequestX11(w) ==
  /\ w \in Mapped \cap X11
  /\ told' = [told EXCEPT ![w] = [on |-> TRUE, output |-> place[w]]]
  /\ fullscreen' = [fullscreen EXCEPT ![place[w]] = w]
  /\ astray' = StaysAstray(w, place[w], place[w])
  /\ UNCHANGED <<stack, place, hidden, fading, centering, buffer, snapshot, closing, focus>>

UnfullscreenRequestX11(w) ==
  /\ w \in Mapped \cap X11
  /\ told' = [told EXCEPT ![w] = NotTold]
  /\ \/ \E o \in Output : fullscreen[o] = w /\ fullscreen' = [fullscreen EXCEPT ![o] = NoWindow]
     \/ (\A o \in Output : fullscreen[o] # w) /\ UNCHANGED fullscreen
  /\ UNCHANGED <<stack, place, hidden, fading, centering, buffer, snapshot, closing, focus,
                 astray>>

\* toggle_fullscreen, by key.
ToggleFullscreen ==
  /\ focus # NoWindow
  /\ IF \E o \in Output : fullscreen[o] = focus
     THEN UnfullscreenRequest(focus) \/ UnfullscreenRequestX11(focus)
     ELSE (\E bound \in BOOLEAN : FullscreenRequest(focus, NoOutput, bound))
          \/ FullscreenRequestX11(focus)
-----------------------------------------------------------------------------
\* switch_workspace: what was visible is hidden, some of the rest shown; the
\* bottommost window shown is raised and focused.  Without animations the fades
\* are done when they begin.
SwitchWorkspace(o) ==
  \E shown \in SUBSET (At(o) \cap hidden) :
    /\ hidden' = (hidden \cup At(o)) \ shown
    /\ fading' = fading \cup At(o)
    /\ \E w \in IF shown = {} THEN {NoWindow} ELSE First(stack, shown) :
         /\ stack' = IF w = NoWindow THEN stack ELSE Raised(w)
         /\ focus' = w
    /\ UNCHANGED <<place, centering, buffer, snapshot, closing, fullscreen, told, astray>>

\* Points that show everything a click can do: those where one thing is.
Lone ==
  {p \in Point : /\ Cardinality(p.takes) = 1
                 /\ p.box = p.takes \cap LayerSurface /\ p.keyboard = p.box}

\* A click somewhere on an output.  Windows without a buffer take no input.
Click(o) ==
  LET view == ViewOf(o) IN
  \E p \in Lone :
    LET f == FocusUnder(view, p)
    IN  /\ f.what \cap Window \subseteq buffer
        /\ \E t \in f.what :
             /\ focus' = IF t \in Window THEN t ELSE NoWindow
             /\ stack' = IF f.raise THEN Raised(t) ELSE stack
        /\ UNCHANGED <<place, hidden, fading, centering, buffer, snapshot, closing, fullscreen,
                       told, astray>>

\* A move grab carries a window that can be seen to another output, and raises it.
Move(w, o) ==
  /\ w \in buffer \ hidden /\ o # place[w]
  /\ place' = [place EXCEPT ![w] = o]
  /\ stack' = Raised(w)
  /\ UNCHANGED <<hidden, fading, centering, buffer, snapshot, closing, fullscreen, told, focus,
                 astray>>

Next ==
  \/ ToggleFullscreen
  \/ \E o \in Output : SwitchWorkspace(o) \/ FadesEnd(o) \/ Click(o)
  \/ \E w \in Window :
       \/ Commit(w) \/ Unmap(w) \/ Destroy(w) \/ PictureEnds(w)
       \/ UnfullscreenRequest(w) \/ FullscreenRequestX11(w) \/ UnfullscreenRequestX11(w)
       \/ \E o \in Output : Map(w, o) \/ Move(w, o) \/ FullscreenRequest(w, o, TRUE)
       \/ \E bound \in BOOLEAN : FullscreenRequest(w, NoOutput, bound)

Spec == Init /\ [][Next]_vars
-----------------------------------------------------------------------------
TypeOK ==
  /\ stack \in Seq(Window) /\ IsInjective(stack)
  /\ place \in [Window -> Output]
  /\ hidden \cup fading \cup centering \cup buffer \cup astray \subseteq Mapped
  /\ snapshot \in [Window -> {"none", "last", "old"}]
  /\ closing \in [Window -> {"none", "last", "old"}]
  /\ fullscreen \in [Output -> Mapped \cup {NoWindow}]
  /\ told \in [Window -> [on : BOOLEAN, output : Output \cup {NoOutput}]]
  /\ focus \in Mapped \cup {NoWindow}

\* The views for which the properties of Scene hold at every point: computed once.
GoodViews ==
  {v \in View : \A p \in Point : PointerFollowsDrawing(v, p) /\ ClickFollowsDrawing(v, p)}

\* In every state that windows, workspaces and fullscreen requests lead to,
\* input goes to what is drawn on top, but for a window of another workspace and
\* surfaces of one layer that overlap, and a click focuses what can be seen.
InputFollowsDrawing == \A o \in Output : ViewOf(o) \in GoodViews

\* The window that fills an output is one whose client was told so, and told of
\* that output: it can leave, and the others come back.  Excepted are the
\* windows that asked again for another output, or whose client had not bound it.
FullscreenAgrees ==
  \A o \in Output :
    LET w == fullscreen[o]
    IN  w # NoWindow => told[w] = [on |-> TRUE, output |-> o] \/ w \in astray

\* xdg.rs:642: "This snapshot has the window's last valid content."  Not so for a
\* window mapped again after an unmapping: the hook keeps the first picture.  No
\* run checks it, TLC refutes it.
ClosesWithLastContent == \A w \in Window : closing[w] # "old"
=============================================================================
