----------------------------- MODULE Workspaces -----------------------------
(***************************************************************************)
(* Workspaces, stacking, keyboard focus and the tiling layout's membership *)
(* (state.rs, layout.rs, shell/xdg.rs, shell/x11.rs, shell/grabs.rs,       *)
(* input_handler.rs).                                                      *)
(*                                                                         *)
(* All handlers run on the event loop, one after the other.  What makes    *)
(* them hard to get right together is that the stacking order of the space *)
(* means four things at once: what is drawn on top, which slot of the      *)
(* layout a window takes, which window the focus cycle goes to next, and   *)
(* which window a workspace switch focuses.                                *)
(*                                                                         *)
(* A window overlaps one output; geometry, sizes and animations are left   *)
(* out.  The layout is a tiling one.                                       *)
(***************************************************************************)
EXTENDS Integers, Sequences, FiniteSets, SequencesExt

CONSTANTS
  Window, Output,
  NoWindow,
  MaxWorkspace   \* bound: the highest workspace index

ASSUME WorkspacesAssumption ==
  /\ NoWindow \notin Window
  /\ Output # {}
  /\ MaxWorkspace \in Nat

VARIABLES
  stack,      \* space.elements(), bottom to top
  on,         \* the output each window overlaps
  active,     \* AnvilState.workspaces: the active workspace of each output
  workspace,  \* WindowState.workspace
  hidden,     \* windows with WindowState.hidden
  floating,   \* windows with layout.is_floating
  centering,  \* windows with WindowState.needs_center
  full,       \* windows with layout.full_width
  slotted,    \* windows whose layout.target is Some
  focus,      \* keyboard focus
  drag,       \* the window a PointerLayoutMoveGrab holds
  strayed,    \* history: windows moved to another output since a switch there
  forced,     \* history: the window, if the focus came from the IPC socket
  cycle       \* history: the run of focus_cycle calls in progress

focusing == <<focus, forced, cycle>>
membership == <<hidden, floating, centering, full>>
vars == <<stack, on, active, workspace, membership, slotted, focusing, drag,
          strayed>>

Workspace == 0..MaxWorkspace
Mapped == {stack[i] : i \in 1..Len(stack)}

NoCycle == [dir |-> 0, seen |-> {}]

Init ==
  /\ stack = <<>>
  /\ on \in [Window -> {CHOOSE o \in Output : TRUE}]
  /\ active = [o \in Output |-> 0]
  /\ workspace = [w \in Window |-> 0]
  /\ hidden = {} /\ floating = {} /\ centering = {} /\ full = {} /\ slotted = {}
  /\ focus = NoWindow /\ forced = NoWindow /\ cycle = NoCycle
  /\ drag = NoWindow /\ strayed = {}
-----------------------------------------------------------------------------
(* Reading the space.                                                      *)

\* The members of q that are in S, in their order.  SelectSeq would do, but
\* nothing could be proved about it.
Filter(q, S) ==
  LET at == {i \in DOMAIN q : q[i] \in S}
  IN  [n \in 1..Cardinality(at) |-> q[CHOOSE i \in at : Cardinality(at \cap 1..i) = n]]

\* elements_for_output, bottom to top.
Elements(q, f, o) == Filter(q, {w \in Window : f[w] = o})
ElementsOn(o) == Elements(stack, on, o)

\* What compute_plans leaves out, and what reorder_layout_window and
\* focus_cycle consider; the three filters differ.
Untiled == floating \cup centering \cup hidden
Orderable == Window \ (floating \cup hidden)
Cyclable(o) == {w \in Orderable : workspace[w] = active[o]}

Without(q, w) == Filter(q, Window \ {w})
Raised(q, w) == Append(Without(q, w), w)

FocusedWindow == IF focus \in Mapped THEN focus ELSE NoWindow

\* focused_output: without a focused window the pointer's output, wherever the
\* pointer is.
FocusedOutput(o) == FocusedWindow # NoWindow => o = on[focus]

\* The windows compute_plans has a plan for: one that asked for the full width
\* takes the work area alone, the topmost if there are several.
Planned(elements, untiled, wide) ==
  LET filling == Filter(elements, wide \ untiled)
  IN  IF filling # <<>> THEN {Last(filling)} ELSE Range(elements) \ untiled

\* arrange_layout, run after the changes of the rest of the handler: the
\* windows that get a target.
Arranged ==
  UNION {Planned(Elements(stack', on', o), Untiled', full') : o \in Output}

\* The windows without a plan keep the target they had.
ArrangeLayout(had) == slotted' = had \cup Arranged

\* A handler that changes the place of w alone: it may overlap another output now.
MovesTo(w, o) ==
  /\ on' = [on EXCEPT ![w] = o]
  /\ strayed' = IF o = on[w] THEN strayed ELSE strayed \cup {w}

FocusOn(w) ==
  /\ focus' = w
  /\ forced' = NoWindow
  /\ cycle' = NoCycle
-----------------------------------------------------------------------------
(* Windows come and go.                                                    *)

\* A mutated Assigned: every window starts on the first workspace.
AssignedFirst(w, o) == workspace' = [workspace EXCEPT ![w] = 0]

\* A new window belongs to the active workspace of the output it appears on,
\* the one under the pointer.
Assigned(w, o) == workspace' = [workspace EXCEPT ![w] = active[o]]

\* The handlers of a window's first appearance.
NewWindow(w) ==
  /\ w \notin Mapped /\ w # drag
  /\ stack' = Append(stack, w)
  /\ \E o \in Output :
       /\ on' = [on EXCEPT ![w] = o]
       /\ Assigned(w, o)
  /\ hidden' = hidden \ {w}
  /\ floating' = floating \ {w} /\ full' = full \ {w}
  /\ FocusOn(w)
  /\ UNCHANGED <<active, drag, strayed>>

\* new_toplevel: the window has no size before its first commit.
NewToplevel(w) ==
  /\ NewWindow(w)
  /\ centering' = centering \cup {w}
  /\ slotted' = slotted \ {w}

\* map_window_request of an X11 window, which is tiled at once.
MapX11(w) ==
  /\ NewWindow(w)
  /\ centering' = centering \ {w}
  /\ ArrangeLayout(slotted \ {w})

\* The commit handler.  The first commit with a size centers the window and the
\* hook arranges the layout; then a buffer attached at an offset moves the window,
\* as the commits of a resize by a near edge do.
Commit(w) ==
  /\ w \in Mapped
  /\ centering' \in {centering, centering \ {w}}
  /\ \E o \in Output :
       MovesTo(w, o) /\ cycle' = IF o = on[w] THEN cycle ELSE NoCycle
  /\ UNCHANGED <<stack, active, workspace, hidden, floating, full, focus, forced,
                 drag>>
  /\ slotted' =
       slotted \cup UNION {Planned(Elements(stack, on, o), Untiled', full) : o \in Output}

\* toplevel_destroyed.  The keyboard focus stays on the dead window, of which
\* the rest is forgotten.
Destroyed(w) ==
  /\ w \in Mapped
  /\ stack' = Without(stack, w)
  /\ centering' = centering \ {w} /\ hidden' = hidden \ {w}
  /\ floating' = floating \ {w} /\ full' = full \ {w}
  /\ strayed' = strayed \ {w}
  /\ cycle' = NoCycle
  /\ workspace' = [workspace EXCEPT ![w] = 0]
  /\ UNCHANGED <<on, active, focus, forced, drag>>
  /\ ArrangeLayout(slotted \ {w})
-----------------------------------------------------------------------------
(* Workspaces.                                                             *)

\* A mutated FocusAfterSwitch: an empty workspace leaves the focus where it is.
FocusAfterSwitchIfAny(visible) ==
  IF visible = <<>> THEN focus ELSE Head(visible)

\* The first visible window of elements_for_output, which is the bottommost.
FocusAfterSwitch(visible) ==
  IF visible = <<>> THEN NoWindow ELSE Head(visible)

\* The windows of workspace t on o once the switch has shown them.
OnWorkspace(o, t) == Filter(ElementsOn(o), {w \in Window : workspace[w] = t})

SwitchWorkspace(o, t) ==
  LET shown == OnWorkspace(o, t)
      windows == {w \in Mapped : on[w] = o}
      first == FocusAfterSwitch(shown)
  IN  /\ active[o] # t
      /\ active' = [active EXCEPT ![o] = t]
      /\ hidden' = (hidden \ windows) \cup {w \in windows : workspace[w] # t}
      /\ stack' = IF shown = <<>> THEN stack ELSE Raised(stack, Head(shown))
      /\ focus' = first
      /\ forced' = IF first = focus THEN forced ELSE NoWindow
      /\ cycle' = NoCycle
      /\ strayed' = strayed \ windows
      /\ UNCHANGED <<on, workspace, floating, centering, full, drag>>
      /\ ArrangeLayout(slotted)

\* The key bindings: the next, the previous and a given workspace.
SwitchKey ==
  \E o \in Output, t \in Workspace :
    FocusedOutput(o) /\ SwitchWorkspace(o, t)
-----------------------------------------------------------------------------
(* Focus.                                                                  *)

\* focus_window: raise, focus, re-run the layout.
FocusWindow(w) ==
  /\ stack' = Raised(stack, w)
  /\ focus' = w
  /\ forced' = NoWindow
  /\ UNCHANGED <<on, active, workspace, membership, drag, strayed>>
  /\ ArrangeLayout(slotted)

Windows(o) == Filter(ElementsOn(o), Cyclable(o))

\* A mutated NextIndex: it wraps one window too early.
NextIndexShort(q, i, dir) ==
  ((i - 1 + dir) % (IF Len(q) > 1 THEN Len(q) - 1 ELSE 1)) + 1

\* (idx + direction).rem_euclid(len), counting from one.
NextIndex(q, i, dir) == ((i - 1 + dir) % Len(q)) + 1

\* focus_cycle: the focused window need not be in the list, which then counts
\* as being at its start.
FocusCycle(o, dir) ==
  LET q == Windows(o)
      at == {i \in 1..Len(q) : q[i] = FocusedWindow}
      here == IF at = {} THEN 1 ELSE CHOOSE i \in at : TRUE
      next == q[NextIndex(q, here, dir)]
  IN  /\ FocusedOutput(o)
      /\ q # <<>>
      /\ FocusWindow(next)
      /\ cycle' =
           IF cycle.dir = dir
             THEN [dir |-> dir, seen |-> cycle.seen \cup {next}]
             ELSE IF at = {Len(q)} THEN [dir |-> dir, seen |-> {focus, next}]
             ELSE NoCycle

\* update_keyboard_focus for a window: hidden ones are ignored.
ClickFocus(w) ==
  /\ drag = NoWindow
  /\ w \in Mapped \ hidden
  /\ FocusWindow(w)
  /\ cycle' = NoCycle

\* ipc_focus_window: hidden or not, and the layout is not re-run.
IpcFocusWindow(w) ==
  /\ w \in Mapped
  /\ stack' = Raised(stack, w)
  /\ focus' = w /\ forced' = w /\ cycle' = NoCycle
  /\ UNCHANGED <<on, active, workspace, membership, slotted, drag, strayed>>

\* request_activation raises a window without focusing it.
RequestActivation(w) ==
  /\ w \in Mapped
  /\ stack' = Raised(stack, w)
  /\ cycle' = NoCycle
  /\ UNCHANGED <<on, active, workspace, membership, focus, forced, drag,
                 strayed>>
  /\ ArrangeLayout(slotted)

-----------------------------------------------------------------------------
(* The layout.                                                             *)

ToggleFloating ==
  LET w == focus IN
  /\ w # NoWindow
  /\ floating' = IF w \in floating THEN floating \ {w} ELSE floating \cup {w}
  /\ cycle' = NoCycle
  /\ UNCHANGED <<stack, on, active, workspace, hidden, centering, full, focus, forced,
                 drag, strayed>>
  /\ ArrangeLayout(slotted \ {w})

ToggleMaximize ==
  LET w == FocusedWindow IN
  /\ w # NoWindow
  /\ full' = IF w \in full THEN full \ {w} ELSE full \cup {w}
  /\ cycle' = NoCycle
  /\ UNCHANGED <<stack, on, active, workspace, hidden, floating, centering, focus,
                 forced, drag, strayed>>
  /\ ArrangeLayout(slotted)

\* A press with the resize modifier: the window under the pointer is focused
\* unless it is hidden, and then dragged even if it is.
DragStart(w) ==
  /\ drag = NoWindow
  /\ w \in Mapped
  /\ drag' = w
  /\ floating' = floating \cup {w}
  /\ IF w \in hidden
       THEN UNCHANGED <<stack, focusing>> /\ slotted' = slotted \ {w}
       ELSE /\ stack' = Raised(stack, w)
            /\ FocusOn(w)
            \* The layout runs before the window is taken out of it.
            /\ slotted' = (slotted \cup UNION {Planned(Elements(stack', on, o), Untiled, full) : o \in Output}) \ {w}
  /\ UNCHANGED <<on, active, workspace, hidden, centering, full, strayed>>

\* map_element of a window that is there moves it and raises it.
MapElement(w, o) ==
  /\ stack' = Raised(stack, w)
  /\ MovesTo(w, o)
  /\ cycle' = NoCycle
  /\ UNCHANGED <<active, workspace, membership, slotted, focus, forced, drag>>

\* The grab maps its window anew at every motion.
DragMotion(o) == drag \in Mapped /\ MapElement(drag, o)

\* So do a move grab that a client asked for, the end of a resize, a request to
\* maximize and ipc_move_window, with any window and without the layout.
MoveElement(w, o) == w \in Mapped /\ MapElement(w, o)

\* A mutated Reordered: the index counts from the wrong end.
ReorderedBottomFirst(w, k) ==
  LET others == Filter(ElementsOn(on[w]), Orderable \ {w})
      ordered == InsertAt(others, k + 1, w)
      moved == {ordered[i] : i \in 1..Len(ordered)}
  IN  Filter(stack, Window \ moved) \o ordered

\* reorder_layout_window: w goes before the k-th of the other tiled windows,
\* counted from the top; then all of them are raised, bottom to top.
Reordered(w, k) ==
  LET others == Filter(ElementsOn(on[w]), Orderable \ {w})
      ordered == InsertAt(others, Len(others) - k + 1, w)
      moved == {ordered[i] : i \in 1..Len(ordered)}
  IN  Filter(stack, Window \ moved) \o ordered

Others(w) == Filter(Reverse(ElementsOn(on[w])), Orderable \ {w})

\* The release re-inserts the window and arranges the layout; unset_grab
\* then calls unset, which clears the window's target and animation.
DragRelease(k) ==
  /\ drag \in Mapped
  /\ k \in 0..Len(Others(drag))
  /\ stack' = Reordered(drag, k)
  /\ floating' = floating \ {drag}
  /\ drag' = NoWindow
  /\ cycle' = NoCycle
  /\ UNCHANGED <<on, active, workspace, hidden, centering, full, focus, forced,
                 strayed>>
  /\ slotted' = (slotted \cup Arranged) \ {drag}

\* Another grab takes over: unset puts the window back without arranging.
DragCancelled ==
  /\ drag # NoWindow
  /\ floating' = floating \ {drag}
  /\ slotted' = slotted \ {drag}
  /\ drag' = NoWindow
  /\ cycle' = NoCycle
  /\ UNCHANGED <<stack, on, active, workspace, hidden, centering, full, focus,
                 forced, strayed>>
-----------------------------------------------------------------------------
WindowStep ==
  \E w \in Window :
    \/ NewToplevel(w)
    \/ MapX11(w)
    \/ Commit(w)
    \/ Destroyed(w)
    \/ ClickFocus(w)
    \/ IpcFocusWindow(w)
    \/ RequestActivation(w)
    \/ DragStart(w)
    \/ \E o \in Output : MoveElement(w, o)

FocusNext(o) == FocusCycle(o, 1)
FocusPrev(o) == FocusCycle(o, -1)

DragStep ==
  \/ \E o \in Output : DragMotion(o)
  \/ \E k \in 0..Cardinality(Window) : DragRelease(k)
  \/ DragCancelled

Next ==
  \/ WindowStep
  \/ SwitchKey
  \/ \E o \in Output : FocusNext(o) \/ FocusPrev(o)
  \/ ToggleFloating
  \/ ToggleMaximize
  \/ DragStep

Spec == Init /\ [][Next]_vars
-----------------------------------------------------------------------------
(* Properties.                                                             *)

TypeOK ==
  /\ stack \in Seq(Window) /\ \A i, j \in 1..Len(stack) : stack[i] = stack[j] => i = j
  /\ on \in [Window -> Output]
  /\ active \in [Output -> Workspace] /\ workspace \in [Window -> Workspace]
  /\ hidden \subseteq Mapped /\ centering \subseteq Mapped
  /\ full \subseteq Mapped /\ strayed \subseteq Mapped
  /\ floating \subseteq Window /\ slotted \subseteq Window
  /\ focus \in Window \cup {NoWindow} /\ forced \in Window \cup {NoWindow}
  /\ drag \in Window \cup {NoWindow}
  /\ cycle \in [dir : {-1, 0, 1}, seen : SUBSET Window]

\* A window is hidden exactly when its workspace is not the active one of the
\* output it is on: nothing that raises, focuses, drags, floats or closes
\* windows between two switches breaks the tie.  A window moved to another
\* output keeps its workspace index and is out of the promise until that
\* output switches.
HiddenMatchesWorkspace ==
  \A w \in Mapped \ strayed :
    w \in hidden <=> workspace[w] # active[on[w]]

\* Keys never go to a window nobody can see: a focused window that is mapped is
\* visible, unless the IPC socket focused it.
FocusVisible ==
  (focus \in Mapped /\ focus # forced) => focus \notin hidden

\* Repeating "focus next" from the topmost window visits every window before it
\* comes back to one, although each focus raises the window and so reorders the
\* list the next call walks.
FocusNextVisitsAll ==
  [][\A o \in Output : (cycle.dir = 1 /\ FocusNext(o)) =>
       (focus' \notin cycle.seen \/ Range(Windows(o)) \subseteq cycle.seen)]_vars

\* Dropping a dragged window puts it at the index its position selected,
\* counted from the top, and keeps the other tiled windows in their order.
ReorderTakesSlot ==
  [][\A k \in 0..Cardinality(Window) : (drag' = NoWindow /\ DragRelease(k)) =>
       Filter(Reverse(Elements(stack', on, on[drag])), Orderable') =
         (IF drag \in hidden THEN Others(drag) ELSE InsertAt(Others(drag), k + 1, drag))]_vars

\* focus_cycle promises to cycle through the windows in both directions.  This
\* property and the two below are not checked by any run: TLC refutes each of
\* them on the instance of MCWorkspaces (README, section 6).
FocusPrevVisitsAll ==
  [][\A o \in Output : (cycle.dir = -1 /\ FocusPrev(o)) =>
       (focus' \notin cycle.seen \/ Range(Windows(o)) \subseteq cycle.seen)]_vars

\* "Raise the topmost visible window": what a switch focuses is the topmost
\* window of the workspace it shows.
SwitchFocusesTopmost ==
  [][\A o \in Output, t \in Workspace :
       (SwitchWorkspace(o, t) /\ OnWorkspace(o, t) # <<>>) =>
         focus' = Last(OnWorkspace(o, t))]_vars

\* On release the layout is re-run, "animating every window to its new
\* position": the dropped window has a target like the others.
ReleaseTakesSlot ==
  [][\A k \in 0..Cardinality(Window) :
       (DragRelease(k) /\ drag \notin Untiled' /\ full = {}) => drag \in slotted']_vars
=============================================================================
