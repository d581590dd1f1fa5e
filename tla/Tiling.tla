------------------------------- MODULE Tiling -------------------------------
(***************************************************************************)
(* The layout engine on one output: where the windows of the layout go     *)
(* (Layout::compute_plans), how they get there (apply_plan, Layout::       *)
(* update), who asks for it (the callers of arrange_layout), and who moves *)
(* or raises a window without asking (the other callers of Space).         *)
(*                                                                         *)
(* Lengths are integers of a coarse unit and division truncates, where the *)
(* code has fractions.  A layout of type "custom", a function of the       *)
(* configuration, is left out: when it fails the code uses columns.  Which *)
(* windows are being moved or resized by a grab is left open: any may be.  *)
(***************************************************************************)
EXTENDS Integers, Sequences, FiniteSets, FiniteSetsExt, SequencesExt

CONSTANTS
  Window,
  X11,            \* the windows of X11 clients
  Width, Height,  \* of the output
  Gap, Margin,    \* LayoutConfig.gap and margins, the same on every side
  Reserve,        \* the exclusive zone a bar asks for, at the top
  Overrides,      \* the widths that resize_width and its grab can leave
  Layouts,        \* the layouts that a configuration can choose
  MaxRequests     \* bound on what users and clients ask for, in all

None == "none"

ASSUME TilingAssumption ==
  /\ IsFiniteSet(Window) /\ None \notin Window
  /\ {Width, Height, Margin, Reserve} \subseteq Int
  /\ {Gap, MaxRequests} \subseteq Nat /\ Overrides \subseteq Nat \ {0}
  /\ Layouts \subseteq {"columns", "grid", "master_stack", "maximize", "floating"}

Elsewhere == <<>>         \* a place that is no slot: centred, dragged, on the way to one
NoTarget == [loc |-> Elsewhere, size |-> <<>>]

VARIABLES
  stack,      \* space.elements(), from the bottom to the top
  lws,        \* Window -> LayoutWindowState
  hidden,     \* windows of other workspaces
  centering,  \* windows that wait for their first content (needs_center)
  at,         \* Window -> where the space has it
  nextId,     \* Layout.next_layout_id
  config,     \* config.layout.layout and config.animations.enable
  bar,        \* a layer surface: none, "mapped", or "reserves" a zone
  dragged,    \* the window of a PointerLayoutMoveGrab
  unborn,     \* windows still to come: each comes once
  requests,   \* how often a user or a client asked for something
  strayed,    \* windows moved without an arrangement since the last one (history)
  stale       \* something the plan reads changed since the last arrangement (history)

vars == <<stack, lws, hidden, centering, at, nextId, config, bar, dragged, unborn, requests,
          strayed, stale>>

Mapped == {stack[i] : i \in 1..Len(stack)}
Without(q, w) == RemoveAt(q, CHOOSE i \in DOMAIN q : q[i] = w)
Raised(w) == Append(Without(stack, w), w)

\* The windows of S that are above w in the stack s.
Above(s, S, w) == {s[i] : i \in {k \in DOMAIN s : s[k] \in S /\ \E j \in 1..(k - 1) : s[j] = w}}

Total(f, S) == MapThenSumSet(LAMBDA w : f[w], S)
AtLeast0(n) == IF n < 0 THEN 0 ELSE n

\* LayoutWindowState::default: an id of 0 and an override of 0 stand for none.
DefaultState == [id |-> 0, floating |-> FALSE, initialized |-> FALSE, target |-> NoTarget,
                 moving |-> FALSE, override |-> 0, full |-> FALSE]

Init ==
  /\ stack = <<>> /\ hidden = {} /\ centering = {} /\ strayed = {}
  /\ lws = [w \in Window |-> DefaultState]
  /\ at = [w \in Window |-> Elsewhere]
  /\ nextId = 0
  /\ config \in [layout : Layouts, animated : BOOLEAN]
  /\ unborn = Window
  /\ bar = None /\ dragged = None
  /\ requests = 0
  /\ stale = FALSE
-----------------------------------------------------------------------------
(* The plan.                                                               *)

Rect(x, y, w, h) == [loc |-> <<x, y>>, size |-> <<w, h>>]

\* work_area: what the bars leave, less the margins.
WorkArea(b) ==
  LET reserved == IF b = "reserves" THEN Reserve ELSE 0
  IN  Rect(Margin, reserved + Margin, AtLeast0(Width - 2 * Margin),
           AtLeast0(Height - reserved - 2 * Margin))

Share(length, n) == AtLeast0((length - Gap * (n - 1)) \div n)

(* The layouts give a slot to each tile; above tells which tiles are before  *)
(* it, the topmost window being the first.                                   *)

\* A mutated ColumnsLayout: the gaps are not taken off the width that is shared.
ColumnsOverGaps(area, above, override) ==
  LET tiles == DOMAIN above
      flexible == {w \in tiles : override[w] = 0}
      rest == area.size[1] - Total(override, tiles)
      flex == IF flexible = {} THEN 0 ELSE AtLeast0(rest \div Cardinality(flexible))
      col == [w \in tiles |-> IF override[w] = 0 THEN flex ELSE override[w]]
  IN  [w \in tiles |->
         Rect(area.loc[1] + Total(col, above[w]) + Gap * Cardinality(above[w]), area.loc[2],
              col[w], area.size[2])]

\* columns_layout: a column each; what the fixed widths leave is shared.
ColumnsLayout(area, above, override) ==
  LET tiles == DOMAIN above
      flexible == {w \in tiles : override[w] = 0}
      rest == area.size[1] - Total(override, tiles) - Gap * (Cardinality(tiles) - 1)
      flex == IF flexible = {} THEN 0 ELSE AtLeast0(rest \div Cardinality(flexible))
      col == [w \in tiles |-> IF override[w] = 0 THEN flex ELSE override[w]]
  IN  [w \in tiles |->
         Rect(area.loc[1] + Total(col, above[w]) + Gap * Cardinality(above[w]), area.loc[2],
              col[w], area.size[2])]

\* grid_layout: as many columns as the root of n, rounded up; row by row.
GridColumns(n) == Min({k \in 1..n : k * k >= n})
GridRows(n) == (n + GridColumns(n) - 1) \div GridColumns(n)

GridLayout(area, above) ==
  LET n == Cardinality(DOMAIN above)
      cols == GridColumns(n)
      rows == GridRows(n)
      w == Share(area.size[1], cols)
      h == Share(area.size[2], rows)
      cell(i) == Rect(area.loc[1] + (i % cols) * (w + Gap),
                      area.loc[2] + (i \div cols) * (h + Gap), w, h)
  IN  [v \in DOMAIN above |-> cell(Cardinality(above[v]))]

\* master_stack_layout, with a master_ratio of a half.
MasterStackLayout(area, above) ==
  LET master == area.size[1] \div 2
      h == Share(area.size[2], Cardinality(DOMAIN above) - 1)
      row(i) == Rect(area.loc[1] + master + Gap, area.loc[2] + (i - 1) * (h + Gap),
                     AtLeast0(area.size[1] - master - Gap), h)
  IN  [w \in DOMAIN above |->
         IF above[w] = {} THEN Rect(area.loc[1], area.loc[2], master, area.size[2])
         ELSE row(Cardinality(above[w]))]

Slots(kind, area, above, override) ==
  CASE kind = "columns"      -> ColumnsLayout(area, above, override)
    [] kind = "grid"         -> GridLayout(area, above)
    [] kind = "master_stack" -> MasterStackLayout(area, above)
    [] kind = "maximize"     -> [w \in DOMAIN above |-> area]

Tiles(s, L, out) == {s[i] : i \in DOMAIN s} \ ({w \in Window : L[w].floating} \cup out)
WidthOverrides(L) == [w \in Window |-> L[w].override]

\* compute_plans: a slot for each tile; when tiles are to fill the area, only
\* the topmost of them gets it.
Plan(kind, s, tiles, L, area) ==
  LET full == tiles \cap {w \in Window : L[w].full}
      above == [w \in tiles |-> Above(s, tiles, w)]
  IN  IF kind = "floating" THEN <<>>
      ELSE IF full # {} THEN [w \in {v \in full : Above(s, full, v) = {}} |-> area]
      ELSE Slots(kind, area, above, WidthOverrides(L))
-----------------------------------------------------------------------------
(* Following the plan.                                                     *)

\* A mutated NewId: every window that needs an id gets the next one.
NewIdShared(s, needing, w) == nextId

\* assign_layout_id, in the order of the plan.
NewId(s, needing, w) == nextId + Cardinality(Above(s, needing, w))

\* apply_plan starts an animation for a window that is somewhere else, unless
\* it is new, moves already, or animations are off.
Departs(l, from, target, animated) ==
  l.moving \/ (l.initialized /\ from # target.loc /\ animated)

\* apply_plan for each window of the plan, when the handler has left the layout
\* states L; from is where the windows are by then, and the handler goes on to move
\* those of moved.
Follow(plan, L, from, moved) ==
  LET needing == {w \in DOMAIN plan : L[w].id = 0}
      departs(w) == Departs(L[w], from[w], plan[w], config'.animated)
  IN  /\ lws' = [w \in Window |->
                   IF w \notin DOMAIN plan THEN L[w]
                   ELSE [L[w] EXCEPT !.id = IF @ = 0 THEN NewId(stack', needing, w) ELSE @,
                                     !.moving = departs(w),
                                     !.target = plan[w],
                                     !.initialized = TRUE]]
      /\ at' = [w \in Window |->
                  IF w \in moved THEN Elsewhere
                  ELSE IF w \notin DOMAIN plan THEN from[w]
                  ELSE IF departs(w) THEN Elsewhere ELSE plan[w].loc]
      /\ nextId' = nextId + Cardinality(needing)
      /\ strayed' = (strayed \ DOMAIN plan) \cup moved
      /\ stale' = FALSE

\* arrange_layout.  The plan is the only member of a set for TLC to compute it once.
ArrangeThen(L, from, moved) ==
  LET tiles == Tiles(stack', L, hidden' \cup centering')
  IN  \E plan \in {Plan(config'.layout, stack', tiles, L, WorkArea(bar'))} :
        Follow(plan, L, from, moved)

ArrangeFrom(L, from) == ArrangeThen(L, from, {})
Arrange(L) == ArrangeFrom(L, at)

\* Layout::update, once per frame: where the animation is done, the window is at
\* its target.  The others are on their way.
Frame ==
  \E done \in SUBSET {w \in Mapped : lws[w].moving} \ {{}} :
    /\ lws' = [w \in Window |-> [lws[w] EXCEPT !.moving = @ /\ w \notin done]]
    /\ at' = [w \in Window |-> IF w \in done THEN lws[w].target.loc ELSE at[w]]
    /\ UNCHANGED <<stack, hidden, centering, nextId, config, bar, dragged, strayed, stale>>
-----------------------------------------------------------------------------
(* Windows come and go.                                                    *)

\* new_toplevel: nothing is arranged before the window has content.
NewToplevel(w) ==
  /\ w \in unborn \ X11
  /\ unborn' = unborn \ {w}
  /\ stack' = Append(stack, w)
  /\ centering' = centering \cup {w}
  /\ UNCHANGED <<lws, hidden, at, nextId, config, bar, dragged, strayed, stale>>

\* The commit of a toplevel: handle_toplevel_commit centres a new window, and
\* the hook arranges.
Commit(w) ==
  /\ w \in Mapped \ X11
  /\ centering' = centering \ {w}
  /\ UNCHANGED <<stack, hidden, config, bar, dragged>>
  /\ Arrange(lws)

\* The same of a client that attaches its buffer at an offset: after the hook, the
\* commit handler moves the window by buffer_delta.
CommitAtOffset(w) ==
  /\ w \in Mapped \ X11
  /\ centering' = centering \ {w}
  /\ UNCHANGED <<stack, hidden, config, bar, dragged>>
  /\ ArrangeThen(lws, at, {w})

\* The same while w itself is being resized: nothing is arranged, and the window
\* may be moved for its far edge to stay, by an offset, or to the centre.
CommitWhileResized(w) ==
  /\ w \in Mapped \ X11
  /\ centering' = centering \ {w}
  /\ at' \in {[at EXCEPT ![w] = place] : place \in {at[w], Elsewhere}}
  /\ strayed' = strayed \cup {w}
  /\ stale' = IF w \in centering THEN TRUE ELSE stale
  /\ UNCHANGED <<stack, lws, hidden, nextId, config, bar, dragged>>

\* map_window_request.
MapX11(w) ==
  /\ w \in unborn \cap X11
  /\ unborn' = unborn \ {w}
  /\ stack' = Append(stack, w)
  /\ UNCHANGED <<hidden, centering, config, bar, dragged>>
  /\ Arrange(lws)

\* mapped_override_redirect_window: a menu or a tooltip goes where its client has
\* it.  The plan counts it, and nothing is arranged.
MapOverrideRedirect(w) ==
  /\ w \in unborn \cap X11
  /\ unborn' = unborn \ {w}
  /\ stack' = Append(stack, w)
  /\ stale' = TRUE
  /\ UNCHANGED <<lws, hidden, centering, at, nextId, config, bar, dragged, strayed>>

\* What is forgotten with a window.
Gone(w) ==
  /\ stack' = Without(stack, w)
  /\ hidden' = hidden \ {w} /\ centering' = centering \ {w}
  /\ dragged' = IF dragged = w THEN None ELSE dragged
  /\ UNCHANGED <<config, bar>>

\* A mutated ToplevelDestroyed: the others are not arranged.
ToplevelDestroyedOnly(w) ==
  /\ w \in Mapped \ X11
  /\ Gone(w)
  /\ lws' = [lws EXCEPT ![w] = DefaultState]
  /\ at' = [at EXCEPT ![w] = Elsewhere]
  /\ strayed' = strayed \ {w}
  /\ UNCHANGED <<nextId, stale>>

\* toplevel_destroyed.
ToplevelDestroyed(w) ==
  /\ w \in Mapped \ X11
  /\ Gone(w)
  /\ ArrangeFrom([lws EXCEPT ![w] = DefaultState], [at EXCEPT ![w] = Elsewhere])

\* Nothing handles the end of an X11 window: Space::refresh drops it, and the
\* others stay where they are.
X11Destroyed(w) ==
  /\ w \in Mapped \cap X11
  /\ Gone(w)
  /\ lws' = [lws EXCEPT ![w] = DefaultState]
  /\ at' = [at EXCEPT ![w] = Elsewhere]
  /\ strayed' = strayed \ {w}
  /\ stale' = TRUE
  /\ UNCHANGED nextId
-----------------------------------------------------------------------------
(* What users and clients ask for.                                         *)

Detached(l) == [l EXCEPT !.moving = FALSE, !.target = NoTarget]

\* toggle_window_floating.
ToggleFloating(w) ==
  /\ w \in Mapped
  /\ UNCHANGED <<stack, hidden, centering, config, bar, dragged>>
  /\ Arrange([lws EXCEPT ![w] = [Detached(@) EXCEPT !.floating = ~lws[w].floating]])

\* toggle_maximize.
ToggleMaximize(w) ==
  /\ w \in Mapped
  /\ UNCHANGED <<stack, hidden, centering, config, bar, dragged>>
  /\ Arrange([lws EXCEPT ![w].full = ~@])

\* resize_width, and PointerWidthResizeGrab::motion.
ResizeWidth(w) ==
  /\ w \in Mapped
  /\ UNCHANGED <<stack, hidden, centering, config, bar, dragged>>
  /\ \E width \in Overrides : Arrange([lws EXCEPT ![w].override = width])

\* focus_window, update_keyboard_focus and request_activation.
FocusWindow(w) ==
  /\ w \in Mapped
  /\ stack' = Raised(w)
  /\ UNCHANGED <<hidden, centering, config, bar, dragged>>
  /\ Arrange(lws)

\* switch_workspace: some windows are shown and the others hidden; the first of
\* those shown is raised.
SwitchWorkspace ==
  \E shown \in SUBSET Mapped :
    /\ hidden' = Mapped \ shown
    /\ \/ shown = {} /\ stack' = stack
       \/ \E w \in shown : shown \ Above(stack, shown, w) = {w} /\ stack' = Raised(w)
    /\ UNCHANGED <<centering, config, bar, dragged>>
    /\ Arrange(lws)

\* reload_config.
ReloadConfig ==
  /\ config' \in [layout : Layouts, animated : BOOLEAN] \ {config}
  /\ UNCHANGED <<stack, hidden, centering, bar, dragged>>
  /\ Arrange(lws)

\* ipc_focus_window raises the window too, and arranges nothing.
IpcFocusWindow(w) ==
  /\ w \in Mapped
  /\ stack' = Raised(w)
  /\ stale' = TRUE
  /\ UNCHANGED <<lws, hidden, centering, at, nextId, config, bar, dragged, strayed>>

\* Space::map_element of a window that the space has: it goes somewhere, to its
\* slot for all we know, and on top.  The four below arrange nothing.
MapElement(w) ==
  /\ w \in Mapped
  /\ stack' = Raised(w)
  /\ at' \in {[at EXCEPT ![w] = place] : place \in {Elsewhere, lws[w].target.loc}}
  /\ strayed' = strayed \cup {w}
  /\ stale' = TRUE
  /\ UNCHANGED <<lws, hidden, centering, nextId, config, bar, dragged>>

\* maximize_request: to the corner of the output.
MaximizeRequest(w) == w \notin X11 /\ MapElement(w)

\* ipc_move_window: to a place of the caller's.
IpcMoveWindow(w) == MapElement(w)

\* The motion of a grab that moves a window: at the request of its client
\* (move_request), with the modifier in the layout "floating", or the drag below.
MoveMotion(w) == MapElement(w)

\* The release of a resize by a left or top edge, for the far edge to stay.
ReleaseResize(w) == MapElement(w)

\* maximize_request_x11 only moves it.
MaximizeRequestX11(w) ==
  /\ w \in Mapped \cap X11
  /\ at' = [at EXCEPT ![w] = Elsewhere]
  /\ strayed' = strayed \cup {w}
  /\ UNCHANGED <<stack, lws, hidden, centering, nextId, config, bar, dragged, stale>>

\* configure_notify, and unmaximize_request with an OldGeometry: the window goes
\* where its client has it, a slot for all we know.
ConfigureNotify(w) ==
  /\ w \in Mapped \cap X11
  /\ at' \in {[at EXCEPT ![w] = place] : place \in {Elsewhere, lws[w].target.loc}}
  /\ strayed' = strayed \cup {w}
  /\ UNCHANGED <<stack, lws, hidden, centering, nextId, config, bar, dragged, stale>>

\* on_pointer_button starts a PointerLayoutMoveGrab, whose motion raises the
\* window; the others keep their slots.
DragBegin(w) ==
  /\ config.layout # "floating" /\ dragged = None
  /\ w \in Mapped \ (hidden \cup centering)
  /\ dragged' = w
  /\ lws' = [lws EXCEPT ![w] = [Detached(@) EXCEPT !.floating = TRUE]]
  /\ at' = [at EXCEPT ![w] = Elsewhere]
  /\ stack' = Raised(w)
  /\ stale' = TRUE
  /\ UNCHANGED <<hidden, centering, nextId, config, bar, strayed>>

Dropped == [lws EXCEPT ![dragged] = [Detached(@) EXCEPT !.floating = FALSE]]

\* reorder_layout_window, when the button is released: the window takes a slot
\* among the others, which keep their order.
Drop ==
  /\ dragged # None
  /\ \E i \in 1..Len(stack) : stack' = InsertAt(Without(stack, dragged), i, dragged)
  /\ dragged' = None
  /\ UNCHANGED <<hidden, centering, config, bar>>
  /\ Arrange(Dropped)

\* PointerLayoutMoveGrab::unset, when another grab takes the pointer: the window
\* is attached to the layout again, and stays where it is until the next time.
DragCancelled ==
  /\ dragged # None
  /\ dragged' = None
  /\ lws' = Dropped
  /\ stale' = TRUE
  /\ UNCHANGED <<stack, hidden, centering, at, nextId, config, bar, strayed>>
-----------------------------------------------------------------------------
(* A bar.                                                                  *)

\* new_layer_surface arranges, before the client can reserve a zone.
NewLayerSurface ==
  /\ bar = None
  /\ bar' = "mapped"
  /\ UNCHANGED <<stack, hidden, centering, config, dragged>>
  /\ Arrange(lws)

\* The commit of a layer surface arranges the layers and not the windows.
CommitLayer ==
  /\ bar # None
  /\ bar' \in {"mapped", "reserves"} \ {bar}
  /\ stale' = TRUE
  /\ UNCHANGED <<stack, lws, hidden, centering, at, nextId, config, dragged, strayed>>

\* layer_destroyed.
LayerDestroyed ==
  /\ bar # None
  /\ bar' = None
  /\ UNCHANGED <<stack, hidden, centering, config, dragged>>
  /\ Arrange(lws)

\* What goes on by itself, and what users and clients ask for.
Ongoing ==
  \/ Frame \/ Drop \/ DragCancelled
  \/ \E w \in Window : Commit(w)

Request ==
  \/ SwitchWorkspace \/ ReloadConfig
  \/ NewLayerSurface \/ CommitLayer \/ LayerDestroyed
  \/ \E w \in Window :
       \/ ToggleFloating(w) \/ ToggleMaximize(w) \/ ResizeWidth(w) \/ FocusWindow(w)
       \/ CommitAtOffset(w) \/ CommitWhileResized(w) \/ ReleaseResize(w)
       \/ IpcFocusWindow(w) \/ IpcMoveWindow(w) \/ MoveMotion(w)
       \/ MaximizeRequest(w) \/ MaximizeRequestX11(w) \/ ConfigureNotify(w)
       \/ DragBegin(w) \/ ToplevelDestroyed(w) \/ X11Destroyed(w)

Next ==
  \/ /\ \E w \in Window : NewToplevel(w) \/ MapX11(w) \/ MapOverrideRedirect(w)
     /\ UNCHANGED requests
  \/ Ongoing /\ UNCHANGED <<unborn, requests>>
  \/ requests < MaxRequests /\ requests' = requests + 1 /\ Request /\ UNCHANGED unborn

Spec == Init /\ [][Next]_vars
-----------------------------------------------------------------------------
TypeOK ==
  /\ Len(stack) = Cardinality(Mapped) /\ Mapped \subseteq Window \ unborn
  /\ hidden \cup centering \subseteq Mapped /\ strayed \subseteq Window
  /\ \A w \in Window :
       /\ {lws[w].floating, lws[w].initialized, lws[w].moving, lws[w].full} \subseteq BOOLEAN
       /\ lws[w].id \in 0..nextId /\ lws[w].override \in Overrides \cup {0}
       /\ w \notin Mapped => lws[w] = DefaultState
       /\ at[w] \in {Elsewhere} \cup Int \X Int
  /\ config \in [layout : Layouts, animated : BOOLEAN]
  /\ bar \in {None, "mapped", "reserves"}
  /\ dragged \in Mapped \cup {None}
  /\ requests \in 0..MaxRequests
  /\ stale \in BOOLEAN

\* The plan for the present state, and the windows in it.
TilesNow == Tiles(stack, lws, hidden \cup centering)
PlanNow == Plan(config.layout, stack, TilesNow, lws, WorkArea(bar))

\* What every arrangement promises, until something the plan reads changes
\* without one: the target of a tile is its slot, and the window is there, or
\* on its way, or was moved since, by its client, a user or the socket.
TilesInSlots ==
  /\ ~stale => \A w \in DOMAIN PlanNow : lws[w].target = PlanNow[w]
  /\ \A w \in Mapped :
       lws[w].target # NoTarget =>
         at[w] = lws[w].target.loc \/ lws[w].moving \/ w \in strayed

Right(r) == r.loc[1] + r.size[1]
Bottom(r) == r.loc[2] + r.size[2]
Apart(r, s) ==
  \/ Right(r) + Gap <= s.loc[1] \/ Right(s) + Gap <= r.loc[1]
  \/ Bottom(r) + Gap <= s.loc[2] \/ Bottom(s) + Gap <= r.loc[2]
Inside(r, s) == r.loc[1] >= s.loc[1] /\ r.loc[2] >= s.loc[2] /\ Right(r) <= Right(s) /\ Bottom(r) <= Bottom(s)

\* Fixed widths, which only columns honour, and gaps can ask for more than there
\* is: a length that is left is never negative (AtLeast0), a gap is always kept.
Roomy ==
  LET n == Cardinality(TilesNow)
      room == WorkArea(bar).size
      master == room[1] \div 2
  IN  /\ config.layout = "columns" =>
           Total(WidthOverrides(lws), TilesNow) + Gap * (n - 1) <= room[1]
      /\ config.layout = "grid" /\ n > 0 =>
           Gap * (GridColumns(n) - 1) <= room[1] /\ Gap * (GridRows(n) - 1) <= room[2]
      /\ config.layout = "master_stack" /\ n > 1 =>
           master + Gap <= room[1] /\ Gap * (n - 2) <= room[2]

\* The targets of tiles lie inside the work area and leave the gap between
\* them, in every layout that divides the area.
TilesFit ==
  /\ config.layout \in {"columns", "grid", "master_stack"} /\ ~stale
  /\ \A w \in DOMAIN PlanNow : ~lws[w].full
  /\ Roomy
  => \A w \in TilesNow :
       /\ Inside(lws[w].target, WorkArea(bar))
       /\ \A v \in TilesNow \ {w} : Apart(lws[w].target, lws[v].target)

\* layout.rs:222: "Stable id assigned to this window".  No two windows have the
\* same, 0 being none, and one that is not 0 is kept until the window is gone.
IdsIdentify ==
  [][/\ \A v, w \in Mapped' : v # w /\ lws'[v].id # 0 => lws'[v].id # lws'[w].id
     /\ \A w \in Mapped \cap Mapped' : lws[w].id # 0 => lws'[w].id = lws[w].id]_vars
=============================================================================
