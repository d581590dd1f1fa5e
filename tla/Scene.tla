-------------------------------- MODULE Scene -------------------------------
(***************************************************************************)
(* One point of one output: in which order render.rs draws what is there,  *)
(* what input_handler.rs sends pointer events to, and what it gives the    *)
(* keyboard focus when the point is clicked.  The order is written three   *)
(* times in the code, once for each.  Things that take no input are left   *)
(* out: the cursor, the window preview, blur and closing windows.          *)
(***************************************************************************)
EXTENDS Naturals, Sequences, SequencesExt, FiniteSets

CONSTANTS
  Window, NoWindow,
  MaxSurfaces,  \* the surfaces of a layer
  MaxTaking,    \* bound: how many things at a point take input
  MaxThrough    \* bound: how many layer surfaces there let it through

Layer == {"overlay", "top", "bottom", "background"}

\* The surfaces of the LayerMap of an output: the layer and the order of arrival.
LayerSurface == Layer \X (1..MaxSurfaces)

ASSUME SceneAssumption ==
  /\ IsFiniteSet(Window)
  /\ NoWindow \notin Window
  /\ LayerSurface \cap (Window \cup {NoWindow}) = {}
  /\ MaxSurfaces \in Nat /\ MaxTaking \in Nat /\ MaxThrough \in Nat

\* What an output shows: the windows from the bottom to the top, those that are
\* on the output, those of them that are hidden and those that are drawn, and its
\* FullscreenSurface.
View ==
  {[stack |-> q, here |-> W, hidden |-> W \cap H, shown |-> W \cap S, fullscreen |-> f] :
     q \in {r \in SeqOf(Window, Cardinality(Window)) : IsInjective(r)},
     W \in SUBSET Window, H \in SUBSET Window, S \in SUBSET Window,
     f \in Window \cup {NoWindow}}

\* What is at the point: the layer surfaces whose box holds it, what takes input
\* there, the layer surfaces among them that can take the keyboard, and whether
\* the fullscreen window, which is drawn elsewhere than the window, takes input.
Point ==
  LET Taking == {T \in SUBSET (LayerSurface \cup Window) : Cardinality(T) <= MaxTaking}
      Through == {B \in SUBSET LayerSurface : Cardinality(B) <= MaxThrough}
  IN  UNION {{[box |-> (T \cap LayerSurface) \cup B, takes |-> T, keyboard |-> K, full |-> f] :
                B \in Through, K \in SUBSET (T \cap LayerSurface), f \in BOOLEAN} : T \in Taking}

\* The first of several candidates: the first set that is not empty.
FirstOf(sets) ==
  LET found == {i \in DOMAIN sets : sets[i] # {}}
  IN  IF found = {} THEN {} ELSE sets[Min(found)]

\* The first member of q that is in S, if there is one.
First(q, S) == {q[i] : i \in {i \in DOMAIN q : q[i] \in S /\ \A j \in 1..(i - 1) : q[j] \notin S}}

\* LayerMap::layer_under: the surface of the layer that came last of those whose
\* box holds the point.
Newest(layer, p) ==
  {s \in p.box : s[1] = layer /\ \A t \in p.box : t[1] = layer => t[2] <= s[2]}

\* It ends the search, in the layer and in the next one, also when it lets the
\* input through.
LayerUnder(first, second, p) ==
  (IF Newest(first, p) # {} THEN Newest(first, p) ELSE Newest(second, p)) \cap p.takes

\* Space::element_under: the topmost window that takes the input.
ElementUnder(v, p) == First(Reverse(v.stack), v.here \cap p.takes)

FullscreenUnder(v, p) == IF v.fullscreen # NoWindow /\ p.full THEN {v.fullscreen} ELSE {}

\* render_layer: the surfaces as layers_on gives them, the oldest above the rest.
Surfaces(layer) == [i \in 1..MaxSurfaces |-> <<layer, i>>]

\* output_elements: what it goes through, from the top to the bottom, and what
\* it draws of that.  A fullscreen window hides everything, even the windows of
\* another workspace.
DrawOrder(v) ==
  IF v.fullscreen # NoWindow THEN <<v.fullscreen>>
  ELSE Surfaces("overlay") \o Surfaces("top") \o Reverse(v.stack)
         \o Surfaces("bottom") \o Surfaces("background")

Drawn(v) == IF v.fullscreen # NoWindow THEN {v.fullscreen} ELSE LayerSurface \cup v.shown

\* A mutated SurfaceUnder: the layers above the windows come after them.
SurfaceUnderWindowsFirst(v, p) ==
  FirstOf(<<FullscreenUnder(v, p), ElementUnder(v, p), LayerUnder("overlay", "top", p),
            LayerUnder("bottom", "background", p)>>)

\* surface_under.
SurfaceUnder(v, p) ==
  FirstOf(<<FullscreenUnder(v, p), LayerUnder("overlay", "top", p), ElementUnder(v, p),
            LayerUnder("bottom", "background", p)>>)

\* update_keyboard_focus: what a click focuses, and whether it raises it.  A
\* hidden window stops the search.
Nothing == [raise |-> FALSE, what |-> {}]

FocusUnder(v, p) ==
  LET upper == LayerUnder("overlay", "top", p) \cap p.keyboard
      window == ElementUnder(v, p)
      lower == LayerUnder("bottom", "background", p) \cap p.keyboard
  IN  IF FullscreenUnder(v, p) # {} THEN [raise |-> FALSE, what |-> FullscreenUnder(v, p)]
      ELSE IF upper # {} THEN [raise |-> FALSE, what |-> upper]
      ELSE IF window \cap v.hidden # {} THEN Nothing
      ELSE IF window # {} THEN [raise |-> TRUE, what |-> window]
      ELSE [raise |-> FALSE, what |-> lower]
-----------------------------------------------------------------------------
\* Where the code lets the input through to what cannot be seen: past a
\* fullscreen window that does not take it, and past a layer surface that only
\* covers the point.  A window that is neither drawn nor hidden waits for its
\* first commit and has no surface to take anything.
Opaque(v, p) ==
  /\ v.fullscreen # NoWindow => p.full
  /\ p.box \subseteq p.takes
  /\ p.takes \cap v.here \subseteq v.hidden \cup v.shown

\* The pointer's events go to the topmost thing drawn that takes them, with two
\* exceptions, both of the code: a window of another workspace takes them first,
\* which surface_under does not tell from the others, and where surfaces of one
\* layer overlap the newest takes them, under the oldest, which is drawn on top.
PointerFollowsDrawing(v, p) ==
  LET taking == IF v.fullscreen # NoWindow THEN {v.fullscreen} ELSE p.takes
      seen == First(DrawOrder(v), Drawn(v) \cap taking)
  IN  Opaque(v, p) =>
        \/ SurfaceUnder(v, p) = seen
        \/ SurfaceUnder(v, p) \cap v.hidden # {}
        \/ \E s \in SurfaceUnder(v, p) \cap LayerSurface, t \in seen \cap LayerSurface :
             s[1] = t[1]

\* A click never focuses or raises a window that is not drawn.
ClickFollowsDrawing(v, p) ==
  Opaque(v, p) =>
    LET f == FocusUnder(v, p)
    IN  f.what \cap Window \subseteq Drawn(v)
=============================================================================
