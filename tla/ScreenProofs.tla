----------------------------- MODULE ScreenProofs ----------------------------
(***************************************************************************)
(* What is seen, in two parts that share no state.  For any outputs,       *)
(* finitely many windows and any number of layer surfaces: input goes to   *)
(* what is drawn on top, wherever the point, but for two exceptions, and   *)
(* the clients of fullscreen windows know (Screen).  For any areas and     *)
(* ages: a nested backend submits whole pictures (NestedLoop).             *)
(***************************************************************************)
EXTENDS Screen, NestedLoop, SequenceTheorems, FiniteSetTheorems, WellFoundedInduction, TLAPS

-----------------------------------------------------------------------------
(* The first of several.                                                   *)

\* A set of natural numbers has a least element.
LEMMA SmallestNat ==
  ASSUME NEW T \in SUBSET Nat, T # {}
  PROVE  \E n \in T : \A m \in T : n <= m
<1>1. PICK n \in T : \A m \in T : ~ (<<m, n>> \in OpToRel(<, Nat))
  BY NatLessThanWellFounded, WFMin
<1>2. \A m \in T : ~(m < n)
  BY <1>1 DEF OpToRel
<1>3. QED BY <1>2

\* First is the member that has none before it.
LEMMA FirstIs ==
  ASSUME NEW A, NEW q \in Seq(A), NEW S, NEW i \in 1..Len(q), q[i] \in S,
         \A j \in 1..(i - 1) : q[j] \notin S
  PROVE  First(q, S) = {q[i]}
<1>1. Len(q) \in Nat /\ DOMAIN q = 1..Len(q)
  BY LenProperties
<1>2. ASSUME NEW k \in 1..Len(q), q[k] \in S, \A j \in 1..(k - 1) : q[j] \notin S
      PROVE  k = i
  <2>1. ~(k < i) /\ ~(i < k)
    BY <1>1, <1>2
  <2>2. QED BY <1>1, <2>1
<1>3. QED BY <1>1, <1>2 DEF First

\* There is a first if there is any.
LEMMA FirstOrNone ==
  ASSUME NEW A, NEW q \in Seq(A), NEW S
  PROVE  \/ First(q, S) = {} /\ \A i \in 1..Len(q) : q[i] \notin S
         \/ \E i \in 1..Len(q) :
              /\ First(q, S) = {q[i]} /\ q[i] \in S
              /\ \A j \in 1..(i - 1) : q[j] \notin S
<1> DEFINE T == {i \in 1..Len(q) : q[i] \in S}
<1>1. Len(q) \in Nat /\ DOMAIN q = 1..Len(q)
  BY LenProperties
<1>2. CASE T = {}
  BY <1>1, <1>2 DEF First
<1>3. CASE T # {}
  <2>1. PICK i \in T : \A j \in T : i <= j
    <3>1. T \in SUBSET Nat
      BY <1>1
    <3> HIDE DEF T
    <3>2. QED BY <1>3, <3>1, SmallestNat
  <2>2. i \in 1..Len(q) /\ q[i] \in S
    OBVIOUS
  <2>3. \A j \in 1..(i - 1) : q[j] \notin S
    <3>1. \A j \in 1..(i - 1) : j \in 1..Len(q) /\ ~(i <= j)
      BY <1>1, <2>2
    <3>2. QED BY <2>1, <3>1
  <2>4. First(q, S) = {q[i]}
    BY <2>2, <2>3, FirstIs
  <2>5. QED BY <2>2, <2>3, <2>4
<1>4. QED BY <1>2, <1>3

\* What First finds is a member of both.
LEMMA FirstMembers ==
  ASSUME NEW q, NEW S
  PROVE  First(q, S) \subseteq S \cap {q[i] : i \in DOMAIN q}
BY DEF First

\* The candidates of a hit test are taken in the order in which they are written.
LEMMA FirstOfFour ==
  ASSUME NEW A, NEW B, NEW C, NEW D
  PROVE  FirstOf(<<A, B, C, D>>) =
           IF A # {} THEN A ELSE IF B # {} THEN B ELSE IF C # {} THEN C ELSE D
<1> DEFINE sets == <<A, B, C, D>>
           found == {i \in DOMAIN sets : sets[i] # {}}
<1>1. /\ DOMAIN sets = 1..4
      /\ sets[1] = A /\ sets[2] = B /\ sets[3] = C /\ sets[4] = D
  OBVIOUS
<1> HIDE DEF sets
<1>2. \A i \in found : (\A j \in found : i <= j) => Min(found) = i
  BY <1>1 DEF Min
<1>3. FirstOf(sets) = IF found = {} THEN {} ELSE sets[Min(found)]
  BY DEF FirstOf
<1>4. CASE A # {}
  <2>1. 1 \in found /\ \A j \in found : 1 <= j
    BY <1>1, <1>4
  <2>2. QED BY <1>1, <1>2, <1>3, <1>4, <2>1 DEF sets
<1>5. CASE A = {} /\ B # {}
  <2>1. 2 \in found /\ \A j \in found : 2 <= j
    BY <1>1, <1>5
  <2>2. QED BY <1>1, <1>2, <1>3, <1>5, <2>1 DEF sets
<1>6. CASE A = {} /\ B = {} /\ C # {}
  <2>1. 3 \in found /\ \A j \in found : 3 <= j
    BY <1>1, <1>6
  <2>2. QED BY <1>1, <1>2, <1>3, <1>6, <2>1 DEF sets
<1>7. CASE A = {} /\ B = {} /\ C = {} /\ D # {}
  <2>1. 4 \in found /\ \A j \in found : 4 <= j
    BY <1>1, <1>7
  <2>2. QED BY <1>1, <1>2, <1>3, <1>7, <2>1 DEF sets
<1>8. CASE A = {} /\ B = {} /\ C = {} /\ D = {}
  <2>1. found = {}
    BY <1>1, <1>8
  <2>2. QED BY <1>3, <1>8, <2>1 DEF sets
<1>9. QED BY <1>4, <1>5, <1>6, <1>7, <1>8

-----------------------------------------------------------------------------
(* What is drawn on top takes the input.                                   *)

\* The views and points of the properties, without their bounds: any stack of
\* windows, and any number of things at the point.
IsView(v) ==
  /\ v.stack \in Seq(Window) /\ v.here \subseteq Window
  /\ v.hidden \subseteq v.here /\ v.shown \subseteq v.here
  /\ v.fullscreen \in Window \cup {NoWindow}

IsPoint(p) ==
  /\ p.takes \subseteq LayerSurface \cup Window /\ p.box \subseteq LayerSurface
  /\ p.takes \cap LayerSurface \subseteq p.box

LEMMA ViewsAndPoints ==
  /\ \A v \in View : IsView(v)
  /\ \A p \in Point : IsPoint(p)
<1>1. ASSUME NEW v \in View PROVE IsView(v)
  <2>1. PICK q \in SeqOf(Window, Cardinality(Window)), W \in SUBSET Window,
             H \in SUBSET Window, S \in SUBSET Window, f \in Window \cup {NoWindow} :
          v = [stack |-> q, here |-> W, hidden |-> W \cap H, shown |-> W \cap S,
               fullscreen |-> f]
    BY DEF View
  <2>2. q \in Seq(Window)
    <3>1. PICK m \in 0..Cardinality(Window) : q \in [1..m -> Window]
      BY DEF SeqOf
    <3>2. m \in Nat
      BY <3>1, SceneAssumption, FS_CardinalityType
    <3>3. QED BY <3>1, <3>2
  <2>3. QED BY <2>1, <2>2 DEF IsView
<1>2. ASSUME NEW p \in Point PROVE IsPoint(p)
  <2>1. PICK T \in SUBSET (LayerSurface \cup Window) :
          \E B \in SUBSET LayerSurface, K \in SUBSET (T \cap LayerSurface), f \in BOOLEAN :
            p = [box |-> (T \cap LayerSurface) \cup B, takes |-> T, keyboard |-> K, full |-> f]
    BY DEF Point
  <2>2. QED BY <2>1 DEF IsPoint
<1>3. QED BY <1>1, <1>2

\* The first of two sequences in a row is that of the first one, if it has any.
LEMMA FirstOfRow ==
  ASSUME NEW A, NEW a \in Seq(A), NEW b \in Seq(A), NEW S
  PROVE  First(a \o b, S) = IF First(a, S) # {} THEN First(a, S) ELSE First(b, S)
<1> DEFINE r == a \o b
<1>1. /\ r \in Seq(A) /\ Len(r) = Len(a) + Len(b)
      /\ \A i \in 1..(Len(a) + Len(b)) : r[i] = IF i <= Len(a) THEN a[i] ELSE b[i - Len(a)]
  BY ConcatProperties
<1>2. Len(a) \in Nat /\ Len(b) \in Nat
  BY LenProperties
<1>3. \A i \in 1..Len(a) : i \in 1..Len(r) /\ r[i] = a[i]
  BY <1>1, <1>2
<1>4. ASSUME NEW i \in 1..Len(b)
      PROVE  Len(a) + i \in 1..Len(r) /\ r[Len(a) + i] = b[i]
  <2>1. /\ Len(a) + i \in 1..(Len(a) + Len(b)) /\ ~(Len(a) + i <= Len(a))
        /\ Len(a) + i - Len(a) = i
    BY <1>2
  <2>2. QED BY <1>1, <2>1
<1> HIDE DEF r
<1>5. CASE \E i \in 1..Len(a) : a[i] \in S
  <2>1. PICK i \in 1..Len(a) :
          First(a, S) = {a[i]} /\ a[i] \in S /\ \A j \in 1..(i - 1) : a[j] \notin S
    BY <1>5, FirstOrNone
  <2>2. i \in 1..Len(r) /\ r[i] = a[i]
    BY <1>3
  <2>3. \A j \in 1..(i - 1) : r[j] \notin S
    <3>1. \A j \in 1..(i - 1) : j \in 1..Len(a)
      BY <1>2
    <3>2. QED BY <1>3, <2>1, <3>1
  <2>4. First(r, S) = {r[i]}
    BY <1>1, <2>1, <2>2, <2>3, FirstIs
  <2>5. QED BY <2>1, <2>2, <2>4 DEF r
<1>6. CASE \A i \in 1..Len(a) : a[i] \notin S
  <2>1. First(a, S) = {}
    BY <1>6, FirstOrNone
  <2>2. ASSUME NEW i \in 1..Len(b), b[i] \in S, \A j \in 1..(i - 1) : b[j] \notin S
        PROVE  First(r, S) = {b[i]}
    <3>1. Len(a) + i \in 1..Len(r) /\ r[Len(a) + i] = b[i]
      BY <1>4
    <3>2. ASSUME NEW j \in 1..(Len(a) + i - 1) PROVE r[j] \notin S
      <4>1. CASE j <= Len(a)
        <5>1. j \in 1..Len(a)
          BY <4>1
        <5>2. QED BY <1>3, <1>6, <5>1
      <4>2. CASE ~(j <= Len(a))
        <5>1. j - Len(a) \in 1..(i - 1) /\ j - Len(a) \in 1..Len(b) /\ Len(a) + (j - Len(a)) = j
          BY <1>2, <4>2
        <5>2. r[Len(a) + (j - Len(a))] = b[j - Len(a)]
          BY <1>4, <5>1
        <5>3. QED BY <2>2, <5>1, <5>2
      <4>3. QED BY <4>1, <4>2
    <3>3. First(r, S) = {r[Len(a) + i]}
      <4> DEFINE m == Len(a) + i
      <4>1. m \in 1..Len(r) /\ r[m] \in S /\ \A j \in 1..(m - 1) : r[j] \notin S
        BY <2>2, <3>1, <3>2
      <4> HIDE DEF m
      <4>2. First(r, S) = {r[m]}
        BY <1>1, <4>1, FirstIs
      <4>3. QED BY <4>2 DEF m
    <3>4. QED BY <3>1, <3>3
  <2>3. CASE \E i \in 1..Len(b) : b[i] \in S
    <3>1. PICK i \in 1..Len(b) :
            First(b, S) = {b[i]} /\ b[i] \in S /\ \A j \in 1..(i - 1) : b[j] \notin S
      BY <2>3, FirstOrNone
    <3>2. QED BY <2>1, <2>2, <3>1 DEF r
  <2>4. CASE \A i \in 1..Len(b) : b[i] \notin S
    <3>1. ASSUME NEW j \in 1..Len(r) PROVE r[j] \notin S
      <4>1. j \in 1..Len(a) \/ (j - Len(a) \in 1..Len(b) /\ Len(a) + (j - Len(a)) = j)
        BY <1>1, <1>2
      <4>2. CASE j \in 1..Len(a)
        BY <1>3, <1>6, <4>2
      <4>3. CASE j - Len(a) \in 1..Len(b) /\ Len(a) + (j - Len(a)) = j
        BY <1>4, <2>4, <4>3
      <4>4. QED BY <4>1, <4>2, <4>3
    <3>2. First(r, S) = {} /\ First(b, S) = {}
      BY <1>1, <2>4, <3>1, FirstOrNone
    <3>3. QED BY <2>1, <3>2 DEF r
  <2>5. QED BY <2>3, <2>4
<1>7. QED BY <1>5, <1>6

\* The surfaces of a layer at the point, whichever of them.
OfLayer(layer, S) == {s \in S \cap LayerSurface : s[1] = layer}

\* render_layer draws one of them on top, if there are any.
LEMMA FirstSurface ==
  ASSUME NEW l \in Layer, NEW S
  PROVE  /\ Surfaces(l) \in Seq(LayerSurface)
         /\ First(Surfaces(l), S) \subseteq OfLayer(l, S)
         /\ OfLayer(l, S) # {} => First(Surfaces(l), S) # {}
<1> DEFINE q == Surfaces(l)
<1>1. q \in [1..MaxSurfaces -> LayerSurface] /\ \A i \in 1..MaxSurfaces : q[i] = <<l, i>>
  BY DEF Surfaces, LayerSurface
<1>2. q \in Seq(LayerSurface) /\ Len(q) = MaxSurfaces /\ DOMAIN q = 1..MaxSurfaces
  BY <1>1, SceneAssumption
<1> HIDE DEF q
<1>3. First(q, S) \subseteq OfLayer(l, S)
  <2>1. \A i \in DOMAIN q : q[i] \in LayerSurface /\ q[i][1] = l
    BY <1>1, <1>2
  <2>2. QED BY <2>1, FirstMembers DEF OfLayer
<1>4. ASSUME NEW s \in OfLayer(l, S) PROVE First(q, S) # {}
  <2>1. PICK i \in 1..MaxSurfaces : s = <<l, i>>
    BY DEF OfLayer, LayerSurface
  <2>2. q[i] \in S /\ i \in 1..Len(q)
    BY <1>1, <1>2, <2>1 DEF OfLayer
  <2>3. QED BY <1>2, <2>2, FirstOrNone
<1>5. QED BY <1>2, <1>3, <1>4 DEF q

\* layer_under finds one of them, if there are any.
LEMMA NewestOfLayer ==
  ASSUME NEW p, IsPoint(p), NEW l \in Layer
  PROVE  /\ Newest(l, p) \subseteq OfLayer(l, p.box)
         /\ OfLayer(l, p.box) # {} => Newest(l, p) # {}
<1>1. p.box \subseteq LayerSurface
  BY DEF IsPoint
<1>2. Newest(l, p) \subseteq OfLayer(l, p.box)
  BY <1>1 DEF Newest, OfLayer
<1>3. ASSUME NEW s \in OfLayer(l, p.box) PROVE Newest(l, p) # {}
  <2> DEFINE A == {MaxSurfaces - t[2] : t \in OfLayer(l, p.box)}
  <2>1. \A t \in LayerSurface : t[2] \in 1..MaxSurfaces /\ MaxSurfaces - t[2] \in Nat
    BY SceneAssumption DEF LayerSurface
  <2>2. A \in SUBSET Nat /\ A # {}
    BY <2>1 DEF OfLayer
  <2>3. PICK n \in A : \A m \in A : n <= m
    <3> HIDE DEF A
    <3>1. QED BY <2>2, SmallestNat
  <2>4. PICK t \in OfLayer(l, p.box) : n = MaxSurfaces - t[2]
    OBVIOUS
  <2>5. ASSUME NEW u \in p.box, u[1] = l PROVE u[2] <= t[2]
    <3>1. u \in OfLayer(l, p.box)
      BY <1>1, <2>5 DEF OfLayer
    <3>2. MaxSurfaces - t[2] <= MaxSurfaces - u[2]
      BY <2>3, <2>4, <3>1
    <3>3. t[2] \in 1..MaxSurfaces /\ u[2] \in 1..MaxSurfaces
      BY <2>1, <3>1 DEF OfLayer
    <3>4. QED BY <3>2, <3>3, SceneAssumption
  <2>6. t \in Newest(l, p)
    BY <2>5 DEF Newest, OfLayer
  <2>7. QED BY <2>6
<1>4. QED BY <1>2, <1>3

\* Of two layers that take all input, layer_under finds a surface of the one that
\* output_elements draws above the other.
LEMMA LayersAgree ==
  ASSUME NEW p, IsPoint(p), NEW T, T \cap LayerSurface = p.box, p.box \subseteq p.takes,
         NEW k \in Layer, NEW l \in Layer
  PROVE  LET seen == IF First(Surfaces(k), T) # {} THEN First(Surfaces(k), T)
                     ELSE First(Surfaces(l), T)
         IN  \/ seen = {} /\ LayerUnder(k, l, p) = {}
             \/ seen # {} /\ \E s \in LayerUnder(k, l, p) \cap LayerSurface,
                                t \in seen \cap LayerSurface : s[1] = t[1]
<1>1. ASSUME NEW m \in Layer
      PROVE  \/ First(Surfaces(m), T) = {} /\ Newest(m, p) = {}
             \/ \E s \in Newest(m, p) \cap LayerSurface,
                   t \in First(Surfaces(m), T) \cap LayerSurface : s[1] = t[1]
  <2>1. OfLayer(m, T) = OfLayer(m, p.box)
    BY DEF OfLayer, IsPoint
  <2>2. First(Surfaces(m), T) \subseteq OfLayer(m, T) /\ Newest(m, p) \subseteq OfLayer(m, T)
    BY <2>1, FirstSurface, NewestOfLayer
  <2>3. CASE OfLayer(m, T) = {}
    BY <2>2, <2>3
  <2>4. CASE OfLayer(m, T) # {}
    <3>1. PICK s \in Newest(m, p), t \in First(Surfaces(m), T) : TRUE
      BY <2>1, <2>4, FirstSurface, NewestOfLayer
    <3>2. s \in OfLayer(m, T) /\ t \in OfLayer(m, T)
      BY <2>2
    <3>3. QED BY <3>2 DEF OfLayer
  <2>5. QED BY <2>3, <2>4
<1>2. \A m \in Layer : Newest(m, p) \cap p.takes = Newest(m, p)
  BY DEF Newest
<1>3. LayerUnder(k, l, p) = IF Newest(k, p) # {} THEN Newest(k, p) ELSE Newest(l, p)
  BY <1>2 DEF LayerUnder
<1>4. QED BY <1>1, <1>3

\* output_elements goes through the layers above, the windows from the top to the
\* bottom, and the layers below.
LEMMA OrderOfDrawing ==
  ASSUME NEW v, IsView(v), v.fullscreen = NoWindow, NEW T
  PROVE  LET above == IF First(Surfaces("overlay"), T) # {} THEN First(Surfaces("overlay"), T)
                      ELSE First(Surfaces("top"), T)
             windows == First(Reverse(v.stack), T)
             below == IF First(Surfaces("bottom"), T) # {} THEN First(Surfaces("bottom"), T)
                      ELSE First(Surfaces("background"), T)
         IN  First(DrawOrder(v), T) =
               IF above # {} THEN above ELSE IF windows # {} THEN windows ELSE below
<1> DEFINE A == LayerSurface \cup Window
           o == Surfaces("overlay")
           t == Surfaces("top")
           r == Reverse(v.stack)
           b == Surfaces("bottom")
           g == Surfaces("background")
<1>1. o \in Seq(A) /\ t \in Seq(A) /\ b \in Seq(A) /\ g \in Seq(A)
  <2>1. \A l \in Layer : Surfaces(l) \in Seq(LayerSurface)
    BY FirstSurface
  <2>2. \A q \in Seq(LayerSurface) : q \in Seq(A)
    OBVIOUS
  <2>3. QED BY <2>1, <2>2 DEF Layer
<1>2. r \in Seq(A)
  <2>1. Len(v.stack) \in Nat /\ v.stack \in [1..Len(v.stack) -> Window]
    BY LenProperties DEF IsView
  <2>2. r \in [1..Len(v.stack) -> A]
    BY <2>1 DEF Reverse
  <2>3. QED BY <2>1, <2>2
<1> DEFINE ot == o \o t
           otr == ot \o r
           otrb == otr \o b
<1>3. DrawOrder(v) = otrb \o g
  BY DEF DrawOrder
<1> HIDE DEF A, o, t, r, b, g
<1>4. ot \in Seq(A) /\ First(ot, T) = IF First(o, T) # {} THEN First(o, T) ELSE First(t, T)
  BY <1>1, ConcatProperties, FirstOfRow
<1> HIDE DEF ot
<1>5. otr \in Seq(A) /\ First(otr, T) = IF First(ot, T) # {} THEN First(ot, T) ELSE First(r, T)
  BY <1>2, <1>4, ConcatProperties, FirstOfRow
<1> HIDE DEF otr
<1>6. /\ otrb \in Seq(A)
      /\ First(otrb, T) = IF First(otr, T) # {} THEN First(otr, T) ELSE First(b, T)
  BY <1>1, <1>5, ConcatProperties, FirstOfRow
<1> HIDE DEF otrb
<1>7. First(otrb \o g, T) = IF First(otrb, T) # {} THEN First(otrb, T) ELSE First(g, T)
  BY <1>1, <1>6, FirstOfRow
<1>8. QED BY <1>3, <1>4, <1>5, <1>6, <1>7 DEF o, t, r, b, g

\* Of the windows, element_under finds the one drawn on top, or a hidden one.
LEMMA WindowsAgree ==
  ASSUME NEW v, IsView(v), NEW p, IsPoint(p), Opaque(v, p),
         NEW T, \A w \in Window : w \in T <=> w \in v.shown \cap p.takes
  PROVE  \/ ElementUnder(v, p) \cap v.hidden # {}
         \/ ElementUnder(v, p) = First(Reverse(v.stack), T)
<1> DEFINE r == Reverse(v.stack)
           S == v.here \cap p.takes
<1>1. Len(v.stack) \in Nat /\ v.stack \in [1..Len(v.stack) -> Window]
  BY LenProperties DEF IsView
<1>2. r \in Seq(Window)
  <2>1. r \in [1..Len(v.stack) -> Window]
    BY <1>1 DEF Reverse
  <2>2. QED BY <1>1, <2>1
<1> HIDE DEF r
<1>3. Len(r) \in Nat /\ \A i \in 1..Len(r) : r[i] \in Window
  BY <1>2, ElementOfSeq, LenProperties
<1>4. \A w \in Window : w \in T => w \in S
  BY DEF IsView
<1>5. CASE \A i \in 1..Len(r) : r[i] \notin S
  <2>1. \A i \in 1..Len(r) : r[i] \notin T
    BY <1>3, <1>4, <1>5
  <2>2. First(r, S) = {} /\ First(r, T) = {}
    BY <1>2, <1>5, <2>1, FirstOrNone
  <2>3. QED BY <2>2 DEF ElementUnder, r
<1>6. CASE \E i \in 1..Len(r) : r[i] \in S
  <2>1. PICK i \in 1..Len(r) :
          First(r, S) = {r[i]} /\ r[i] \in S /\ \A j \in 1..(i - 1) : r[j] \notin S
    BY <1>2, <1>6, FirstOrNone
  <2>2. ElementUnder(v, p) = {r[i]}
    BY <2>1 DEF ElementUnder, r
  <2>3. CASE r[i] \in v.hidden
    BY <2>2, <2>3
  <2>4. CASE r[i] \notin v.hidden
    <3>1. r[i] \in T
      BY <1>3, <2>1, <2>4 DEF Opaque
    <3>2. \A j \in 1..(i - 1) : j \in 1..Len(r)
      BY <1>3
    <3>3. \A j \in 1..(i - 1) : r[j] \notin T
      BY <1>3, <1>4, <2>1, <3>2
    <3>4. First(r, T) = {r[i]}
      BY <1>2, <3>1, <3>3, FirstIs
    <3>5. QED BY <2>2, <3>4 DEF r
  <2>5. QED BY <2>3, <2>4
<1>7. QED BY <1>5, <1>6

\* surface_under finds what output_elements draws on top of the rest that takes
\* the pointer's events, or a hidden window, or another surface of that layer.
LEMMA PointerOnTop ==
  ASSUME NEW v, IsView(v), NEW p, IsPoint(p)
  PROVE  PointerFollowsDrawing(v, p)
<1> DEFINE taking == IF v.fullscreen # NoWindow THEN {v.fullscreen} ELSE p.takes
           T == Drawn(v) \cap taking
           seen == First(DrawOrder(v), T)
           U == LayerUnder("overlay", "top", p)
           E == ElementUnder(v, p)
           B == LayerUnder("bottom", "background", p)
<1> SUFFICES ASSUME Opaque(v, p)
             PROVE  \/ SurfaceUnder(v, p) = seen
                    \/ SurfaceUnder(v, p) \cap v.hidden # {}
                    \/ \E s \in SurfaceUnder(v, p) \cap LayerSurface,
                          t \in seen \cap LayerSurface : s[1] = t[1]
  BY DEF PointerFollowsDrawing
<1>1. SurfaceUnder(v, p) =
        IF FullscreenUnder(v, p) # {} THEN FullscreenUnder(v, p)
        ELSE IF U # {} THEN U ELSE IF E # {} THEN E ELSE B
  BY FirstOfFour DEF SurfaceUnder
<1>2. CASE v.fullscreen # NoWindow
  <2>1. SurfaceUnder(v, p) = {v.fullscreen}
    BY <1>1, <1>2 DEF FullscreenUnder, Opaque
  <2>2. First(<<v.fullscreen>>, {v.fullscreen}) = {v.fullscreen}
    <3> DEFINE one == <<v.fullscreen>>
    <3>1. one \in Seq({v.fullscreen}) /\ 1 \in 1..Len(one) /\ one[1] = v.fullscreen
      OBVIOUS
    <3> HIDE DEF one
    <3>2. First(one, {v.fullscreen}) = {one[1]}
      BY <3>1, FirstIs
    <3>3. QED BY <3>1, <3>2 DEF one
  <2>3. QED BY <1>2, <2>1, <2>2 DEF DrawOrder, Drawn
<1>3. CASE v.fullscreen = NoWindow
  <2>1. T = (LayerSurface \cup v.shown) \cap p.takes /\ FullscreenUnder(v, p) = {}
    BY <1>3 DEF Drawn, FullscreenUnder
  <2>2. Window \cap LayerSurface = {} /\ v.shown \subseteq Window
    BY SceneAssumption DEF IsView
  <2>3. T \cap LayerSurface = p.box /\ p.box \subseteq p.takes
    BY <2>1, <2>2 DEF IsPoint, Opaque
  <2>4. \A w \in Window : w \in T <=> w \in v.shown \cap p.takes
    BY <2>1, <2>2
  <2> DEFINE above == IF First(Surfaces("overlay"), T) # {} THEN First(Surfaces("overlay"), T)
                      ELSE First(Surfaces("top"), T)
             windows == First(Reverse(v.stack), T)
             below == IF First(Surfaces("bottom"), T) # {} THEN First(Surfaces("bottom"), T)
                      ELSE First(Surfaces("background"), T)
  <2> HIDE DEF T
  <2>5. seen = IF above # {} THEN above ELSE IF windows # {} THEN windows ELSE below
    BY <1>3, OrderOfDrawing
  <2>6. \/ above = {} /\ U = {}
        \/ above # {} /\ \E s \in U \cap LayerSurface, t \in above \cap LayerSurface : s[1] = t[1]
    BY <2>3, LayersAgree DEF Layer
  <2>7. \/ below = {} /\ B = {}
        \/ below # {} /\ \E s \in B \cap LayerSurface, t \in below \cap LayerSurface : s[1] = t[1]
    BY <2>3, LayersAgree DEF Layer
  <2>8. E \cap v.hidden # {} \/ E = windows
    BY <2>4, WindowsAgree
  <2> HIDE DEF above, windows, below, U, B, E, seen
  <2>9. SurfaceUnder(v, p) = IF U # {} THEN U ELSE IF E # {} THEN E ELSE B
    BY <1>1, <2>1
  <2>10. CASE U # {}
    BY <2>5, <2>6, <2>9, <2>10
  <2>11. CASE U = {} /\ E # {}
    BY <2>5, <2>6, <2>8, <2>9, <2>11
  <2>12. CASE U = {} /\ E = {}
    BY <2>5, <2>6, <2>7, <2>8, <2>9, <2>12
  <2>13. QED BY <2>10, <2>11, <2>12
<1>4. QED BY <1>2, <1>3

\* What update_keyboard_focus finds is drawn.
LEMMA ClickOnDrawn ==
  ASSUME NEW v, IsView(v), NEW p, IsPoint(p)
  PROVE  ClickFollowsDrawing(v, p)
<1> SUFFICES ASSUME Opaque(v, p)
             PROVE  FocusUnder(v, p).what \cap Window \subseteq Drawn(v)
  BY DEF ClickFollowsDrawing
<1> DEFINE upper == LayerUnder("overlay", "top", p) \cap p.keyboard
           lower == LayerUnder("bottom", "background", p) \cap p.keyboard
           window == ElementUnder(v, p)
<1>1. upper \cap Window = {} /\ lower \cap Window = {}
  BY SceneAssumption DEF LayerUnder, Newest, IsPoint
<1>2. window \subseteq v.here \cap p.takes
  BY FirstMembers DEF ElementUnder
<1>3. CASE v.fullscreen # NoWindow
  BY <1>3 DEF FocusUnder, FullscreenUnder, Opaque, Drawn
<1>4. CASE v.fullscreen = NoWindow
  <2>1. FullscreenUnder(v, p) = {} /\ v.shown \subseteq Drawn(v)
    BY <1>4 DEF FullscreenUnder, Drawn
  <2>2. window \cap v.hidden = {} => window \subseteq Drawn(v)
    BY <1>2, <2>1 DEF Opaque
  <2>3. \/ FocusUnder(v, p).what = upper
        \/ FocusUnder(v, p).what = {}
        \/ window \cap v.hidden = {} /\ FocusUnder(v, p).what = window
        \/ FocusUnder(v, p).what = lower
    BY <2>1 DEF FocusUnder, Nothing
  <2>4. QED BY <1>1, <2>2, <2>3
<1>5. QED BY <1>3, <1>4

-----------------------------------------------------------------------------
(* The types.                                                              *)

Members(q) == {q[i] : i \in 1..Len(q)}

\* Taking a window out of a stack that has it once takes it away.
LEMMA WithoutProperties ==
  ASSUME NEW q \in Seq(Window), IsInjective(q), NEW w \in Members(q)
  PROVE  /\ Without(q, w) \in Seq(Window) /\ IsInjective(Without(q, w))
         /\ Members(Without(q, w)) = Members(q) \ {w}
<1> DEFINE k == CHOOSE i \in DOMAIN q : q[i] = w
           a == SubSeq(q, 1, k - 1)
           b == SubSeq(q, k + 1, Len(q))
           r == a \o b
<1>1. Len(q) \in Nat /\ DOMAIN q = 1..Len(q) /\ \A i \in 1..Len(q) : q[i] \in Window
  BY LenProperties, ElementOfSeq
<1>2. k \in 1..Len(q) /\ q[k] = w
  BY <1>1 DEF Members
<1> HIDE DEF k
<1>3. Len(q) \in Nat /\ k \in 1..Len(q)
  BY <1>1, <1>2
<1>4. /\ a \in Seq(Window) /\ Len(a) = k - 1
      /\ \A i \in 1..(k - 1) : a[i] = q[i]
  <2>1. 1 \in Int /\ k - 1 \in Int /\ \A i \in 1..(k - 1) : q[i] \in Window
    BY <1>1, <1>2
  <2>2. /\ SubSeq(q, 1, k - 1) \in Seq(Window)
        /\ Len(SubSeq(q, 1, k - 1)) = IF 1 <= k - 1 THEN k - 1 - 1 + 1 ELSE 0
        /\ \A i \in 1..(k - 1 - 1 + 1) : SubSeq(q, 1, k - 1)[i] = q[1 + i - 1]
    BY <2>1, SubSeqProperties
  <2>3. QED BY <1>1, <1>2, <2>2
<1>5. /\ b \in Seq(Window) /\ Len(b) = Len(q) - k
      /\ \A i \in 1..(Len(q) - k) : b[i] = q[k + i]
  <2>1. \A i \in (k + 1)..Len(q) : q[i] \in Window
    BY <1>1, <1>2
  <2>2. /\ SubSeq(q, k + 1, Len(q)) \in Seq(Window)
        /\ Len(SubSeq(q, k + 1, Len(q))) = IF k + 1 <= Len(q) THEN Len(q) - (k + 1) + 1 ELSE 0
        /\ \A i \in 1..(Len(q) - (k + 1) + 1) :
             SubSeq(q, k + 1, Len(q))[i] = q[k + 1 + i - 1]
    BY <1>1, <1>2, <2>1, SubSeqProperties
  <2>3. (IF k + 1 <= Len(q) THEN Len(q) - (k + 1) + 1 ELSE 0) = Len(q) - k
    BY <1>3
  <2>4. ASSUME NEW i \in 1..(Len(q) - k) PROVE b[i] = q[k + i]
    <3>1. i \in 1..(Len(q) - (k + 1) + 1) /\ k + 1 + i - 1 = k + i
      BY <1>1, <1>2
    <3>2. QED BY <2>2, <3>1
  <2>5. QED BY <2>2, <2>3, <2>4
<1> HIDE DEF a, b
<1>6. /\ r \in Seq(Window) /\ Len(r) = Len(q) - 1
      /\ \A i \in 1..(Len(q) - 1) : r[i] = IF i < k THEN q[i] ELSE q[i + 1]
  <2>1. /\ a \o b \in Seq(Window) /\ Len(a \o b) = Len(a) + Len(b)
        /\ \A i \in 1..(Len(a) + Len(b)) :
             (a \o b)[i] = IF i <= Len(a) THEN a[i] ELSE b[i - Len(a)]
    BY <1>4, <1>5, ConcatProperties
  <2>2. Len(a) + Len(b) = Len(q) - 1
    BY <1>1, <1>2, <1>4, <1>5
  <2>3. ASSUME NEW i \in 1..(Len(q) - 1), i < k PROVE r[i] = q[i]
    BY <1>1, <1>2, <1>4, <2>1, <2>2, <2>3
  <2>4. ASSUME NEW i \in 1..(Len(q) - 1), ~(i < k) PROVE r[i] = q[i + 1]
    <3>1. i - (k - 1) \in 1..(Len(q) - k) /\ k + (i - (k - 1)) = i + 1 /\ ~(i <= k - 1)
      BY <1>1, <1>2, <2>4
    <3>2. QED BY <1>4, <1>5, <2>1, <2>2, <3>1
  <2>5. QED BY <2>1, <2>2, <2>3, <2>4
<1> HIDE DEF r
<1>7. DOMAIN r = 1..Len(r)
  BY <1>6, LenProperties
<1>8. IsInjective(r)
  <2>1. SUFFICES ASSUME NEW i \in 1..(Len(q) - 1), NEW j \in 1..(Len(q) - 1), r[i] = r[j]
                 PROVE  i = j
    BY <1>6, <1>7 DEF IsInjective
  <2> DEFINE up(n) == IF n < k THEN n ELSE n + 1
  <2>2. up(i) \in 1..Len(q) /\ up(j) \in 1..Len(q) /\ q[up(i)] = r[i] /\ q[up(j)] = r[j]
    BY <1>1, <1>2, <1>6
  <2>3. up(i) = up(j)
    BY <1>1, <2>1, <2>2 DEF IsInjective
  <2>4. QED BY <1>1, <1>2, <2>3
<1>9. Members(r) = Members(q) \ {w}
  <2>1. ASSUME NEW i \in 1..(Len(q) - 1) PROVE r[i] \in Members(q) \ {w}
    <3> DEFINE up == IF i < k THEN i ELSE i + 1
    <3>1. up \in 1..Len(q) /\ up # k /\ r[i] = q[up]
      BY <1>1, <1>2, <1>6
    <3>2. q[up] # w
      BY <1>1, <1>2, <3>1 DEF IsInjective
    <3>3. QED BY <3>1, <3>2 DEF Members
  <2>2. ASSUME NEW n \in 1..Len(q), q[n] # w PROVE q[n] \in Members(r)
    <3> DEFINE down == IF n < k THEN n ELSE n - 1
    <3>1. down \in 1..(Len(q) - 1) /\ r[down] = q[n]
      BY <1>1, <1>2, <1>6, <2>2
    <3>2. QED BY <1>6, <3>1 DEF Members
  <2>3. QED BY <1>6, <2>1, <2>2 DEF Members
<1>10. Without(q, w) = r
  BY DEF Without, RemoveAt, r, a, b, k
<1>11. QED BY <1>6, <1>8, <1>9, <1>10

\* Mapping a window puts it on top.
LEMMA AppendMembers ==
  ASSUME NEW q \in Seq(Window), IsInjective(q), NEW w \in Window \ Members(q)
  PROVE  /\ Append(q, w) \in Seq(Window) /\ IsInjective(Append(q, w))
         /\ Members(Append(q, w)) = Members(q) \cup {w}
<1>1. Len(q) \in Nat /\ DOMAIN q = 1..Len(q)
  BY LenProperties
<1>2. /\ Append(q, w) \in Seq(Window) /\ Len(Append(q, w)) = Len(q) + 1
      /\ Append(q, w)[Len(q) + 1] = w /\ \A i \in 1..Len(q) : Append(q, w)[i] = q[i]
  BY AppendProperties, <1>1
<1> DEFINE r == Append(q, w)
<1> HIDE DEF r
<1>3. DOMAIN r = 1..(Len(q) + 1)
  BY <1>2, LenProperties DEF r
<1>4. IsInjective(r)
  <2>1. SUFFICES ASSUME NEW i \in 1..(Len(q) + 1), NEW j \in 1..(Len(q) + 1), r[i] = r[j]
                 PROVE  i = j
    BY <1>3 DEF IsInjective
  <2>2. \A n \in 1..(Len(q) + 1) :
          \/ n \in 1..Len(q) /\ r[n] = q[n] /\ q[n] \in Members(q)
          \/ n = Len(q) + 1 /\ r[n] = w
    BY <1>1, <1>2 DEF r, Members
  <2>3. QED BY <1>1, <2>1, <2>2 DEF IsInjective
<1>5. Members(r) = Members(q) \cup {w}
  BY <1>1, <1>2 DEF Members, r
<1>6. QED BY <1>2, <1>4, <1>5 DEF r

LEMMA RaisedProperties ==
  ASSUME NEW q \in Seq(Window), IsInjective(q), NEW w \in Members(q)
  PROVE  /\ Append(Without(q, w), w) \in Seq(Window)
         /\ IsInjective(Append(Without(q, w), w))
         /\ Members(Append(Without(q, w), w)) = Members(q)
<1> DEFINE r == Without(q, w)
<1>1. r \in Seq(Window) /\ IsInjective(r) /\ Members(r) = Members(q) \ {w}
  BY WithoutProperties
<1>2. w \in Window
  BY ElementOfSeq DEF Members
<1> HIDE DEF r
<1>3. /\ Append(r, w) \in Seq(Window) /\ IsInjective(Append(r, w))
      /\ Members(Append(r, w)) = Members(r) \cup {w}
  BY <1>1, <1>2, AppendMembers
<1>4. QED BY <1>1, <1>3 DEF r

\* The stack is one of windows, each once.
StackOK(q) == q \in Seq(Window) /\ IsInjective(q)

\* What becomes of the stack in a step.
LEMMA StackSteps ==
  ASSUME StackOK(stack)
  PROVE  /\ Mapped \subseteq Window
         /\ \A w \in Mapped : stack' = Raised(w) => StackOK(stack') /\ Mapped' = Mapped
         /\ \A w \in Mapped : stack' = Without(stack, w) => StackOK(stack') /\ Mapped' = Mapped \ {w}
         /\ \A w \in Window \ Mapped :
              stack' = Append(stack, w) => StackOK(stack') /\ Mapped' = Mapped \cup {w}
         /\ stack' = stack => StackOK(stack') /\ Mapped' = Mapped
<1>1. Mapped = Members(stack) /\ Mapped' = Members(stack')
  BY DEF Mapped, Members
<1>2. Mapped \subseteq Window
  BY <1>1, ElementOfSeq DEF StackOK, Members
<1>3. ASSUME NEW w \in Mapped, stack' = Raised(w)
      PROVE  StackOK(stack') /\ Mapped' = Mapped
  <2>1. /\ Append(Without(stack, w), w) \in Seq(Window)
        /\ IsInjective(Append(Without(stack, w), w))
        /\ Members(Append(Without(stack, w), w)) = Members(stack)
    BY <1>1, RaisedProperties DEF StackOK
  <2>2. QED BY <1>1, <1>3, <2>1 DEF StackOK, Raised
<1>4. ASSUME NEW w \in Mapped, stack' = Without(stack, w)
      PROVE  StackOK(stack') /\ Mapped' = Mapped \ {w}
  BY <1>1, <1>4, WithoutProperties DEF StackOK
<1>5. ASSUME NEW w \in Window \ Mapped, stack' = Append(stack, w)
      PROVE  StackOK(stack') /\ Mapped' = Mapped \cup {w}
  BY <1>1, <1>5, AppendMembers DEF StackOK
<1>6. QED BY <1>1, <1>2, <1>3, <1>4, <1>5

\* What a click focuses is a window of the stack, or a layer surface.
LEMMA ClickTypes ==
  ASSUME TypeOK, NEW o \in Output, NEW p \in Point, NEW t \in FocusUnder(ViewOf(o), p).what
  PROVE  /\ t \in Window => t \in Mapped
         /\ FocusUnder(ViewOf(o), p).raise => t \in Mapped
<1> DEFINE v == ViewOf(o)
           upper == LayerUnder("overlay", "top", p) \cap p.keyboard
           lower == LayerUnder("bottom", "background", p) \cap p.keyboard
           window == ElementUnder(v, p)
<1>1. (upper \cup lower) \cap Window = {}
  BY SceneAssumption, ViewsAndPoints DEF LayerUnder, Newest, IsPoint
<1>2. window \subseteq Mapped
  BY FirstMembers DEF ElementUnder, ViewOf, At
<1>3. FullscreenUnder(v, p) \subseteq Mapped
  BY DEF TypeOK, FullscreenUnder, ViewOf
<1>4. \/ FocusUnder(v, p) = [raise |-> FALSE, what |-> FullscreenUnder(v, p)]
      \/ FocusUnder(v, p) = [raise |-> FALSE, what |-> upper]
      \/ FocusUnder(v, p) = Nothing
      \/ FocusUnder(v, p) = [raise |-> TRUE, what |-> window]
      \/ FocusUnder(v, p) = [raise |-> FALSE, what |-> lower]
  BY DEF FocusUnder
<1> HIDE DEF v, upper, lower, window
<1>5. /\ t \in FocusUnder(v, p).what
      /\ FocusUnder(v, p).raise = FocusUnder(ViewOf(o), p).raise
  BY DEF v
<1>6. QED BY <1>1, <1>2, <1>3, <1>4, <1>5 DEF Nothing

LEMMA InitTypes == Init => TypeOK
<1> SUFFICES ASSUME Init PROVE TypeOK
  OBVIOUS
<1>1. stack = <<>> /\ Mapped = {}
  BY DEF Init, Mapped
<1>2. stack \in Seq(Window) /\ IsInjective(stack)
  BY <1>1 DEF IsInjective
<1>3. place \in [Window -> Output]
  BY ScreenAssumption DEF Init
<1>4. told \in [Window -> [on : BOOLEAN, output : Output \cup {NoOutput}]]
  BY DEF Init, NotTold
<1>5. fullscreen \in [Output -> Mapped \cup {NoWindow}]
  BY <1>1 DEF Init
<1>6. /\ snapshot \in [Window -> {"none", "last", "old"}]
      /\ closing \in [Window -> {"none", "last", "old"}]
  BY DEF Init
<1>7. hidden \cup fading \cup centering \cup buffer \cup astray \subseteq Mapped
      /\ focus \in Mapped \cup {NoWindow}
  BY DEF Init
<1>8. QED BY <1>2, <1>3, <1>4, <1>5, <1>6, <1>7 DEF TypeOK

\* The sets of windows are sets of mapped ones.
SetsOK ==
  /\ hidden \cup fading \cup centering \cup buffer \cup astray \subseteq Mapped
  /\ focus \in Mapped \cup {NoWindow}

\* The records of windows and outputs.
RecordsOK ==
  /\ place \in [Window -> Output]
  /\ snapshot \in [Window -> {"none", "last", "old"}]
  /\ closing \in [Window -> {"none", "last", "old"}]
  /\ fullscreen \in [Output -> Mapped \cup {NoWindow}]
  /\ told \in [Window -> [on : BOOLEAN, output : Output \cup {NoOutput}]]

LEMMA TypesInParts ==
  /\ TypeOK <=> StackOK(stack) /\ SetsOK /\ RecordsOK
  /\ TypeOK' <=> StackOK(stack') /\ SetsOK' /\ RecordsOK'
BY DEF TypeOK, StackOK, SetsOK, RecordsOK

\* A request to enter or to leave fullscreen touches the records only.
LEMMA FullscreenTypes ==
  ASSUME TypeOK, NEW w \in Window,
         \/ \E asked \in Output \cup {NoOutput}, bound \in BOOLEAN : FullscreenRequest(w, asked, bound)
         \/ UnfullscreenRequest(w) \/ FullscreenRequestX11(w) \/ UnfullscreenRequestX11(w)
  PROVE  TypeOK'
<1>1. StackOK(stack) /\ SetsOK /\ RecordsOK
  BY TypesInParts
<1>2. w \in Mapped
  BY DEF FullscreenRequest, UnfullscreenRequest, FullscreenRequestX11, UnfullscreenRequestX11
<1>3. UNCHANGED <<stack, place, hidden, fading, centering, buffer, snapshot, closing, focus>>
  BY DEF FullscreenRequest, UnfullscreenRequest, FullscreenRequestX11, UnfullscreenRequestX11
<1>4. StackOK(stack') /\ Mapped' = Mapped
  BY <1>1, <1>3, StackSteps
<1>5. astray' \subseteq astray \cup {w}
  BY DEF FullscreenRequest, UnfullscreenRequest, FullscreenRequestX11, UnfullscreenRequestX11,
         StaysAstray
<1>6. SetsOK'
  BY <1>1, <1>2, <1>3, <1>4, <1>5 DEF SetsOK
<1>7. \/ told' = [told EXCEPT ![w] = NotTold]
      \/ \E output \in Output \cup {NoOutput} :
           told' = [told EXCEPT ![w] = [on |-> TRUE, output |-> output]]
  BY <1>1, ScreenAssumption
     DEF RecordsOK, FullscreenRequest, UnfullscreenRequest, FullscreenRequestX11,
         UnfullscreenRequestX11
<1>8. told' \in [Window -> [on : BOOLEAN, output : Output \cup {NoOutput}]]
  <2>1. \E r \in [on : BOOLEAN, output : Output \cup {NoOutput}] : told' = [told EXCEPT ![w] = r]
    BY <1>7 DEF NotTold
  <2>2. QED BY <1>1, <2>1 DEF RecordsOK
<1>9. fullscreen' \in [Output -> Mapped \cup {NoWindow}]
  BY <1>1, <1>2, ScreenAssumption
     DEF RecordsOK, FullscreenRequest, UnfullscreenRequest, FullscreenRequestX11,
         UnfullscreenRequestX11
<1>10. RecordsOK'
  BY <1>1, <1>3, <1>4, <1>8, <1>9 DEF RecordsOK
<1>11. QED BY <1>4, <1>6, <1>10, TypesInParts

LEMMA NextTypes == TypeOK /\ [Next]_vars => TypeOK'
<1> SUFFICES ASSUME TypeOK, [Next]_vars PROVE TypeOK'
  OBVIOUS
<1>0. StackOK(stack) /\ SetsOK /\ RecordsOK /\ Mapped \subseteq Window
  BY TypesInParts, StackSteps
<1>1. ASSUME NEW w \in Window, NEW o \in Output, Map(w, o)
      PROVE  TypeOK'
  <2>1. StackOK(stack') /\ Mapped' = Mapped \cup {w}
    BY <1>0, <1>1, StackSteps DEF Map
  <2>2. SetsOK'
    BY <1>0, <1>1, <2>1 DEF SetsOK, Map
  <2>3. RecordsOK'
    BY <1>0, <1>1, <2>1 DEF RecordsOK, Map
  <2>4. QED BY <2>1, <2>2, <2>3, TypesInParts
<1>2. ASSUME NEW w \in Window, Commit(w) \/ Unmap(w) \/ PictureEnds(w)
      PROVE  TypeOK'
  <2>1. UNCHANGED <<stack, place, hidden, fading, fullscreen, told, focus, astray>>
    BY <1>2 DEF Commit, Unmap, PictureEnds
  <2>2. StackOK(stack') /\ Mapped' = Mapped
    BY <1>0, <2>1, StackSteps
  <2>3. buffer' \subseteq Mapped /\ centering' \subseteq Mapped
    BY <1>0, <1>2 DEF SetsOK, Commit, Unmap, PictureEnds
  <2>4. SetsOK'
    BY <1>0, <2>1, <2>2, <2>3 DEF SetsOK
  <2>5. /\ snapshot' \in [Window -> {"none", "last", "old"}]
        /\ closing' \in [Window -> {"none", "last", "old"}]
    BY <1>0, <1>2 DEF RecordsOK, Commit, Unmap, PictureEnds, Captured
  <2>6. RecordsOK'
    BY <1>0, <2>1, <2>2, <2>5 DEF RecordsOK
  <2>7. QED BY <2>2, <2>4, <2>6, TypesInParts
<1>3. ASSUME NEW w \in Window, Destroy(w)
      PROVE  TypeOK'
  <2>1. StackOK(stack') /\ Mapped' = Mapped \ {w}
    BY <1>0, <1>3, StackSteps DEF Destroy
  <2>2. SetsOK'
    BY <1>0, <1>3, <2>1 DEF SetsOK, Destroy
  <2>3. LastPicture(w) \subseteq {"none", "last", "old"}
    BY <1>0 DEF RecordsOK, LastPicture, Captured
  <2>4. /\ snapshot' \in [Window -> {"none", "last", "old"}]
        /\ closing' \in [Window -> {"none", "last", "old"}]
    BY <1>0, <1>3, <2>3 DEF RecordsOK, Destroy
  <2>5. told' \in [Window -> [on : BOOLEAN, output : Output \cup {NoOutput}]]
    BY <1>0, <1>3 DEF RecordsOK, Destroy, NotTold
  <2>6. fullscreen' \in [Output -> Mapped' \cup {NoWindow}] /\ place' = place
    BY <1>0, <1>3, <2>1 DEF RecordsOK, Destroy
  <2>7. RecordsOK'
    BY <1>0, <2>4, <2>5, <2>6 DEF RecordsOK
  <2>8. QED BY <2>1, <2>2, <2>7, TypesInParts
<1>4. ASSUME NEW o \in Output, FadesEnd(o) \/ UNCHANGED vars
      PROVE  TypeOK'
  <2>1. /\ UNCHANGED <<stack, place, hidden, centering, buffer, snapshot, closing, fullscreen,
                       told, focus, astray>>
        /\ fading' \subseteq fading
    BY <1>4 DEF FadesEnd, vars
  <2>2. StackOK(stack') /\ Mapped' = Mapped
    BY <1>0, <2>1, StackSteps
  <2>3. SetsOK' /\ RecordsOK'
    BY <1>0, <2>1, <2>2 DEF SetsOK, RecordsOK
  <2>4. QED BY <2>2, <2>3, TypesInParts
<1>5. ASSUME NEW w \in Window,
             \/ \E asked \in Output \cup {NoOutput}, bound \in BOOLEAN :
                  FullscreenRequest(w, asked, bound)
             \/ UnfullscreenRequest(w) \/ FullscreenRequestX11(w) \/ UnfullscreenRequestX11(w)
      PROVE  TypeOK'
  BY <1>5, FullscreenTypes
<1>6. CASE ToggleFullscreen
  <2>1. focus \in Window
    BY <1>0, <1>6 DEF SetsOK, ToggleFullscreen
  <2>2. QED BY <1>5, <1>6, <2>1 DEF ToggleFullscreen
<1>7. ASSUME NEW o \in Output, SwitchWorkspace(o)
      PROVE  TypeOK'
  <2>0. PICK seen \in SUBSET (At(o) \cap hidden) :
          /\ hidden' = (hidden \cup At(o)) \ seen
          /\ \E w \in IF seen = {} THEN {NoWindow} ELSE First(stack, seen) :
               /\ stack' = IF w = NoWindow THEN stack ELSE Raised(w)
               /\ focus' = w
    BY <1>7 DEF SwitchWorkspace
  <2>1. PICK w \in IF seen = {} THEN {NoWindow} ELSE First(stack, seen) :
          /\ stack' = IF w = NoWindow THEN stack ELSE Raised(w)
          /\ focus' = w
    BY <2>0
  <2>2. /\ UNCHANGED <<place, centering, buffer, snapshot, closing, fullscreen, told, astray>>
        /\ fading' = fading \cup At(o)
    BY <1>7 DEF SwitchWorkspace
  <2>3. w \in Mapped \cup {NoWindow} /\ At(o) \subseteq Mapped
    BY <2>1, FirstMembers DEF At
  <2>4. StackOK(stack') /\ Mapped' = Mapped
    BY <1>0, <2>1, <2>3, StackSteps
  <2>5. SetsOK' /\ RecordsOK'
    BY <1>0, <2>0, <2>1, <2>2, <2>3, <2>4 DEF SetsOK, RecordsOK
  <2>6. QED BY <2>4, <2>5, TypesInParts
<1>8. ASSUME NEW o \in Output, Click(o)
      PROVE  TypeOK'
  <2>0. PICK p \in Lone :
          \E t \in FocusUnder(ViewOf(o), p).what :
            /\ focus' = IF t \in Window THEN t ELSE NoWindow
            /\ stack' = IF FocusUnder(ViewOf(o), p).raise THEN Raised(t) ELSE stack
    BY <1>8 DEF Click
  <2>1. PICK t \in FocusUnder(ViewOf(o), p).what :
          /\ focus' = IF t \in Window THEN t ELSE NoWindow
          /\ stack' = IF FocusUnder(ViewOf(o), p).raise THEN Raised(t) ELSE stack
    BY <2>0
  <2>2. UNCHANGED <<place, hidden, fading, centering, buffer, snapshot, closing, fullscreen,
                    told, astray>>
    BY <1>8 DEF Click
  <2>3. /\ t \in Window => t \in Mapped
        /\ FocusUnder(ViewOf(o), p).raise => t \in Mapped
    <3>1. p \in Point
      BY DEF Lone
    <3>2. QED BY <2>1, <3>1, ClickTypes
  <2>4. StackOK(stack') /\ Mapped' = Mapped
    BY <1>0, <2>1, <2>3, StackSteps
  <2>5. SetsOK' /\ RecordsOK'
    BY <1>0, <2>1, <2>2, <2>3, <2>4 DEF SetsOK, RecordsOK
  <2>6. QED BY <2>4, <2>5, TypesInParts
<1>9. ASSUME NEW w \in Window, NEW o \in Output, Move(w, o)
      PROVE  TypeOK'
  <2>1. w \in Mapped
    BY <1>0, <1>9 DEF Move, SetsOK
  <2>2. StackOK(stack') /\ Mapped' = Mapped
    BY <1>0, <1>9, <2>1, StackSteps DEF Move
  <2>3. SetsOK'
    BY <1>0, <1>9, <2>2 DEF SetsOK, Move
  <2>4. RecordsOK'
    BY <1>0, <1>9, <2>2 DEF RecordsOK, Move
  <2>5. QED BY <2>2, <2>3, <2>4, TypesInParts
<1>10. CASE UNCHANGED vars
  BY <1>4, <1>10, ScreenAssumption
<1>11. QED
  BY <1>1, <1>2, <1>3, <1>4, <1>5, <1>6, <1>7, <1>8, <1>9, <1>10 DEF Next

\* Every variable of the screen keeps its type, for any windows and outputs.
THEOREM TypesHold == Spec => []TypeOK
<1>1. QED BY InitTypes, NextTypes, PTL DEF Spec

\* In every state, at every point of every output, with any number of layer surfaces
\* and windows there: surface_under (input_handler.rs:597) finds what output_elements
\* (render.rs:587) draws on top, or a window of another workspace, or a surface of the
\* same layer as what is drawn on top; and a click focuses nothing that is not drawn.
THEOREM InputHolds == Spec => []InputFollowsDrawing
<1>1. TypeOK => InputFollowsDrawing
  <2> SUFFICES ASSUME TypeOK, NEW o \in Output PROVE ViewOf(o) \in GoodViews
    BY DEF InputFollowsDrawing
  <2>1. ViewOf(o) \in View
    <3> DEFINE W == At(o)
               H == hidden \cap W
               S == W \ (centering \cup (hidden \ fading))
               q == stack
               f == fullscreen[o]
    <3>1. q \in Seq(Window) /\ IsInjective(q) /\ Len(q) \in Nat /\ DOMAIN q = 1..Len(q)
      BY LenProperties DEF TypeOK
    <3>2. q \in SeqOf(Window, Cardinality(Window))
      <4>1. q \in [1..Len(q) -> Window]
        BY <3>1
      <4>2. q \in Injection(1..Len(q), Window)
        BY <3>1, <4>1 DEF Injection, IsInjective
      <4>3. Cardinality(1..Len(q)) <= Cardinality(Window)
        BY <4>2, FS_Injection, SceneAssumption
      <4>4. Cardinality(1..Len(q)) = Len(q)
        <5>1. Len(q) \in Nat
          BY <3>1
        <5> DEFINE n == Len(q)
        <5> HIDE DEF n
        <5>2. n \in Int /\ 1 \in Int
          BY <5>1 DEF n
        <5>3. Cardinality(1..n) = IF 1 > n THEN 0 ELSE n - 1 + 1
          BY <5>2, FS_Interval, Zenon
        <5>4. n \in Nat => (IF 1 > n THEN 0 ELSE n - 1 + 1) = n
          OBVIOUS
        <5>5. QED BY <5>1, <5>3, <5>4 DEF n
      <4>5. Len(q) \in 0..Cardinality(Window)
        BY <3>1, <4>3, <4>4, SceneAssumption, FS_CardinalityType
      <4>6. QED BY <4>1, <4>5 DEF SeqOf
    <3>3. Mapped \subseteq Window
      BY StackSteps, TypesInParts
    <3>4. W \in SUBSET Window /\ H \in SUBSET Window /\ S \in SUBSET Window
      BY <3>3 DEF At
    <3>5. f \in Window \cup {NoWindow}
      BY <3>3 DEF TypeOK
    <3>6. ViewOf(o) = [stack |-> q, here |-> W, hidden |-> W \cap H, shown |-> W \cap S,
                       fullscreen |-> f]
      <4>1. W \cap H = hidden \cap At(o) /\ W \cap S = S
        OBVIOUS
      <4>2. QED BY <4>1 DEF ViewOf
    <3> HIDE DEF W, H, S, q, f
    <3>7. q \in {r \in SeqOf(Window, Cardinality(Window)) : IsInjective(r)}
      BY <3>1, <3>2
    <3> DEFINE Stacks == {r \in SeqOf(Window, Cardinality(Window)) : IsInjective(r)}
               Seen(r, X, Y, Z, g) == [stack |-> r, here |-> X, hidden |-> X \cap Y,
                                       shown |-> X \cap Z, fullscreen |-> g]
    <3>8. ViewOf(o) = Seen(q, W, H, S, f) /\ q \in Stacks
      BY <3>6, <3>7
    <3>9. View = {Seen(r, X, Y, Z, g) :
                    r \in Stacks, X \in SUBSET Window, Y \in SUBSET Window,
                    Z \in SUBSET Window, g \in Window \cup {NoWindow}}
      BY DEF View
    <3> HIDE DEF Stacks, Seen
    <3>10. Seen(q, W, H, S, f) \in View
      BY <3>4, <3>5, <3>8, <3>9
    <3>11. QED BY <3>8, <3>10
  <2>2. \A p \in Point :
          PointerFollowsDrawing(ViewOf(o), p) /\ ClickFollowsDrawing(ViewOf(o), p)
    BY <2>1, ViewsAndPoints, PointerOnTop, ClickOnDrawn
  <2>3. QED BY <2>1, <2>2 DEF GoodViews
<1>2. QED BY <1>1, TypesHold, PTL

-----------------------------------------------------------------------------
(* Fullscreen.                                                             *)

\* A request changes one window's state and what one output shows.
LEMMA RequestsAgree ==
  ASSUME TypeOK, FullscreenAgrees, NEW w \in Window,
         \/ \E asked \in Output \cup {NoOutput}, bound \in BOOLEAN : FullscreenRequest(w, asked, bound)
         \/ UnfullscreenRequest(w) \/ FullscreenRequestX11(w) \/ UnfullscreenRequestX11(w)
  PROVE  FullscreenAgrees'
<1>1. SUFFICES ASSUME NEW o \in Output, fullscreen'[o] # NoWindow
               PROVE  \/ told'[fullscreen'[o]] = [on |-> TRUE, output |-> o]
                      \/ fullscreen'[o] \in astray'
  BY DEF FullscreenAgrees
<1>2. /\ fullscreen \in [Output -> Window \cup {NoWindow}] /\ DOMAIN told = Window
      /\ place \in [Window -> Output]
  BY StackSteps, TypesInParts DEF TypeOK
<1>3. /\ fullscreen[o] # NoWindow => \/ told[fullscreen[o]] = [on |-> TRUE, output |-> o]
                                     \/ fullscreen[o] \in astray
  BY DEF FullscreenAgrees
<1>4. ASSUME NEW asked \in Output \cup {NoOutput}, NEW bound \in BOOLEAN,
             FullscreenRequest(w, asked, bound)
      PROVE  \/ told'[fullscreen'[o]] = [on |-> TRUE, output |-> o]
             \/ fullscreen'[o] \in astray'
  <2> DEFINE target == IF asked = NoOutput THEN Primary ELSE asked
             output == IF bound THEN target ELSE asked
  <2>1. /\ target \in Output
        /\ told' = [told EXCEPT ![w] = [on |-> TRUE, output |-> output]]
        /\ fullscreen' = [fullscreen EXCEPT ![target] = w]
        /\ astray' = StaysAstray(w, target, output)
    BY <1>4, ScreenAssumption DEF FullscreenRequest
  <2> HIDE DEF target, output
  <2>2. CASE o = target
    BY <1>2, <2>1, <2>2 DEF StaysAstray
  <2>3. CASE o # target /\ fullscreen[o] = w
    BY <1>2, <2>1, <2>3 DEF StaysAstray
  <2>4. CASE o # target /\ fullscreen[o] # w
    <3>1. fullscreen'[o] = fullscreen[o] /\ told'[fullscreen[o]] = told[fullscreen[o]]
      BY <1>1, <1>2, <2>1, <2>4
    <3>2. QED BY <1>1, <1>3, <2>1, <3>1 DEF StaysAstray
  <2>5. QED BY <2>2, <2>3, <2>4
<1>5. CASE UnfullscreenRequest(w)
  <2>1. fullscreen'[o] = fullscreen[o] /\ o # told[w].output /\ astray' = astray
    BY <1>1, <1>2, <1>5 DEF UnfullscreenRequest
  <2>2. CASE fullscreen[o] = w
    BY <1>1, <1>3, <2>1, <2>2
  <2>3. CASE fullscreen[o] # w
    BY <1>1, <1>2, <1>3, <1>5, <2>1, <2>3 DEF UnfullscreenRequest
  <2>4. QED BY <2>2, <2>3
<1>6. CASE FullscreenRequestX11(w)
  <2>1. /\ told' = [told EXCEPT ![w] = [on |-> TRUE, output |-> place[w]]]
        /\ fullscreen' = [fullscreen EXCEPT ![place[w]] = w]
        /\ astray' = StaysAstray(w, place[w], place[w]) /\ place[w] \in Output
    BY <1>2, <1>6 DEF FullscreenRequestX11
  <2>2. CASE o = place[w]
    BY <1>2, <2>1, <2>2
  <2>3. CASE o # place[w] /\ fullscreen[o] = w
    BY <1>2, <2>1, <2>3 DEF StaysAstray
  <2>4. CASE o # place[w] /\ fullscreen[o] # w
    <3>1. fullscreen'[o] = fullscreen[o] /\ told'[fullscreen[o]] = told[fullscreen[o]]
      BY <1>1, <1>2, <2>1, <2>4
    <3>2. QED BY <1>1, <1>3, <2>1, <3>1 DEF StaysAstray
  <2>5. QED BY <2>2, <2>3, <2>4
<1>7. CASE UnfullscreenRequestX11(w)
  <2>1. told' = [told EXCEPT ![w] = NotTold] /\ astray' = astray
    BY <1>7 DEF UnfullscreenRequestX11
  <2>2. CASE \A d \in Output : fullscreen[d] # w
    <3>1. fullscreen' = fullscreen
      BY <1>7, <2>2 DEF UnfullscreenRequestX11
    <3>2. QED BY <1>1, <1>2, <1>3, <2>1, <2>2, <3>1
  <2>3. CASE \E d \in Output : fullscreen[d] = w
    <3>1. PICK d \in Output :
            fullscreen[d] = w /\ fullscreen' = [fullscreen EXCEPT ![d] = NoWindow]
      BY <1>7, <2>3 DEF UnfullscreenRequestX11
    <3>2. o # d /\ fullscreen'[o] = fullscreen[o]
      BY <1>1, <1>2, <3>1
    <3>3. CASE fullscreen[o] = w
      <4>1. told[w] = [on |-> TRUE, output |-> d] \/ w \in astray
        BY <3>1, SceneAssumption DEF FullscreenAgrees
      <4>2. told[w] # [on |-> TRUE, output |-> d] \/ told[w] # [on |-> TRUE, output |-> o]
        BY <3>2
      <4>3. QED BY <1>1, <1>3, <2>1, <3>2, <3>3, <4>1, <4>2
    <3>4. CASE fullscreen[o] # w
      BY <1>1, <1>2, <1>3, <2>1, <3>2, <3>4
    <3>5. QED BY <3>3, <3>4
  <2>4. QED BY <2>2, <2>3
<1>8. QED BY <1>4, <1>5, <1>6, <1>7

LEMMA NextAgrees == TypeOK /\ FullscreenAgrees /\ [Next]_vars => FullscreenAgrees'
<1> SUFFICES ASSUME TypeOK, FullscreenAgrees, [Next]_vars PROVE FullscreenAgrees'
  OBVIOUS
<1>0. Mapped \subseteq Window /\ focus \in Mapped \cup {NoWindow}
  BY StackSteps, TypesInParts DEF TypeOK
<1>1. ASSUME UNCHANGED <<fullscreen, told, astray>> PROVE FullscreenAgrees'
  BY <1>1 DEF FullscreenAgrees
<1>2. ASSUME NEW w \in Window, NEW o \in Output, Map(w, o) \/ Move(w, o)
      PROVE  FullscreenAgrees'
  BY <1>1, <1>2 DEF Map, Move
<1>3. ASSUME NEW w \in Window, Commit(w) \/ Unmap(w) \/ PictureEnds(w)
      PROVE  FullscreenAgrees'
  BY <1>1, <1>3 DEF Commit, Unmap, PictureEnds
<1>4. ASSUME NEW o \in Output, FadesEnd(o) \/ SwitchWorkspace(o) \/ Click(o)
      PROVE  FullscreenAgrees'
  BY <1>1, <1>4 DEF FadesEnd, SwitchWorkspace, Click
<1>5. ASSUME NEW w \in Window, Destroy(w)
      PROVE  FullscreenAgrees'
  <2>1. SUFFICES ASSUME NEW o \in Output, fullscreen'[o] # NoWindow
                 PROVE  \/ told'[fullscreen'[o]] = [on |-> TRUE, output |-> o]
                        \/ fullscreen'[o] \in astray'
    BY DEF FullscreenAgrees
  <2>2. fullscreen'[o] = fullscreen[o] /\ fullscreen[o] # w
    BY <1>5, <2>1 DEF Destroy
  <2>3. fullscreen[o] \in Window
    BY <1>0, <2>1, <2>2 DEF TypeOK
  <2>4. told'[fullscreen[o]] = told[fullscreen[o]] /\ astray' = astray \ {w}
    BY <1>5, <2>2, <2>3 DEF Destroy, TypeOK
  <2>5. QED BY <2>1, <2>2, <2>4 DEF FullscreenAgrees
<1>6. ASSUME NEW w \in Window,
             \/ \E asked \in Output \cup {NoOutput}, bound \in BOOLEAN :
                  FullscreenRequest(w, asked, bound)
             \/ UnfullscreenRequest(w) \/ FullscreenRequestX11(w) \/ UnfullscreenRequestX11(w)
      PROVE  FullscreenAgrees'
  BY <1>6, RequestsAgree
<1>7. CASE ToggleFullscreen
  <2>1. focus \in Window
    BY <1>0, <1>7 DEF ToggleFullscreen
  <2>2. QED BY <1>6, <1>7, <2>1 DEF ToggleFullscreen
<1>8. CASE UNCHANGED vars
  BY <1>1, <1>8 DEF vars
<1>9. QED
  BY <1>2, <1>3, <1>4, <1>5, <1>6, <1>7, <1>8 DEF Next

\* The client of the window that fills an output was told so, and told of that
\* output (xdg.rs:437-521, x11.rs:374-447), but for the windows that asked again for
\* another output or named one their client had not bound.
THEOREM FullscreenHolds == Spec => []FullscreenAgrees
<1>1. Init => FullscreenAgrees
  BY DEF Init, FullscreenAgrees
<1>2. QED BY <1>1, InitTypes, NextTypes, NextAgrees, PTL DEF Spec

-----------------------------------------------------------------------------
(* The nested backends: which buffers may be drawn in part.                *)

LoopTypes ==
  /\ backend \in {"winit", "x11"} /\ full_redraw \in 0..4
  /\ behind \in [Buffer -> SUBSET Area] /\ age \in [Buffer -> 0..(MaxAge + 1)]
  /\ back \in Buffer
  /\ damage \in SUBSET Area
  /\ history \in Seq(SUBSET Area) /\ Len(history) \in 0..MaxAge

\* What would be drawn into b if its age is believed.
Cover(b) == damage \cup UNION {history[i] : i \in 1..(age[b] - 1)}

\* Drawing b by its age would leave it behind.
Stale(b) ==
  b \notin missed /\ age[b] \in 1..Len(history) /\ ~(behind[b] \subseteq Cover(b))

\* The buffers in U are the next that the host hands out: back is one of them,
\* and each was seen before every other buffer, as far as ages are told apart.
Upcoming(U) ==
  /\ back \in U
  /\ \A b \in U \ {back}, c \in Buffer \ U :
       age[c] # 0 /\ (age[b] = 0 \/ age[b] > MaxAge \/ age[c] < age[b])

\* The stale buffers are among the next ones, and fewer than full_redraw, which is
\* lowered before it is looked at: they are all drawn whole before it is used up.
Outlived(U) ==
  /\ \A b \in Buffer : Stale(b) => b \in U
  /\ U # {} => /\ backend = "winit" /\ Upcoming(U)
               /\ IsFiniteSet(U) /\ Cardinality(U) < full_redraw

FewBuffers == backend = "winit" => Cardinality(Buffer) <= 3

WholeInv ==
  /\ LoopTypes /\ FewBuffers
  /\ backend = "x11" => full_redraw = 0
  /\ \E U \in SUBSET Buffer : Outlived(U)

\* Older moves an age on, keeps 0 and what is past telling.
LEMMA OlderIs ==
  ASSUME NEW n \in 0..(MaxAge + 1)
  PROVE  /\ Older(n) \in 0..(MaxAge + 1)
         /\ n = 0 <=> Older(n) = 0
         /\ n \in 1..MaxAge => Older(n) = n + 1
         /\ n > MaxAge => Older(n) = n
  BY NestedAssumption DEF Older

\* What is drawn is all, or what the age says.
LEMMA RedrawnIs ==
  ASSUME LoopTypes
  PROVE  /\ Redrawn \in SUBSET Area
         /\ Redrawn # Area => /\ Age = age[back] /\ age[back] \in 1..Len(history)
                              /\ Redrawn = Cover(back)
         /\ backend = "winit" /\ Redraws > 0 => Redrawn = Area
<1>1. /\ Len(history) \in Nat /\ \A i \in 1..Len(history) : history[i] \in SUBSET Area
      /\ damage \in SUBSET Area /\ age[back] \in Nat
  BY NestedAssumption, ElementOfSeq, LenProperties DEF LoopTypes
<1>2. CASE Age = 0 \/ Age > Len(history)
  <2>1. Redrawn = Area
    BY <1>2 DEF Redrawn
  <2>2. QED BY <2>1
<1>3. CASE ~(Age = 0 \/ Age > Len(history))
  <2>1. Age = age[back] /\ ~(backend = "winit" /\ Redraws > 0)
    BY <1>3 DEF Age
  <2>2. age[back] \in 1..Len(history)
    BY <1>1, <1>3, <2>1
  <2>3. Redrawn = Cover(back)
    BY <1>3, <2>1 DEF Redrawn, Cover
  <2>4. \A i \in 1..(age[back] - 1) : i \in 1..Len(history)
    BY <1>1, <2>2
  <2>5. Cover(back) \in SUBSET Area
    BY <1>1, <2>4 DEF Cover
  <2>6. QED BY <2>1, <2>2, <2>3, <2>5
<1>4. QED BY <1>2, <1>3

\* Counting a frame puts its damage before the history and forgets the oldest.
LEMMA CountedIs ==
  ASSUME LoopTypes, Counted
  PROVE  /\ damage' \in SUBSET Area
         /\ history' \in Seq(SUBSET Area) /\ Len(history') \in 0..MaxAge
         /\ \/ damage' = damage /\ history' = history
            \/ /\ damage' = {} /\ Len(history') <= Len(history) + 1
               /\ \A i \in 1..Len(history') :
                    history'[i] = IF i = 1 THEN damage ELSE history[i - 1]
<1>1. CASE Redrawn = {}
  BY <1>1 DEF Counted, LoopTypes
<1>2. CASE Redrawn # {}
  <2> DEFINE frames == <<damage>> \o history
             n == IF Len(frames) < MaxAge THEN Len(frames) ELSE MaxAge
  <2>1. damage' = {} /\ history' = SubSeq(frames, 1, n)
    BY <1>2 DEF Counted
  <2>2. <<damage>> \in Seq(SUBSET Area) /\ Len(<<damage>>) = 1 /\ <<damage>>[1] = damage
    BY DEF LoopTypes
  <2>3. history \in Seq(SUBSET Area) /\ Len(history) \in Nat /\ MaxAge \in Nat \ {0}
    BY NestedAssumption DEF LoopTypes
  <2>4. /\ frames \in Seq(SUBSET Area) /\ Len(frames) = 1 + Len(history)
        /\ \A i \in 1..(1 + Len(history)) :
             frames[i] = IF i <= 1 THEN <<damage>>[i] ELSE history[i - 1]
    BY <2>2, <2>3, ConcatProperties
  <2> HIDE DEF frames
  <2>5. n \in 1..MaxAge /\ n <= 1 + Len(history) /\ n \in Nat
    BY <2>3, <2>4
  <2> HIDE DEF n
  <2>6. \A i \in 1..n : i \in 1..(1 + Len(history)) /\ frames[i] \in SUBSET Area
    BY <2>3, <2>4, <2>5, ElementOfSeq
  <2>7. /\ SubSeq(frames, 1, n) \in Seq(SUBSET Area)
        /\ Len(SubSeq(frames, 1, n)) = n
        /\ \A i \in 1..n : SubSeq(frames, 1, n)[i] = frames[i]
    <3>1. /\ SubSeq(frames, 1, n) \in Seq(SUBSET Area)
          /\ Len(SubSeq(frames, 1, n)) = IF 1 <= n THEN n - 1 + 1 ELSE 0
          /\ \A i \in 1..(n - 1 + 1) : SubSeq(frames, 1, n)[i] = frames[1 + i - 1]
      BY <2>5, <2>6, SubSeqProperties
    <3>2. n - 1 + 1 = n /\ 1 <= n /\ \A i \in 1..n : 1 + i - 1 = i
      BY <2>5
    <3>3. QED BY <3>1, <3>2
  <2>8. \A i \in 1..n : frames[i] = IF i = 1 THEN damage ELSE history[i - 1]
    BY <2>2, <2>4, <2>5, <2>6
  <2>9. Len(history') = n /\ history' \in Seq(SUBSET Area)
    BY <2>1, <2>7
  <2>10. QED BY <2>1, <2>3, <2>5, <2>7, <2>8, <2>9
<1>3. QED BY <1>1, <1>2

\* No buffer is stale of which nothing is known, and none that is exempt.
LEMMA NoneStale ==
  ASSUME LoopTypes', FewBuffers',
         backend' = "x11" => full_redraw' = 0,
         \A b \in Buffer : ~Stale(b)'
  PROVE  WholeInv'
<1>1. Outlived({})'
  BY DEF Outlived
<1>2. QED BY <1>1 DEF WholeInv

LEMMA InitWhole == LoopInit /\ FewBuffers => WholeInv
<1> SUFFICES ASSUME LoopInit, FewBuffers PROVE WholeInv
  OBVIOUS
<1>1. <<>> \in Seq(SUBSET Area) /\ Len(<<>>) = 0
  OBVIOUS
<1>2. LoopTypes
  BY <1>1, NestedAssumption DEF LoopInit, LoopTypes
<1>3. \A b \in Buffer : ~Stale(b)
  BY DEF LoopInit, Stale
<1>4. Outlived({})
  BY <1>3 DEF Outlived
<1>5. QED BY <1>2, <1>4 DEF WholeInv, LoopInit

\* Events that draw nothing and change no picture.
LEMMA PictureKept ==
  ASSUME WholeInv, UNCHANGED <<backend, picture>>,
         full_redraw' \in 0..4, full_redraw <= full_redraw',
         backend = "x11" => full_redraw' = 0
  PROVE  WholeInv'
<1>1. UNCHANGED <<backend, behind, age, back, damage, history, missed>>
  BY DEF picture
<1>2. PICK U \in SUBSET Buffer : Outlived(U)
  BY DEF WholeInv
<1>3. \A b \in Buffer : Stale(b)' <=> Stale(b)
  BY <1>1 DEF Stale, Cover
<1>4. U # {} => Upcoming(U)' /\ Cardinality(U) < full_redraw'
  <2>1. full_redraw \in Nat /\ full_redraw' \in Nat
    BY DEF WholeInv, LoopTypes
  <2>2. ASSUME U # {} PROVE Cardinality(U) \in Nat /\ Cardinality(U) < full_redraw
    BY <1>2, <2>2, FS_CardinalityType DEF Outlived
  <2>3. U # {} => Cardinality(U) < full_redraw'
    BY <2>1, <2>2
  <2>4. U # {} => Upcoming(U)'
    BY <1>1, <1>2 DEF Outlived, Upcoming
  <2>5. QED BY <2>3, <2>4
<1>5. Outlived(U)'
  BY <1>1, <1>2, <1>3, <1>4 DEF Outlived
<1>6. LoopTypes' /\ FewBuffers'
  BY <1>1 DEF WholeInv, LoopTypes, FewBuffers
<1>7. QED BY <1>1, <1>5, <1>6 DEF WholeInv

\* An area that changes is behind in every buffer, and it is damage.
LEMMA ChangeWhole ==
  ASSUME WholeInv, Change
  PROVE  WholeInv'
<1>1. PICK a \in Area :
        behind' = [b \in Buffer |-> behind[b] \cup {a}] /\ damage' = damage \cup {a}
  BY DEF Change
<1>2. UNCHANGED <<backend, full_redraw, age, back, history, missed>>
  BY DEF Change
<1>3. LoopTypes' /\ FewBuffers'
  BY <1>1, <1>2 DEF WholeInv, LoopTypes, FewBuffers
<1>4. \A b \in Buffer : Stale(b)' => Stale(b)
  <2>1. SUFFICES ASSUME NEW b \in Buffer, Stale(b)' PROVE Stale(b)
    OBVIOUS
  <2>2. behind'[b] = behind[b] \cup {a} /\ Cover(b)' = Cover(b) \cup {a}
    BY <1>1, <1>2 DEF Cover
  <2>3. QED BY <1>2, <2>1, <2>2 DEF Stale
<1>5. PICK U \in SUBSET Buffer : Outlived(U)
  BY DEF WholeInv
<1>6. Outlived(U)'
  BY <1>2, <1>4, <1>5 DEF Outlived, Upcoming
<1>7. QED BY <1>2, <1>3, <1>6 DEF WholeInv

\* After reset_buffers every buffer may be stale: as many as winit.rs then draws
\* whole.
LEMMA ResetWhole ==
  ASSUME WholeInv, ResetBuffers
  PROVE  WholeInv'
<1>1. /\ behind' = Everywhere
      /\ UNCHANGED <<backend, back, damage, history, missed>>
  BY DEF ResetBuffers
<1>2. behind' \in [Buffer -> SUBSET Area]
  BY <1>1 DEF Everywhere
<1>3. CASE backend = "winit"
  <2>1. full_redraw' = 4 /\ age' = age
    BY <1>3 DEF ResetBuffers
  <2>2. LoopTypes' /\ FewBuffers'
    BY <1>1, <1>2, <2>1 DEF WholeInv, LoopTypes, FewBuffers
  <2>3. IsFiniteSet(Buffer) /\ Cardinality(Buffer) < 4
    <3>1. IsFiniteSet(Buffer) /\ Cardinality(Buffer) <= 3
      BY <1>3, NestedAssumption DEF WholeInv, FewBuffers
    <3>2. Cardinality(Buffer) \in Nat
      BY <3>1, FS_CardinalityType
    <3>3. QED BY <3>1, <3>2
  <2>4. back' \in Buffer /\ backend' = "winit"
    BY <1>1, <1>3 DEF WholeInv, LoopTypes
  <2>5. Upcoming(Buffer)'
    BY <2>4 DEF Upcoming
  <2>6. Outlived(Buffer)'
    BY <2>1, <2>3, <2>4, <2>5 DEF Outlived
  <2>7. QED BY <2>2, <2>4, <2>6 DEF WholeInv
<1>4. CASE backend # "winit"
  <2>1. age' = [b \in Buffer |-> 0] /\ full_redraw' = full_redraw
    BY <1>4 DEF ResetBuffers
  <2>2. LoopTypes' /\ FewBuffers'
    BY <1>1, <1>2, <2>1, NestedAssumption
       DEF WholeInv, LoopTypes, FewBuffers
  <2>3. \A b \in Buffer : ~Stale(b)'
    BY <2>1 DEF Stale
  <2>4. backend' = "x11" => full_redraw' = 0
    BY <1>1, <2>1 DEF WholeInv
  <2>5. QED BY <2>2, <2>3, <2>4, NoneStale
<1>5. QED BY <1>3, <1>4

LEMMA ResizedWhole ==
  ASSUME WholeInv, Resized
  PROVE  WholeInv'
<1>1. /\ behind' = [b \in Buffer |-> Area] /\ age' = [b \in Buffer |-> 0]
      /\ damage' = Area /\ history' = <<>>
      /\ UNCHANGED <<backend, full_redraw, back>>
  BY DEF Resized, Everywhere
<1>2. <<>> \in Seq(SUBSET Area) /\ Len(<<>>) = 0
  OBVIOUS
<1>3. LoopTypes' /\ FewBuffers'
  BY <1>1, <1>2, NestedAssumption DEF WholeInv, LoopTypes, FewBuffers
<1>4. \A b \in Buffer : ~Stale(b)'
  BY <1>1 DEF Stale
<1>5. QED BY <1>1, <1>3, <1>4, NoneStale DEF WholeInv
-----------------------------------------------------------------------------
(* A frame.                                                                *)

\* If there is no whole frame left to draw, no buffer is stale.
LEMMA NoneLeft ==
  ASSUME WholeInv, full_redraw \in {0, 1}
  PROVE  \A b \in Buffer : ~Stale(b)
<1>1. PICK U \in SUBSET Buffer : Outlived(U)
  BY DEF WholeInv
<1>2. U = {}
  <2>1. SUFFICES ASSUME U # {} PROVE FALSE
    OBVIOUS
  <2>2. IsFiniteSet(U) /\ Cardinality(U) < full_redraw /\ Cardinality(U) \in Nat
    BY <1>1, <2>1, FS_CardinalityType DEF Outlived
  <2>3. Cardinality(U) = 0
    BY <2>2
  <2>4. QED BY <2>1, <2>2, <2>3, FS_EmptySet
<1>3. QED BY <1>1, <1>2 DEF Outlived

\* What is drawn of the buffer is all it lacks, or it is exempt.
LEMMA BackIsWhole ==
  ASSUME WholeInv
  PROVE  back \in Mended \/ behind[back] \subseteq Redrawn
<1>1. SUFFICES ASSUME back \notin Mended PROVE behind[back] \subseteq Redrawn
  OBVIOUS
<1>2. LoopTypes /\ back \in Buffer /\ behind[back] \in SUBSET Area /\ full_redraw \in 0..4
      /\ backend \in {"winit", "x11"}
  BY DEF WholeInv, LoopTypes
<1>3. CASE Redrawn = Area
  BY <1>2, <1>3
<1>4. CASE Redrawn # Area
  <2>1. back \notin missed
    BY <1>1, <1>4 DEF Mended
  <2>2. age[back] \in 1..Len(history) /\ Redrawn = Cover(back)
    BY <1>2, <1>4, RedrawnIs
  <2>3. full_redraw \in {0, 1}
    <3>1. CASE backend = "x11"
      BY <3>1 DEF WholeInv
    <3>2. CASE backend = "winit"
      <4>1. ~(Redraws > 0)
        BY <1>2, <1>4, <3>2, RedrawnIs
      <4>2. QED BY <1>2, <4>1 DEF Redraws
    <3>3. QED BY <1>2, <3>1, <3>2
  <2>4. ~Stale(back)
    BY <1>2, <2>3, NoneLeft
  <2>5. QED BY <2>1, <2>2, <2>4 DEF Stale
<1>5. QED BY <1>3, <1>4

LEMMA PaintedIs ==
  ASSUME WholeInv, Painted
  PROVE  /\ behind' \in [Buffer -> SUBSET Area]
         /\ back \in Mended \/ behind'[back] = {}
         /\ \A b \in Buffer : b # back => behind'[b] = behind[b]
         /\ full_redraw' \in 0..4
         /\ full_redraw' = IF full_redraw = 0 THEN 0 ELSE full_redraw - 1
<1>1. behind' = [behind EXCEPT ![back] = @ \ Redrawn] /\ full_redraw' = Redraws
  BY DEF Painted
<1>2. behind \in [Buffer -> SUBSET Area] /\ back \in Buffer /\ full_redraw \in 0..4
  BY DEF WholeInv, LoopTypes
<1>3. behind'[back] = behind[back] \ Redrawn
  BY <1>1, <1>2
<1>4. QED BY <1>1, <1>2, <1>3, BackIsWhole DEF Redraws

\* Where every buffer is exempt or of unknown age, none is stale.
LEMMA GivenUp ==
  ASSUME WholeInv, Counted \/ UNCHANGED <<damage, history>>,
         UNCHANGED <<backend, behind, back>>, full_redraw' = Redraws,
         \/ backend = "winit" /\ missed' = Buffer /\ age' = age
         \/ backend = "x11" /\ age' = [b \in Buffer |-> 0]
  PROVE  WholeInv'
<1>1. LoopTypes /\ FewBuffers
  BY DEF WholeInv
<1>2. damage' \in SUBSET Area /\ history' \in Seq(SUBSET Area) /\ Len(history') \in 0..MaxAge
  BY <1>1, CountedIs DEF LoopTypes
<1>3. age' \in [Buffer -> 0..(MaxAge + 1)] /\ full_redraw' \in 0..4
  BY <1>1, NestedAssumption DEF LoopTypes, Redraws
<1>4. LoopTypes' /\ FewBuffers'
  BY <1>1, <1>2, <1>3 DEF LoopTypes, FewBuffers
<1>5. \A b \in Buffer : ~Stale(b)'
  BY DEF Stale
<1>6. backend' = "x11" => full_redraw' = 0
  BY DEF WholeInv, Redraws
<1>7. QED BY <1>4, <1>5, <1>6, NoneStale

LEMMA BindFailsWhole ==
  ASSUME WholeInv, BindFails
  PROVE  WholeInv'
<1>1. /\ full_redraw' = Redraws
      /\ missed' = IF backend = "winit" /\ full_redraw > 0 THEN Buffer ELSE missed
      /\ UNCHANGED <<backend, behind, age, back, damage, history>>
  BY DEF BindFails
<1>2. full_redraw \in 0..4 /\ backend \in {"winit", "x11"} /\ (backend = "x11" => full_redraw = 0)
  BY DEF WholeInv, LoopTypes
<1>3. CASE backend = "winit" /\ full_redraw > 0
  BY <1>1, <1>3, GivenUp
<1>4. CASE ~(backend = "winit" /\ full_redraw > 0)
  <2>1. full_redraw = 0 /\ full_redraw' = 0 /\ missed' = missed
    BY <1>1, <1>2, <1>4 DEF Redraws
  <2>2. QED BY <1>1, <2>1, PictureKept DEF picture
<1>5. QED BY <1>3, <1>4

LEMMA DrawFailsWhole ==
  ASSUME WholeInv, DrawFails
  PROVE  WholeInv'
<1>1. Counted /\ full_redraw' = Redraws /\ UNCHANGED <<backend, behind, back>>
  BY DEF DrawFails
<1>2. \/ backend = "winit" /\ missed' = Buffer /\ age' = age
      \/ backend = "x11" /\ age' = [b \in Buffer |-> 0]
  BY DEF DrawFails, WholeInv, LoopTypes
<1>3. QED BY <1>1, <1>2, GivenUp

LEMMA SubmitFailsWhole ==
  ASSUME WholeInv, SubmitFails
  PROVE  WholeInv'
<1>1. Painted /\ Counted /\ UNCHANGED <<backend, back>>
  BY DEF SubmitFails, Painted
<1>2. LoopTypes /\ FewBuffers /\ backend \in {"winit", "x11"} /\ back \in Buffer
  BY DEF WholeInv, LoopTypes
<1>3. \/ backend = "winit" /\ missed' = Mended \cup (Buffer \ {back}) /\ age' = age
      \/ backend = "x11" /\ age' = [b \in Buffer |-> 0]
  BY <1>2 DEF SubmitFails
<1>4. age' \in [Buffer -> 0..(MaxAge + 1)]
  BY <1>2, <1>3, NestedAssumption DEF LoopTypes
<1>5. LoopTypes' /\ FewBuffers'
  BY <1>1, <1>2, <1>4, CountedIs, PaintedIs DEF LoopTypes, FewBuffers
<1>6. \A b \in Buffer : ~Stale(b)'
  <2>1. SUFFICES ASSUME NEW b \in Buffer, Stale(b)' PROVE FALSE
    OBVIOUS
  <2>2. age'[b] # 0 /\ b \notin missed' /\ behind'[b] # {}
    BY <2>1 DEF Stale
  <2>3. b = back /\ back \notin Mended
    BY <1>3, <2>2
  <2>4. QED BY <1>1, <2>2, <2>3, PaintedIs
<1>7. backend' = "x11" => full_redraw' = 0
  BY <1>1, PaintedIs DEF WholeInv
<1>8. QED BY <1>5, <1>6, <1>7, NoneStale

LEMMA DrawNothingWhole ==
  ASSUME WholeInv, DrawNothing
  PROVE  WholeInv'
<1>1. /\ Painted /\ Redrawn = {} /\ backend = "winit"
      /\ UNCHANGED <<backend, age, back, missed>>
  BY DEF DrawNothing
<1>2. damage' = damage /\ history' = history /\ behind' = behind
  BY <1>1 DEF Painted, Counted, WholeInv, LoopTypes
<1>3. LoopTypes /\ FewBuffers /\ full_redraw \in 0..4
  BY DEF WholeInv, LoopTypes
<1>4. LoopTypes' /\ FewBuffers'
  BY <1>1, <1>2, <1>3, PaintedIs DEF LoopTypes, FewBuffers
<1>5. \A b \in Buffer : Stale(b)' => Stale(b)
  BY <1>1, <1>2 DEF Stale, Cover
<1>6. \A b \in Buffer : ~Stale(b)
  <2>1. CASE full_redraw \in {0, 1}
    BY <2>1, NoneLeft
  <2>2. CASE full_redraw \notin {0, 1}
    <3>1. Redraws > 0
      BY <1>3, <2>2 DEF Redraws
    <3>2. Area = {}
      BY <1>1, <1>3, <3>1, RedrawnIs
    <3>3. QED BY <1>3, <3>2 DEF Stale, LoopTypes
  <2>3. QED BY <2>1, <2>2
<1>7. QED BY <1>1, <1>4, <1>5, <1>6, NoneStale

LEMMA SubmitWhole ==
  ASSUME WholeInv, Submit
  PROVE  WholeInv'
<1>1. /\ Painted /\ Counted /\ missed' = Mended
      /\ age' = [b \in Buffer |-> IF b = back THEN 1 ELSE Older(age[b])]
      /\ backend' = backend
  BY DEF Submit, Painted
<1>2. /\ LoopTypes /\ FewBuffers /\ backend \in {"winit", "x11"} /\ back \in Buffer
      /\ age \in [Buffer -> 0..(MaxAge + 1)] /\ full_redraw \in 0..4
      /\ MaxAge \in Nat \ {0}
      /\ history \in Seq(SUBSET Area) /\ Len(history) \in 0..MaxAge
  BY NestedAssumption DEF WholeInv, LoopTypes
<1>3. back' \in Buffer \ {back}
  BY DEF Submit
<1>4. age' \in [Buffer -> 0..(MaxAge + 1)] /\ age'[back] = 1
  BY <1>1, <1>2, OlderIs
<1>5. LoopTypes' /\ FewBuffers'
  BY <1>1, <1>2, <1>3, <1>4, CountedIs, PaintedIs DEF LoopTypes, FewBuffers
<1>6. backend' = "x11" => full_redraw' = 0
  BY <1>1, PaintedIs DEF WholeInv
<1>7. ASSUME NEW b \in Buffer, b # back
      PROVE  age'[b] = Older(age[b]) /\ age[b] \in 0..(MaxAge + 1)
  BY <1>1, <1>2, <1>7
<1>8. ASSUME NEW b \in Buffer, Stale(b)'
      PROVE  b # back /\ Stale(b) /\ age[b] <= MaxAge
  <2>1. age'[b] \in 1..Len(history') /\ b \notin Mended /\ ~(behind'[b] \subseteq Cover(b)')
    BY <1>1, <1>8 DEF Stale
  <2>2. b # back
    BY <1>1, <2>1, PaintedIs
  <2>3. Len(history') \in 0..MaxAge /\ age'[b] = Older(age[b]) /\ age[b] \in 0..(MaxAge + 1)
    BY <1>1, <1>2, <1>7, <2>2, CountedIs
  <2>4. age[b] \in 1..MaxAge /\ age'[b] = age[b] + 1
    <3>1. /\ age[b] = 0 => age'[b] = 0
          /\ age[b] \in 1..MaxAge => age'[b] = age[b] + 1
          /\ age[b] > MaxAge => age'[b] = age[b]
      BY <2>3, OlderIs
    <3>2. QED BY <1>2, <2>1, <2>3, <3>1
  <2>5. behind'[b] = behind[b] /\ b \notin missed
    BY <1>1, <2>1, <2>2, PaintedIs DEF Mended
  <2>6. age[b] \in 1..Len(history) /\ Cover(b) \subseteq Cover(b)'
    <3>1. CASE damage' = damage /\ history' = history
      <4>1. \A i \in 1..(age[b] - 1) : i \in 1..(age'[b] - 1)
        BY <2>4
      <4>2. QED BY <1>2, <2>1, <2>4, <3>1, <4>1 DEF Cover
    <3>2. CASE /\ damage' = {} /\ Len(history') <= Len(history) + 1
               /\ \A i \in 1..Len(history') :
                    history'[i] = IF i = 1 THEN damage ELSE history[i - 1]
      <4>1. age[b] \in 1..Len(history)
        BY <1>2, <2>1, <2>3, <2>4, <3>2
      <4>2. /\ 1 \in 1..(age'[b] - 1) /\ history'[1] = damage
        BY <2>1, <2>3, <2>4, <3>2
      <4>3. \A i \in 1..(age[b] - 1) :
              i + 1 \in 1..(age'[b] - 1) /\ history'[i + 1] = history[i]
        <5>1. \A i \in 1..(age[b] - 1) :
                /\ i + 1 \in 1..(age'[b] - 1) /\ i + 1 \in 1..Len(history')
                /\ i + 1 # 1 /\ i + 1 - 1 = i
          BY <2>1, <2>3, <2>4
        <5>2. QED BY <3>2, <5>1
      <4>4. QED BY <4>1, <4>2, <4>3 DEF Cover
    <3>3. QED BY <1>1, <1>2, <3>1, <3>2, CountedIs
  <2>7. QED BY <1>2, <2>1, <2>2, <2>4, <2>5, <2>6 DEF Stale
<1>9. PICK U \in SUBSET Buffer : Outlived(U)
  BY DEF WholeInv
<1>10. CASE U = {}
  <2>1. \A b \in Buffer : ~Stale(b)'
    BY <1>8, <1>9, <1>10 DEF Outlived
  <2>2. QED BY <1>5, <1>6, <2>1, NoneStale
<1>11. CASE U # {}
  <2>0. PICK V \in SUBSET Buffer : V = U \ {back}
    OBVIOUS
  <2>1. /\ backend = "winit" /\ Upcoming(U) /\ back \in U
        /\ IsFiniteSet(U) /\ Cardinality(U) < full_redraw /\ Cardinality(U) \in Nat
    BY <1>9, <1>11, FS_CardinalityType DEF Outlived, Upcoming
  <2>2. IsFiniteSet(V) /\ Cardinality(V) = Cardinality(U) - 1
    BY <2>0, <2>1, FS_RemoveElement
  <2>3. full_redraw' = full_redraw - 1
    BY <1>1, <1>2, <2>1, PaintedIs
  <2>4. Cardinality(V) < full_redraw'
    BY <1>2, <2>1, <2>2, <2>3
  <2>5. \A b \in Buffer : Stale(b)' => b \in V
    BY <1>8, <1>9, <2>0 DEF Outlived
  <2>6. back' \in {b \in Buffer \ {back} :
                     age[b] = 0 \/ \A c \in Buffer \ {back} : age[c] # 0 /\ age[c] <= age[b]}
    BY <2>1 DEF Submit
  <2>7. CASE back' \in V
    <3>1. ASSUME NEW b \in V \ {back'}, NEW c \in Buffer \ V
          PROVE  age'[c] # 0 /\ (age'[b] = 0 \/ age'[b] > MaxAge \/ age'[c] < age'[b])
      <4>1. b # back /\ b \in Buffer /\ b \in U \ {back}
        BY <2>0, <3>1
      <4>2. age'[b] = Older(age[b]) /\ age[b] \in 0..(MaxAge + 1)
        BY <1>7, <4>1
      <4>3. CASE c = back
        BY <1>2, <1>4, <4>2, <4>3, OlderIs, SMTT(30)
      <4>4. CASE c # back
        <5>1. c \in Buffer \ U
          BY <2>0, <4>4
        <5>2. age[c] # 0 /\ (age[b] = 0 \/ age[b] > MaxAge \/ age[c] < age[b])
          BY <2>1, <4>1, <5>1 DEF Upcoming
        <5>3. age'[c] = Older(age[c]) /\ age[c] \in 0..(MaxAge + 1)
          BY <1>7, <4>4
        <5>4. /\ age[c] = 0 <=> age'[c] = 0
              /\ age[c] \in 1..MaxAge => age'[c] = age[c] + 1
              /\ age[c] > MaxAge => age'[c] = age[c]
          BY <5>3, OlderIs
        <5>5. /\ age[b] = 0 => age'[b] = 0
              /\ age[b] \in 1..MaxAge => age'[b] = age[b] + 1
              /\ age[b] > MaxAge => age'[b] = age[b]
          BY <4>2, OlderIs
        <5>6. QED BY <1>2, <4>2, <5>2, <5>3, <5>4, <5>5
      <4>5. QED BY <4>3, <4>4
    <3>2. Upcoming(V)'
      BY <2>7, <3>1 DEF Upcoming
    <3>3. Outlived(V)'
      BY <1>1, <2>1, <2>2, <2>4, <2>5, <3>2 DEF Outlived
    <3>4. QED BY <1>5, <1>6, <3>3 DEF WholeInv
  <2>8. CASE back' \notin V
    <3>1. back' \in Buffer \ U
      BY <1>3, <2>0, <2>8
    <3>2. ASSUME NEW b \in Buffer, Stale(b)' PROVE FALSE
      <4>1. b \in U \ {back} /\ b # back /\ age[b] <= MaxAge
        BY <1>8, <2>0, <2>5, <3>2
      <4>2. age[back'] # 0 /\ (age[b] = 0 \/ age[b] > MaxAge \/ age[back'] < age[b])
        BY <2>1, <3>1, <4>1 DEF Upcoming
      <4>3. age[b] # 0 /\ age[b] <= age[back']
        BY <2>6, <4>1, <4>2
      <4>4. age[b] \in Nat /\ age[back'] \in Nat
        BY <1>2, <3>1
      <4>5. QED BY <1>2, <4>1, <4>2, <4>3, <4>4
    <3>3. QED BY <1>5, <1>6, <3>2, NoneStale
  <2>9. QED BY <2>7, <2>8
<1>12. QED BY <1>10, <1>11

LEMMA NextWhole ==
  ASSUME WholeInv, [LoopNext]_loopVars
  PROVE  WholeInv'
<1>1. CASE UNCHANGED <<backend, picture, full_redraw>>
  BY <1>1, PictureKept DEF WholeInv, LoopTypes
<1>2. CASE QueueRedraw
  <2>1. UNCHANGED <<backend, picture>>
    BY <1>2 DEF QueueRedraw
  <2>2. full_redraw' = IF backend = "winit" /\ full_redraw < 2 THEN 2 ELSE full_redraw
    BY <1>2 DEF QueueRedraw
  <2>3. QED BY <2>1, <2>2, PictureKept DEF WholeInv, LoopTypes
<1>3. CASE PresentCompleted \/ Refresh \/ Quit \/ EndDispatch \/ Exit \/ Skip
  BY <1>1, <1>3 DEF PresentCompleted, Refresh, Quit, EndDispatch, Exit, Skip
<1>4. CASE UNCHANGED loopVars
  BY <1>1, <1>4 DEF loopVars, picture
<1>5. QED
  BY <1>2, <1>3, <1>4, ChangeWhole, ResetWhole, ResizedWhole, BindFailsWhole, DrawFailsWhole,
     SubmitFailsWhole, DrawNothingWhole, SubmitWhole DEF LoopNext, Event, Turn

\* A nested backend submits the whole picture, whatever changed, failed or asked for
\* whole frames since the buffer was last seen, but for the buffers that winit.rs
\* leaves behind after a failure.  What `full_redraw = 4` (winit.rs:98) needs of the
\* host is that it has three buffers at most.
THEOREM WholeHolds == FewBuffers /\ LoopSpec => SubmittedIsWhole
<1>1. WholeInv /\ [LoopNext]_loopVars =>
        [shown' # shown => \A b \in shown' \ missed' : behind'[b] = {}]_loopVars
  <2>1. SUFFICES ASSUME WholeInv, LoopNext, shown' # shown, NEW b \in shown' \ missed'
                 PROVE  behind'[b] = {}
    BY DEF loopVars
  <2>2. CASE Submit
    <3>1. Painted /\ shown' = {back} /\ missed' = Mended
      BY <2>2 DEF Submit
    <3>2. QED BY <2>1, <3>1, PaintedIs
  <2>3. CASE EndDispatch
    BY <2>1, <2>3 DEF EndDispatch
  <2>4. QED
    BY <2>1, <2>2, <2>3
       DEF LoopNext, Event, Turn, Change, ResetBuffers, QueueRedraw, Resized, PresentCompleted,
           Refresh, Quit, Exit, Skip, BindFails, DrawFails, SubmitFails, DrawNothing
<1>2. QED BY <1>1, InitWhole, NextWhole, PTL DEF LoopSpec, SubmittedIsWhole
=============================================================================
