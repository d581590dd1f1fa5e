----------------------------- MODULE TilingProofs ----------------------------
(***************************************************************************)
(* For any layouts, sizes and finitely many windows: as long as nothing    *)
(* that the plan reads changed without an arrangement, each tile is bound  *)
(* for its slot, a point in any case; the slots lie in the work area, a    *)
(* gap apart, where there is room for them; and no two windows have the    *)
(* same id.                                                                *)
(***************************************************************************)
EXTENDS Tiling, SequenceTheorems, FiniteSetTheorems, WellFoundedInduction, TLAPS

-----------------------------------------------------------------------------
(* Stacks.                                                                 *)

Members(q) == {q[i] : i \in 1..Len(q)}

\* Taking a window out of a stack that has it once takes it away.
LEMMA WithoutProperties ==
  ASSUME NEW q \in Seq(Window), IsInjective(q), NEW w \in Members(q)
  PROVE  /\ Without(q, w) \in Seq(Window) /\ IsInjective(Without(q, w))
         /\ Members(Without(q, w)) = Members(q) \ {w} /\ Len(Without(q, w)) = Len(q) - 1
<1> DEFINE k == CHOOSE i \in DOMAIN q : q[i] = w
           a == SubSeq(q, 1, k - 1)
           b == SubSeq(q, k + 1, Len(q))
           r == a \o b
<1>1. Len(q) \in Nat /\ DOMAIN q = 1..Len(q) /\ \A i \in 1..Len(q) : q[i] \in Window
  BY LenProperties, ElementOfSeq
<1>2. k \in 1..Len(q) /\ q[k] = w
  BY <1>1 DEF Members
<1> HIDE DEF k
<1>3. Len(q) \in Nat /\ k \in 1..Len(q)
  BY <1>1, <1>2
<1>4. /\ a \in Seq(Window) /\ Len(a) = k - 1
      /\ \A i \in 1..(k - 1) : a[i] = q[i]
  <2>1. 1 \in Int /\ k - 1 \in Int /\ \A i \in 1..(k - 1) : q[i] \in Window
    BY <1>1, <1>2
  <2>2. /\ SubSeq(q, 1, k - 1) \in Seq(Window)
        /\ Len(SubSeq(q, 1, k - 1)) = IF 1 <= k - 1 THEN k - 1 - 1 + 1 ELSE 0
        /\ \A i \in 1..(k - 1 - 1 + 1) : SubSeq(q, 1, k - 1)[i] = q[1 + i - 1]
    BY <2>1, SubSeqProperties
  <2>3. QED BY <1>1, <1>2, <2>2
<1>5. /\ b \in Seq(Window) /\ Len(b) = Len(q) - k
      /\ \A i \in 1..(Len(q) - k) : b[i] = q[k + i]
  <2>1. \A i \in (k + 1)..Len(q) : q[i] \in Window
    BY <1>1, <1>2
  <2>2. /\ SubSeq(q, k + 1, Len(q)) \in Seq(Window)
        /\ Len(SubSeq(q, k + 1, Len(q))) = IF k + 1 <= Len(q) THEN Len(q) - (k + 1) + 1 ELSE 0
        /\ \A i \in 1..(Len(q) - (k + 1) + 1) :
             SubSeq(q, k + 1, Len(q))[i] = q[k + 1 + i - 1]
    BY <1>1, <1>2, <2>1, SubSeqProperties
  <2>3. (IF k + 1 <= Len(q) THEN Len(q) - (k + 1) + 1 ELSE 0) = Len(q) - k
    BY <1>3
  <2>4. ASSUME NEW i \in 1..(Len(q) - k) PROVE b[i] = q[k + i]
    <3>1. i \in 1..(Len(q) - (k + 1) + 1) /\ k + 1 + i - 1 = k + i
      BY <1>1, <1>2
    <3>2. QED BY <2>2, <3>1
  <2>5. QED BY <2>2, <2>3, <2>4
<1> HIDE DEF a, b
<1>6. /\ r \in Seq(Window) /\ Len(r) = Len(q) - 1
      /\ \A i \in 1..(Len(q) - 1) : r[i] = IF i < k THEN q[i] ELSE q[i + 1]
  <2>1. /\ a \o b \in Seq(Window) /\ Len(a \o b) = Len(a) + Len(b)
        /\ \A i \in 1..(Len(a) + Len(b)) :
             (a \o b)[i] = IF i <= Len(a) THEN a[i] ELSE b[i - Len(a)]
    BY <1>4, <1>5, ConcatProperties
  <2>2. Len(a) + Len(b) = Len(q) - 1
    BY <1>1, <1>2, <1>4, <1>5
  <2>3. ASSUME NEW i \in 1..(Len(q) - 1), i < k PROVE r[i] = q[i]
    BY <1>1, <1>2, <1>4, <2>1, <2>2, <2>3
  <2>4. ASSUME NEW i \in 1..(Len(q) - 1), ~(i < k) PROVE r[i] = q[i + 1]
    <3>1. i - (k - 1) \in 1..(Len(q) - k) /\ k + (i - (k - 1)) = i + 1 /\ ~(i <= k - 1)
      BY <1>1, <1>2, <2>4
    <3>2. QED BY <1>4, <1>5, <2>1, <2>2, <3>1
  <2>5. QED BY <2>1, <2>2, <2>3, <2>4
<1> HIDE DEF r
<1>7. DOMAIN r = 1..Len(r)
  BY <1>6, LenProperties
<1>8. IsInjective(r)
  <2>1. SUFFICES ASSUME NEW i \in 1..(Len(q) - 1), NEW j \in 1..(Len(q) - 1), r[i] = r[j]
                 PROVE  i = j
    BY <1>6, <1>7 DEF IsInjective
  <2> DEFINE up(n) == IF n < k THEN n ELSE n + 1
  <2>2. up(i) \in 1..Len(q) /\ up(j) \in 1..Len(q) /\ q[up(i)] = r[i] /\ q[up(j)] = r[j]
    BY <1>1, <1>2, <1>6
  <2>3. up(i) = up(j)
    BY <1>1, <2>1, <2>2 DEF IsInjective
  <2>4. QED BY <1>1, <1>2, <2>3
<1>9. Members(r) = Members(q) \ {w}
  <2>1. ASSUME NEW i \in 1..(Len(q) - 1) PROVE r[i] \in Members(q) \ {w}
    <3> DEFINE up == IF i < k THEN i ELSE i + 1
    <3>1. up \in 1..Len(q) /\ up # k /\ r[i] = q[up]
      BY <1>1, <1>2, <1>6
    <3>2. q[up] # w
      BY <1>1, <1>2, <3>1 DEF IsInjective
    <3>3. QED BY <3>1, <3>2 DEF Members
  <2>2. ASSUME NEW n \in 1..Len(q), q[n] # w PROVE q[n] \in Members(r)
    <3> DEFINE down == IF n < k THEN n ELSE n - 1
    <3>1. down \in 1..(Len(q) - 1) /\ r[down] = q[n]
      BY <1>1, <1>2, <1>6, <2>2
    <3>2. QED BY <1>6, <3>1 DEF Members
  <2>3. QED BY <1>6, <2>1, <2>2 DEF Members
<1>10. Without(q, w) = r
  BY DEF Without, RemoveAt, r, a, b, k
<1>11. QED BY <1>6, <1>8, <1>9, <1>10

\* Mapping a window puts it on top.
LEMMA AppendMembers ==
  ASSUME NEW q \in Seq(Window), IsInjective(q), NEW w \in Window \ Members(q)
  PROVE  /\ Append(q, w) \in Seq(Window) /\ IsInjective(Append(q, w))
         /\ Members(Append(q, w)) = Members(q) \cup {w}
<1>1. Len(q) \in Nat /\ DOMAIN q = 1..Len(q)
  BY LenProperties
<1>2. /\ Append(q, w) \in Seq(Window) /\ Len(Append(q, w)) = Len(q) + 1
      /\ Append(q, w)[Len(q) + 1] = w /\ \A i \in 1..Len(q) : Append(q, w)[i] = q[i]
  BY AppendProperties, <1>1
<1> DEFINE r == Append(q, w)
<1> HIDE DEF r
<1>3. DOMAIN r = 1..(Len(q) + 1)
  BY <1>2, LenProperties DEF r
<1>4. IsInjective(r)
  <2>1. SUFFICES ASSUME NEW i \in 1..(Len(q) + 1), NEW j \in 1..(Len(q) + 1), r[i] = r[j]
                 PROVE  i = j
    BY <1>3 DEF IsInjective
  <2>2. \A n \in 1..(Len(q) + 1) :
          \/ n \in 1..Len(q) /\ r[n] = q[n] /\ q[n] \in Members(q)
          \/ n = Len(q) + 1 /\ r[n] = w
    BY <1>1, <1>2 DEF r, Members
  <2>3. QED BY <1>1, <2>1, <2>2 DEF IsInjective
<1>5. Members(r) = Members(q) \cup {w}
  BY <1>1, <1>2 DEF Members, r
<1>6. QED BY <1>2, <1>4, <1>5 DEF r

LEMMA RaisedProperties ==
  ASSUME NEW q \in Seq(Window), IsInjective(q), NEW w \in Members(q)
  PROVE  /\ Append(Without(q, w), w) \in Seq(Window)
         /\ IsInjective(Append(Without(q, w), w))
         /\ Members(Append(Without(q, w), w)) = Members(q)
<1> DEFINE r == Without(q, w)
<1>1. r \in Seq(Window) /\ IsInjective(r) /\ Members(r) = Members(q) \ {w}
  BY WithoutProperties
<1>2. w \in Window
  BY ElementOfSeq DEF Members
<1> HIDE DEF r
<1>3. /\ Append(r, w) \in Seq(Window) /\ IsInjective(Append(r, w))
      /\ Members(Append(r, w)) = Members(r) \cup {w}
  BY <1>1, <1>2, AppendMembers
<1>4. QED BY <1>1, <1>3 DEF r

\* A drop puts the window between two others.
LEMMA InsertMembers ==
  ASSUME NEW q \in Seq(Window), IsInjective(q), NEW w \in Window \ Members(q),
         NEW k \in 1..(Len(q) + 1)
  PROVE  /\ InsertAt(q, k, w) \in Seq(Window) /\ IsInjective(InsertAt(q, k, w))
         /\ Members(InsertAt(q, k, w)) = Members(q) \cup {w}
<1> DEFINE a == SubSeq(q, 1, k - 1)
           b == SubSeq(q, k, Len(q))
           c == a \o <<w>>
           r == c \o b
<1>1. Len(q) \in Nat /\ DOMAIN q = 1..Len(q) /\ \A i \in 1..Len(q) : q[i] \in Window
  BY LenProperties, ElementOfSeq
<1>2. Len(q) \in Nat /\ k \in 1..(Len(q) + 1)
  BY <1>1
<1>3. /\ a \in Seq(Window) /\ Len(a) = k - 1
      /\ \A i \in 1..(k - 1) : a[i] = q[i]
  <2>1. 1 \in Int /\ k - 1 \in Int /\ \A i \in 1..(k - 1) : q[i] \in Window
    BY <1>1, <1>2
  <2>2. /\ SubSeq(q, 1, k - 1) \in Seq(Window)
        /\ Len(SubSeq(q, 1, k - 1)) = IF 1 <= k - 1 THEN k - 1 - 1 + 1 ELSE 0
        /\ \A i \in 1..(k - 1 - 1 + 1) : SubSeq(q, 1, k - 1)[i] = q[1 + i - 1]
    BY <2>1, SubSeqProperties
  <2>3. QED BY <1>1, <1>2, <2>2
<1>4. /\ b \in Seq(Window) /\ Len(b) = Len(q) + 1 - k
      /\ \A i \in 1..(Len(q) + 1 - k) : b[i] = q[k - 1 + i]
  <2>1. k \in Int /\ Len(q) \in Int /\ \A i \in k..Len(q) : q[i] \in Window
    BY <1>1, <1>2
  <2>2. /\ SubSeq(q, k, Len(q)) \in Seq(Window)
        /\ Len(SubSeq(q, k, Len(q))) = IF k <= Len(q) THEN Len(q) - k + 1 ELSE 0
        /\ \A i \in 1..(Len(q) - k + 1) : SubSeq(q, k, Len(q))[i] = q[k + i - 1]
    BY <2>1, SubSeqProperties
  <2>3. (IF k <= Len(q) THEN Len(q) - k + 1 ELSE 0) = Len(q) + 1 - k
    BY <1>2
  <2>4. ASSUME NEW i \in 1..(Len(q) + 1 - k) PROVE b[i] = q[k - 1 + i]
    <3>1. i \in 1..(Len(q) - k + 1) /\ k + i - 1 = k - 1 + i
      BY <1>2
    <3>2. QED BY <2>2, <3>1
  <2>5. QED BY <2>2, <2>3, <2>4
<1> HIDE DEF a, b
<1>5. /\ c \in Seq(Window) /\ Len(c) = k
      /\ \A i \in 1..k : c[i] = IF i < k THEN q[i] ELSE w
  <2>1. <<w>> \in Seq(Window) /\ Len(<<w>>) = 1 /\ <<w>>[1] = w
    OBVIOUS
  <2>2. /\ a \o <<w>> \in Seq(Window) /\ Len(a \o <<w>>) = Len(a) + Len(<<w>>)
        /\ \A i \in 1..(Len(a) + Len(<<w>>)) :
             (a \o <<w>>)[i] = IF i <= Len(a) THEN a[i] ELSE <<w>>[i - Len(a)]
    BY <1>3, <2>1, ConcatProperties
  <2>3. Len(a) + Len(<<w>>) = k
    BY <1>2, <1>3, <2>1
  <2>4. ASSUME NEW i \in 1..k, i < k PROVE c[i] = q[i]
    <3>1. i \in 1..(k - 1) /\ i <= k - 1
      BY <1>2, <2>4
    <3>2. QED BY <1>3, <2>2, <2>3, <3>1
  <2>5. c[k] = w
    <3>1. k \in 1..k /\ ~(k <= k - 1) /\ k - (k - 1) = 1
      BY <1>2
    <3>2. QED BY <1>3, <2>1, <2>2, <2>3, <3>1
  <2>6. \A i \in 1..k : i < k \/ i = k
    BY <1>2
  <2>7. QED BY <2>2, <2>3, <2>4, <2>5, <2>6
<1> HIDE DEF c
<1>6. /\ r \in Seq(Window) /\ Len(r) = Len(q) + 1
      /\ \A i \in 1..(Len(q) + 1) : r[i] = IF i < k THEN q[i] ELSE IF i = k THEN w ELSE q[i - 1]
  <2>1. /\ c \o b \in Seq(Window) /\ Len(c \o b) = Len(c) + Len(b)
        /\ \A i \in 1..(Len(c) + Len(b)) :
             (c \o b)[i] = IF i <= Len(c) THEN c[i] ELSE b[i - Len(c)]
    BY <1>4, <1>5, ConcatProperties
  <2>2. Len(c) + Len(b) = Len(q) + 1
    BY <1>2, <1>4, <1>5
  <2>3. ASSUME NEW i \in 1..(Len(q) + 1), i <= k
        PROVE  r[i] = IF i < k THEN q[i] ELSE w
    <3>1. i \in 1..k
      BY <1>2, <2>3
    <3>2. QED BY <1>5, <2>1, <2>2, <2>3, <3>1
  <2>4. ASSUME NEW i \in 1..(Len(q) + 1), ~(i <= k) PROVE r[i] = q[i - 1]
    <3>1. i - k \in 1..(Len(q) + 1 - k) /\ k - 1 + (i - k) = i - 1
      BY <1>2, <2>4
    <3>2. QED BY <1>4, <1>5, <2>1, <2>2, <2>4, <3>1
  <2>5. \A i \in 1..(Len(q) + 1) :
          /\ i < k => i <= k
          /\ i = k => i <= k /\ ~(i < k)
          /\ ~(i < k) /\ i # k => ~(i <= k)
    BY <1>2
  <2>6. QED BY <2>1, <2>2, <2>3, <2>4, <2>5
<1> HIDE DEF r
<1>7. DOMAIN r = 1..Len(r)
  BY <1>6, LenProperties
<1>8. \A i \in 1..(Len(q) + 1) :
        \/ i = k /\ r[i] = w
        \/ i < k /\ i \in 1..Len(q) /\ r[i] = q[i] /\ q[i] \in Members(q)
        \/ i > k /\ i - 1 \in 1..Len(q) /\ r[i] = q[i - 1] /\ q[i - 1] \in Members(q)
  <2>1. \A i \in 1..(Len(q) + 1) :
          i = k \/ (i < k /\ i \in 1..Len(q)) \/ (i > k /\ ~(i < k) /\ i # k /\ i - 1 \in 1..Len(q))
    BY <1>2
  <2>2. QED BY <1>6, <2>1 DEF Members
<1>9. IsInjective(r)
  <2>1. SUFFICES ASSUME NEW i \in 1..(Len(q) + 1), NEW j \in 1..(Len(q) + 1), r[i] = r[j]
                 PROVE  i = j
    BY <1>6, <1>7 DEF IsInjective
  <2>2. \A m \in 1..Len(q), n \in 1..Len(q) : q[m] = q[n] => m = n
    BY <1>1 DEF IsInjective
  <2>3. CASE i = k \/ j = k
    BY <1>8, <2>1, <2>3
  <2>4. CASE i < k /\ j < k
    BY <1>2, <1>8, <2>1, <2>2, <2>4
  <2>5. CASE i > k /\ j > k
    <3>1. i - 1 = j - 1
      BY <1>2, <1>8, <2>1, <2>2, <2>5
    <3>2. QED BY <1>2, <3>1
  <2>6. CASE (i < k /\ j > k) \/ (i > k /\ j < k)
    <3>1. i = j - 1 \/ j = i - 1
      BY <1>2, <1>8, <2>1, <2>2, <2>6
    <3>2. QED BY <1>2, <2>6, <3>1
  <2>7. QED BY <1>2, <2>3, <2>4, <2>5, <2>6
<1>10. Members(r) = Members(q) \cup {w}
  <2>1. ASSUME NEW i \in 1..(Len(q) + 1) PROVE r[i] \in Members(q) \cup {w}
    BY <1>8
  <2>2. ASSUME NEW n \in 1..Len(q) PROVE q[n] \in Members(r)
    <3> DEFINE up == IF n < k THEN n ELSE n + 1
    <3>1. /\ up \in 1..(Len(q) + 1)
          /\ n < k => up = n
          /\ ~(n < k) => up = n + 1 /\ ~(up < k) /\ up # k /\ up - 1 = n
      BY <1>2
    <3> HIDE DEF up
    <3>2. r[up] = q[n]
      BY <1>6, <3>1
    <3>3. QED BY <1>6, <3>1, <3>2 DEF Members
  <2>3. w \in Members(r)
    BY <1>2, <1>6 DEF Members
  <2>4. QED BY <1>6, <2>1, <2>2, <2>3 DEF Members
<1>11. InsertAt(q, k, w) = r
  BY DEF InsertAt, r, c, a, b
<1>12. QED BY <1>6, <1>9, <1>10, <1>11

-----------------------------------------------------------------------------
(* The order of a stack.                                                   *)

\* The stack is one of windows, each once.
StackOK(q) == q \in Seq(Window) /\ IsInjective(q)

\* Fewer windows are above one than above another that is under it.
LEMMA AboveShrinks ==
  ASSUME NEW q, StackOK(q), NEW S \in SUBSET Window,
         NEW i \in 1..Len(q), NEW j \in 1..Len(q), i < j, q[i] \in S, q[j] \in S
  PROVE  Cardinality(Above(q, S, q[j])) < Cardinality(Above(q, S, q[i]))
<1>1. Len(q) \in Nat /\ DOMAIN q = 1..Len(q)
  BY LenProperties DEF StackOK
<1>2. Above(q, S, q[j]) \subseteq Above(q, S, q[i])
  <2>1. SUFFICES ASSUME NEW k \in DOMAIN q, q[k] \in S, NEW n \in 1..(k - 1), q[n] = q[j]
                 PROVE  q[k] \in Above(q, S, q[i])
    BY DEF Above
  <2>2. n \in 1..Len(q)
    BY <1>1, <2>1
  <2>3. n = j
    BY <1>1, <2>1, <2>2 DEF StackOK, IsInjective
  <2>4. i \in 1..(k - 1)
    BY <1>1, <2>1, <2>3
  <2>5. QED BY <2>1, <2>4 DEF Above
<1>3. q[j] \in Above(q, S, q[i])
  <2>1. i \in 1..(j - 1)
    BY <1>1
  <2>2. QED BY <1>1, <2>1 DEF Above
<1>4. q[j] \notin Above(q, S, q[j])
  <2>1. SUFFICES ASSUME NEW k \in DOMAIN q, NEW n \in 1..(k - 1), q[n] = q[j], q[k] = q[j]
                 PROVE  FALSE
    BY DEF Above
  <2>2. n \in 1..Len(q) /\ n # k
    BY <1>1, <2>1
  <2>3. QED BY <1>1, <2>1, <2>2 DEF StackOK, IsInjective
<1>5. IsFiniteSet(Above(q, S, q[i]))
  <2>1. Above(q, S, q[i]) \subseteq Window
    BY DEF Above
  <2>2. QED BY <2>1, FS_Subset, TilingAssumption
<1>6. /\ IsFiniteSet(Above(q, S, q[j]))
      /\ Cardinality(Above(q, S, q[j])) <= Cardinality(Above(q, S, q[i]))
      /\ Cardinality(Above(q, S, q[j])) # Cardinality(Above(q, S, q[i]))
  BY <1>2, <1>3, <1>4, <1>5, FS_Subset
<1>7. Cardinality(Above(q, S, q[i])) \in Nat /\ Cardinality(Above(q, S, q[j])) \in Nat
  BY <1>5, <1>6, FS_CardinalityType
<1>8. QED BY <1>6, <1>7

\* So the windows of S are numbered from the top: no number twice.
LEMMA Numbered ==
  ASSUME NEW q, StackOK(q), NEW S \in SUBSET Members(q), NEW v \in S, NEW w \in S
  PROVE  /\ Cardinality(Above(q, S, v)) \in Nat
         /\ Cardinality(Above(q, S, v)) < Cardinality(S)
         /\ v # w => Cardinality(Above(q, S, v)) # Cardinality(Above(q, S, w))
<1>1. Len(q) \in Nat /\ DOMAIN q = 1..Len(q) /\ S \in SUBSET Window
  BY LenProperties, ElementOfSeq DEF StackOK, Members
<1>2. IsFiniteSet(S)
  BY <1>1, FS_Subset, TilingAssumption
<1>3. Above(q, S, v) \subseteq S /\ v \notin Above(q, S, v)
  <2>1. SUFFICES ASSUME NEW k \in DOMAIN q, NEW n \in 1..(k - 1), q[n] = v, q[k] = v
                 PROVE  FALSE
    BY DEF Above
  <2>2. n \in 1..Len(q) /\ n # k
    BY <1>1, <2>1
  <2>3. QED BY <1>1, <2>1, <2>2 DEF StackOK, IsInjective
<1>4. /\ IsFiniteSet(Above(q, S, v)) /\ Cardinality(Above(q, S, v)) <= Cardinality(S)
      /\ Cardinality(Above(q, S, v)) # Cardinality(S)
  BY <1>2, <1>3, FS_Subset
<1>5. Cardinality(Above(q, S, v)) \in Nat /\ Cardinality(S) \in Nat
  BY <1>2, <1>4, FS_CardinalityType
<1>6. PICK i \in 1..Len(q), j \in 1..Len(q) : q[i] = v /\ q[j] = w
  BY DEF Members
<1>7. ASSUME v # w PROVE Cardinality(Above(q, S, v)) # Cardinality(Above(q, S, w))
  <2>1. i < j \/ j < i
    BY <1>1, <1>6, <1>7
  <2>2. CASE i < j
    <3>1. Cardinality(Above(q, S, w)) < Cardinality(Above(q, S, v))
      BY <1>1, <1>6, <2>2, AboveShrinks
    <3>2. QED BY <1>5, <3>1
  <2>3. CASE j < i
    <3>1. Cardinality(Above(q, S, v)) < Cardinality(Above(q, S, w))
      BY <1>1, <1>6, <2>3, AboveShrinks
    <3>2. QED BY <1>5, <3>1
  <2>4. QED BY <2>1, <2>2, <2>3
<1>8. QED BY <1>4, <1>5, <1>7

\* A window on top of the others is above them and changes nothing among them.
LEMMA AboveAppend ==
  ASSUME NEW q, StackOK(q), NEW x \in Window, NEW S, x \notin S, NEW w, w # x
  PROVE  Above(Append(q, x), S, w) = Above(q, S, w)
<1> DEFINE r == Append(q, x)
<1>1. Len(q) \in Nat /\ DOMAIN q = 1..Len(q)
  BY LenProperties DEF StackOK
<1>2. /\ r \in Seq(Window) /\ Len(r) = Len(q) + 1 /\ r[Len(q) + 1] = x
      /\ \A i \in 1..Len(q) : r[i] = q[i]
  BY <1>1, AppendProperties DEF StackOK
<1>3. DOMAIN r = 1..(Len(q) + 1)
  BY <1>2, LenProperties
<1> HIDE DEF r
<1>4. {k \in DOMAIN r : r[k] \in S /\ \E j \in 1..(k - 1) : r[j] = w}
      = {k \in DOMAIN q : q[k] \in S /\ \E j \in 1..(k - 1) : q[j] = w}
  <2>1. \A k \in DOMAIN q : k \in DOMAIN r /\ r[k] = q[k] /\ \A j \in 1..(k - 1) : r[j] = q[j]
    <3>1. \A k \in 1..Len(q) : k \in 1..(Len(q) + 1) /\ \A j \in 1..(k - 1) : j \in 1..Len(q)
      BY <1>1
    <3>2. QED BY <1>1, <1>2, <1>3, <3>1
  <2>2. \A k \in DOMAIN r : k \in DOMAIN q \/ k = Len(q) + 1
    BY <1>1, <1>3
  <2>3. QED BY <1>2, <2>1, <2>2
<1>5. \A k \in DOMAIN q : r[k] = q[k]
  BY <1>1, <1>2
<1>6. Above(r, S, w) = Above(q, S, w)
  BY <1>4, <1>5 DEF Above
<1>7. QED BY <1>6 DEF r

-----------------------------------------------------------------------------
(* The plan.                                                               *)

\* A layout state has the fields of LayoutWindowState.
IsState(l) ==
  l = [id |-> l.id, floating |-> l.floating, initialized |-> l.initialized, target |-> l.target,
       moving |-> l.moving, override |-> l.override, full |-> l.full]

StatesOK(L) == L = [w \in Window |-> L[w]] /\ \A w \in Window : IsState(L[w])

\* What compute_plans reads of a layout state.
SameForPlan(L, M) ==
  \A w \in Window : /\ L[w].floating = M[w].floating
                     /\ L[w].full = M[w].full
                     /\ L[w].override = M[w].override

\* Only tiles are planned for.
LEMMA PlannedAreTiles ==
  ASSUME NEW kind \in Layouts, NEW q, NEW T, NEW L, NEW area
  PROVE  DOMAIN Plan(kind, q, T, L, area) \subseteq T
<1>1. kind \in {"columns", "grid", "master_stack", "maximize", "floating"}
  BY TilingAssumption
<1>2. kind # "floating" => \A A, f : DOMAIN Slots(kind, area, A, f) = DOMAIN A
  BY <1>1 DEF Slots, ColumnsLayout, GridLayout, MasterStackLayout
<1>3. DOMAIN <<>> = {}
  OBVIOUS
<1>4. QED BY <1>2, <1>3 DEF Plan

\* Two states that compute_plans cannot tell apart get the same plan.
LEMMA SamePlan ==
  ASSUME NEW kind, NEW q, NEW T, NEW L, NEW M, SameForPlan(L, M), NEW area
  PROVE  Plan(kind, q, T, L, area) = Plan(kind, q, T, M, area)
<1>1. {w \in Window : L[w].full} = {w \in Window : M[w].full}
  BY DEF SameForPlan
<1>2. WidthOverrides(L) = WidthOverrides(M)
  BY DEF SameForPlan, WidthOverrides
<1>3. QED BY <1>1, <1>2 DEF Plan

LEMMA SameTiles ==
  ASSUME NEW q, NEW L, NEW M, SameForPlan(L, M), NEW out
  PROVE  Tiles(q, L, out) = Tiles(q, M, out)
<1>1. {w \in Window : L[w].floating} = {w \in Window : M[w].floating}
  BY DEF SameForPlan
<1>2. QED BY <1>1 DEF Tiles

LEMMA TilesAreMembers ==
  ASSUME NEW q \in Seq(Window), NEW L, NEW out
  PROVE  Tiles(q, L, out) \subseteq Members(q) /\ Members(q) \subseteq Window
<1>1. DOMAIN q = 1..Len(q)
  BY LenProperties
<1>2. QED BY <1>1, ElementOfSeq DEF Tiles, Members

\* A new window that waits for its content changes no plan.
LEMMA PlanWithWaiting ==
  ASSUME NEW kind, NEW q, StackOK(q), NEW x \in Window \ Members(q), NEW L, NEW area, NEW out
  PROVE  LET T == Tiles(q, L, out)
             r == Append(q, x)
         IN  /\ Tiles(r, L, out \cup {x}) = T
             /\ Plan(kind, r, T, L, area) = Plan(kind, q, T, L, area)
<1> DEFINE T == Tiles(q, L, out)
           r == Append(q, x)
<1>1. DOMAIN q = 1..Len(q) /\ Members(r) = Members(q) \cup {x} /\ r \in Seq(Window)
  BY LenProperties, AppendMembers DEF StackOK
<1>2. DOMAIN r = 1..Len(r)
  BY <1>1, LenProperties
<1> HIDE DEF r
<1>3. Tiles(r, L, out \cup {x}) = T
  BY <1>1, <1>2 DEF Tiles, Members
<1>4. x \notin T
  BY TilesAreMembers DEF StackOK
<1> HIDE DEF T
<1>5. \A S \in SUBSET T : \A w \in T : Above(r, S, w) = Above(q, S, w)
  BY <1>4, AboveAppend DEF r
<1>6. [w \in T |-> Above(r, T, w)] = [w \in T |-> Above(q, T, w)]
  BY <1>5
<1> DEFINE full == T \cap {w \in Window : L[w].full}
<1>7. full \in SUBSET T
  OBVIOUS
<1> HIDE DEF full
<1>8. {v \in full : Above(r, full, v) = {}} = {v \in full : Above(q, full, v) = {}}
  BY <1>5, <1>7
<1>9. Plan(kind, r, T, L, area) = Plan(kind, q, T, L, area)
  BY <1>6, <1>8 DEF Plan, full
<1>10. QED BY <1>3, <1>9 DEF T, r

-----------------------------------------------------------------------------
(* Sums over finite sets, by least counterexamples.                        *)

\* Of some sets, all finite, one is smallest.
LEMMA SmallestSet ==
  ASSUME NEW F, F # {}, \A T \in F : IsFiniteSet(T)
  PROVE  \E T \in F : \A U \in F : ~(Cardinality(U) < Cardinality(T))
<1> DEFINE sizes == {Cardinality(T) : T \in F}
<1>1. sizes \subseteq Nat /\ sizes # {}
  BY FS_CardinalityType
<1>2. PICK n \in sizes : \A m \in sizes : ~ (<<m, n>> \in OpToRel(<, Nat))
  BY <1>1, NatLessThanWellFounded, WFMin
<1>3. \A m \in sizes : ~(m < n)
  BY <1>1, <1>2 DEF OpToRel
<1>4. QED BY <1>2, <1>3

\* One that has lost an element is smaller.
LEMMA SmallerSet ==
  ASSUME NEW S, IsFiniteSet(S), NEW x \in S
  PROVE  /\ IsFiniteSet(S \ {x}) /\ Cardinality(S \ {x}) \in Nat
         /\ Cardinality(S) = Cardinality(S \ {x}) + 1
         /\ Cardinality(S \ {x}) < Cardinality(S)
<1>1. Cardinality(S) \in Nat
  BY FS_CardinalityType
<1>2. IsFiniteSet(S \ {x}) /\ Cardinality(S \ {x}) = Cardinality(S) - 1
  BY FS_RemoveElement
<1>3. Cardinality(S \ {x}) \in Nat
  BY <1>2, FS_CardinalityType
<1>4. QED BY <1>1, <1>2, <1>3

\* What MapThenSumSet chooses: the sums over the subsets of S, each with an
\* element less than the one before.
First(S) == CHOOSE x \in S : TRUE
SumsOver(f, S, g) ==
  g = [T \in SUBSET S |-> IF T = {} THEN 0 ELSE f[First(T)] + g[T \ {First(T)}]]

LEMMA TotalIsChosen ==
  ASSUME NEW f, NEW S
  PROVE  Total(f, S) = (CHOOSE g : SumsOver(f, S, g))[S]
BY DEF Total, SumsOver, First, MapThenSumSet, MapThenFoldSet

LEMMA FirstIsIn == ASSUME NEW S, S # {} PROVE First(S) \in S
BY DEF First

\* There are such sums: for subsets of one size after the other.
LEMMA SumsExist ==
  ASSUME NEW f, NEW S, IsFiniteSet(S)
  PROVE  \E g : SumsOver(f, S, g)
<1> DEFINE Small(n) == {T \in SUBSET S : Cardinality(T) <= n}
           Upto(n, g) == g = [T \in Small(n) |->
                                IF T = {} THEN 0 ELSE f[First(T)] + g[T \ {First(T)}]]
           Missing == {n \in Nat : ~ \E g : Upto(n, g)}
<1>1. \A T \in SUBSET S : IsFiniteSet(T) /\ Cardinality(T) \in Nat
  BY FS_Subset, FS_CardinalityType
<1>2. Cardinality(S) \in Nat /\ \A T \in SUBSET S : Cardinality(T) <= Cardinality(S)
  BY FS_Subset, FS_CardinalityType
<1>3. Missing = {}
  <2>1. SUFFICES ASSUME Missing # {} PROVE FALSE
    OBVIOUS
  <2>2. PICK n \in Missing : \A m \in Missing : ~ (<<m, n>> \in OpToRel(<, Nat))
    BY <2>1, NatLessThanWellFounded, WFMin
  <2>3. n \in Nat /\ \A m \in Nat : m < n => \E g : Upto(m, g)
    BY <2>2 DEF OpToRel
  <2>4. CASE n = 0
    <3> DEFINE g == [T \in Small(0) |-> 0]
    <3>1. \A T \in Small(0) : T = {}
      BY <1>1, FS_EmptySet
    <3>2. Upto(0, g)
      BY <3>1
    <3>3. QED BY <2>2, <2>4, <3>2
  <2>5. CASE n # 0
    <3>1. n - 1 \in Nat /\ n - 1 < n
      BY <2>3, <2>5
    <3>2. PICK g : Upto(n - 1, g)
      <4> HIDE DEF Upto
      <4>1. QED BY <2>3, <3>1
    <3> DEFINE h == [T \in Small(n) |->
                       IF T = {} THEN 0 ELSE f[First(T)] + g[T \ {First(T)}]]
    <3>3. ASSUME NEW T \in Small(n - 1)
          PROVE  T \in Small(n) /\ h[T] = g[T]
      <4>1. T \in Small(n)
        BY <1>1, <2>3, <2>5
      <4>2. g[T] = IF T = {} THEN 0 ELSE f[First(T)] + g[T \ {First(T)}]
        BY <3>2
      <4>3. QED BY <4>1, <4>2
    <3>4. ASSUME NEW T \in Small(n), T # {}
          PROVE  T \ {First(T)} \in Small(n - 1)
      <4>1. First(T) \in T /\ IsFiniteSet(T) /\ Cardinality(T) \in Nat
        BY <1>1, <3>4, FirstIsIn
      <4>2. Cardinality(T) = Cardinality(T \ {First(T)}) + 1 /\ Cardinality(T \ {First(T)}) \in Nat
        BY <4>1, SmallerSet
      <4>3. QED BY <2>3, <4>1, <4>2
    <3>5. ASSUME NEW T \in Small(n), T # {}
          PROVE  g[T \ {First(T)}] = h[T \ {First(T)}]
      BY <3>3, <3>4, <3>5
    <3>6. Upto(n, h)
      BY <3>5
    <3>7. QED BY <2>2, <3>6
  <2>6. QED BY <2>4, <2>5
<1>4. PICK g : Upto(Cardinality(S), g)
  BY <1>2, <1>3
<1>5. Small(Cardinality(S)) = SUBSET S
  BY <1>2
<1>6. QED BY <1>4, <1>5 DEF SumsOver

\* Two sets of them agree where both have a sum.
LEMMA SumsAgree ==
  ASSUME NEW f, NEW S, IsFiniteSet(S), NEW T \in SUBSET S,
         NEW g, NEW h, SumsOver(f, S, g), SumsOver(f, T, h)
  PROVE  g[T] = h[T]
<1> DEFINE F == {U \in SUBSET T : g[U] # h[U]}
<1>1. SUFFICES ASSUME F # {} PROVE FALSE
  OBVIOUS
<1>2. \A U \in F : IsFiniteSet(U)
  BY FS_Subset
<1>3. PICK U \in F : \A V \in F : ~(Cardinality(V) < Cardinality(U))
  BY <1>1, <1>2, SmallestSet
<1>4. /\ g[U] = IF U = {} THEN 0 ELSE f[First(U)] + g[U \ {First(U)}]
      /\ h[U] = IF U = {} THEN 0 ELSE f[First(U)] + h[U \ {First(U)}]
  BY DEF SumsOver
<1>5. U # {}
  BY <1>4
<1>6. Cardinality(U \ {First(U)}) < Cardinality(U)
  BY <1>2, <1>5, FirstIsIn, SmallerSet
<1>7. g[U \ {First(U)}] = h[U \ {First(U)}]
  BY <1>3, <1>6
<1>8. QED BY <1>3, <1>4, <1>5, <1>7

LEMMA TotalIs ==
  ASSUME NEW f, NEW S, IsFiniteSet(S)
  PROVE  /\ Total(f, {}) = 0
         /\ S # {} => Total(f, S) = f[First(S)] + Total(f, S \ {First(S)})
<1>1. ASSUME NEW T, IsFiniteSet(T)
      PROVE  \E g : SumsOver(f, T, g) /\ Total(f, T) = g[T]
  <2> DEFINE g == CHOOSE x : SumsOver(f, T, x)
  <2>1. SumsOver(f, T, g)
    BY <1>1, SumsExist
  <2>2. Total(f, T) = g[T]
    BY TotalIsChosen
  <2>3. QED BY <2>1, <2>2
<1>2. Total(f, {}) = 0
  <2>1. PICK g : SumsOver(f, {}, g) /\ Total(f, {}) = g[{}]
    BY <1>1, FS_EmptySet
  <2>2. QED BY <2>1 DEF SumsOver
<1>3. ASSUME S # {} PROVE Total(f, S) = f[First(S)] + Total(f, S \ {First(S)})
  <2> DEFINE T == S \ {First(S)}
  <2>1. IsFiniteSet(T) /\ T \in SUBSET S
    BY FS_Subset
  <2>2. PICK g : SumsOver(f, S, g) /\ Total(f, S) = g[S]
    BY <1>1
  <2>3. PICK h : SumsOver(f, T, h) /\ Total(f, T) = h[T]
    BY <1>1, <2>1
  <2>4. g[T] = h[T]
    BY <2>1, <2>2, <2>3, SumsAgree
  <2>5. g[S] = f[First(S)] + g[T]
    BY <1>3, <2>2 DEF SumsOver
  <2>6. QED BY <2>2, <2>3, <2>4, <2>5
<1>4. QED BY <1>2, <1>3

\* The sum of integers is one, and any element can be taken out of it.
LEMMA TotalType ==
  ASSUME NEW f, NEW S, IsFiniteSet(S), \A x \in S : f[x] \in Int
  PROVE  Total(f, S) \in Int
<1> DEFINE F == {T \in SUBSET S : Total(f, T) \notin Int}
<1>1. SUFFICES ASSUME F # {} PROVE FALSE
  OBVIOUS
<1>2. \A U \in F : IsFiniteSet(U)
  BY FS_Subset
<1>3. PICK U \in F : \A V \in F : ~(Cardinality(V) < Cardinality(U))
  BY <1>1, <1>2, SmallestSet
<1>4. U # {}
  BY <1>2, TotalIs
<1>5. First(U) \in U
  BY <1>4, FirstIsIn
<1>6. Total(f, U) = f[First(U)] + Total(f, U \ {First(U)})
  BY <1>2, <1>4, TotalIs
<1>7. U \ {First(U)} \notin F
  BY <1>2, <1>3, <1>5, SmallerSet
<1>8. QED BY <1>5, <1>6, <1>7

LEMMA TotalLess ==
  ASSUME NEW f, NEW S, IsFiniteSet(S), \A x \in S : f[x] \in Int, NEW x \in S
  PROVE  Total(f, S) = f[x] + Total(f, S \ {x})
<1> DEFINE F == {T \in SUBSET S : \E y \in T : Total(f, T) # f[y] + Total(f, T \ {y})}
<1>1. SUFFICES ASSUME F # {} PROVE FALSE
  OBVIOUS
<1>2. \A U \in SUBSET S : IsFiniteSet(U) /\ Total(f, U) \in Int
  BY FS_Subset, TotalType
<1>3. PICK U \in F : \A V \in F : ~(Cardinality(V) < Cardinality(U))
  BY <1>1, <1>2, SmallestSet
<1>4. PICK y \in U : Total(f, U) # f[y] + Total(f, U \ {y})
  OBVIOUS
<1> DEFINE c == First(U)
<1>5. c \in U /\ IsFiniteSet(U) /\ U \in SUBSET S
  BY <1>2, <1>4, FirstIsIn
<1>6. Total(f, U) = f[c] + Total(f, U \ {c})
  BY <1>5, TotalIs
<1>7. c # y
  BY <1>4, <1>6
<1> HIDE DEF c
<1>8. Total(f, U \ {c}) = f[y] + Total(f, (U \ {c}) \ {y})
  <2>1. U \ {c} \notin F
    BY <1>3, <1>5, SmallerSet
  <2>2. QED BY <1>5, <1>7, <2>1
<1>9. Total(f, U \ {y}) = f[c] + Total(f, (U \ {y}) \ {c})
  <2>1. U \ {y} \notin F
    BY <1>3, <1>4, <1>5, SmallerSet
  <2>2. QED BY <1>5, <1>7, <2>1
<1>10. (U \ {y}) \ {c} = (U \ {c}) \ {y}
  OBVIOUS
<1> DEFINE rest == Total(f, (U \ {c}) \ {y})
<1>11. rest \in Int /\ f[c] \in Int /\ f[y] \in Int
  BY <1>2, <1>5
<1>12. /\ Total(f, U) = f[c] + (f[y] + rest)
       /\ f[y] + Total(f, U \ {y}) = f[y] + (f[c] + rest)
  BY <1>6, <1>8, <1>9, <1>10
<1> HIDE DEF rest
<1>13. QED BY <1>4, <1>11, <1>12

\* Of lengths that are not negative, more sum up to no less.
LEMMA TotalGrows ==
  ASSUME NEW f, NEW S, IsFiniteSet(S), \A x \in S : f[x] \in Nat, NEW T \in SUBSET S
  PROVE  /\ Total(f, T) \in Int /\ Total(f, S) \in Int
         /\ 0 <= Total(f, T) /\ Total(f, T) <= Total(f, S)
<1>1. \A U \in SUBSET S : IsFiniteSet(U) /\ Total(f, U) \in Int
  BY FS_Subset, TotalType
<1>2. ASSUME NEW V \in SUBSET S PROVE Total(f, V) <= Total(f, S)
  <2> DEFINE F == {U \in SUBSET S : V \subseteq U /\ ~(Total(f, V) <= Total(f, U))}
  <2>1. SUFFICES ASSUME F # {} PROVE FALSE
    OBVIOUS
  <2>2. PICK U \in F : \A W \in F : ~(Cardinality(W) < Cardinality(U))
    BY <1>1, <2>1, SmallestSet
  <2>3. U # V
    BY <1>1, <2>2
  <2>4. PICK x \in U : x \notin V
    BY <2>3
  <2>5. Total(f, U) = f[x] + Total(f, U \ {x})
    BY <1>1, TotalLess
  <2>6. U \ {x} \notin F
    BY <1>1, <2>2, SmallerSet
  <2>7. Total(f, V) <= Total(f, U \ {x})
    BY <2>4, <2>6
  <2>8. QED BY <1>1, <2>2, <2>5, <2>7
<1>3. Total(f, {}) = 0
  BY FS_EmptySet, TotalIs
<1>4. 0 <= Total(f, T)
  <2> DEFINE F == {U \in SUBSET S : ~(0 <= Total(f, U))}
  <2>1. SUFFICES ASSUME F # {} PROVE FALSE
    OBVIOUS
  <2>2. PICK U \in F : \A W \in F : ~(Cardinality(W) < Cardinality(U))
    BY <1>1, <2>1, SmallestSet
  <2>3. U # {}
    BY <1>3
  <2>4. PICK x \in U : TRUE
    BY <2>3
  <2>5. Total(f, U) = f[x] + Total(f, U \ {x})
    BY <1>1, TotalLess
  <2>6. U \ {x} \notin F
    BY <1>1, <2>2, SmallerSet
  <2>7. QED BY <1>1, <2>5, <2>6
<1>5. QED BY <1>1, <1>2, <1>4
-----------------------------------------------------------------------------
(* Slots lie inside the area, a gap apart.                                 *)

\* What Plan knows of the order of the tiles: of two, one is above the other.
Ordered(above) ==
  /\ IsFiniteSet(DOMAIN above)
  /\ \A w \in DOMAIN above : above[w] \subseteq DOMAIN above \ {w}
  /\ \A v, w \in DOMAIN above :
       v # w => \/ above[v] \cup {v} \subseteq above[w]
                \/ above[w] \cup {w} \subseteq above[v]

IsArea(area) ==
  area.loc[1] \in Int /\ area.loc[2] \in Int /\ area.size[1] \in Nat /\ area.size[2] \in Nat

SlotsFit(slots, area) ==
  \A w \in DOMAIN slots :
    /\ Inside(slots[w], area)
    /\ \A v \in DOMAIN slots \ {w} : Apart(slots[w], slots[v])

LEMMA RectIs ==
  ASSUME NEW x, NEW y, NEW w, NEW h
  PROVE  /\ Rect(x, y, w, h).loc[1] = x /\ Rect(x, y, w, h).loc[2] = y
         /\ Rect(x, y, w, h).size[1] = w /\ Rect(x, y, w, h).size[2] = h
BY DEF Rect

\* Of two numbers of windows above, the lower one is lower by one at least.
LEMMA NumberedAbove ==
  ASSUME NEW above, Ordered(above), NEW w \in DOMAIN above
  PROVE  /\ IsFiniteSet(above[w]) /\ IsFiniteSet(above[w] \cup {w})
         /\ Cardinality(above[w]) \in Nat /\ Cardinality(DOMAIN above) \in Nat
         /\ Cardinality(above[w]) < Cardinality(DOMAIN above)
         /\ \A v \in DOMAIN above : above[w] \cup {w} \subseteq above[v] =>
              Cardinality(above[w]) + 1 <= Cardinality(above[v])
<1>1. IsFiniteSet(above[w]) /\ w \notin above[w] /\ above[w] \cup {w} \subseteq DOMAIN above
  BY FS_Subset DEF Ordered
<1>2. /\ IsFiniteSet(above[w] \cup {w})
      /\ Cardinality(above[w] \cup {w}) = Cardinality(above[w]) + 1
  BY <1>1, FS_AddElement
<1>3. Cardinality(above[w]) \in Nat /\ Cardinality(DOMAIN above) \in Nat
  BY <1>1, FS_CardinalityType DEF Ordered
<1>4. Cardinality(above[w] \cup {w}) <= Cardinality(DOMAIN above)
  BY <1>1, FS_Subset DEF Ordered
<1>5. ASSUME NEW v \in DOMAIN above, above[w] \cup {w} \subseteq above[v]
      PROVE  Cardinality(above[w]) + 1 <= Cardinality(above[v])
  <2>1. IsFiniteSet(above[v])
    BY FS_Subset DEF Ordered
  <2>2. QED BY <1>2, <1>5, <2>1, FS_Subset
<1>6. QED BY <1>1, <1>2, <1>3, <1>4, <1>5

\* A number is so many rows and a place in the next one.
LEMMA Division ==
  ASSUME NEW a \in Nat, NEW b \in Nat, b > 0, NEW q, NEW r, q = a \div b, r = a % b
  PROVE  q \in Nat /\ r \in Nat /\ r < b /\ a = b * q + r
OBVIOUS

\* A share of a length, n times and with the gaps between, is no more than the length.
LEMMA ShareFits ==
  ASSUME NEW length \in Int, NEW n \in Nat \ {0}, Gap * (n - 1) <= length
  PROVE  /\ Share(length, n) \in Nat
         /\ Share(length, n) * n + Gap * (n - 1) <= length
<1> DEFINE rest == length - Gap * (n - 1)
<1>1. Gap \in Nat /\ Gap * (n - 1) \in Int
  BY TilingAssumption
<1>2. rest \in Nat
  BY <1>1
<1>3. Share(length, n) = AtLeast0(rest \div n)
  BY DEF Share
<1> HIDE DEF rest
<1>4. rest \div n \in Int /\ rest \div n >= 0 /\ (rest \div n) * n <= rest
  BY <1>2
<1>5. Share(length, n) = rest \div n
  BY <1>3, <1>4 DEF AtLeast0
<1>6. QED BY <1>1, <1>4, <1>5 DEF rest

\* Of two tiles in a row of equal ones, the one after ends before the other begins.
LEMMA Strides ==
  ASSUME NEW a \in Nat, NEW b \in Nat, NEW u \in Nat, a < b
  PROVE  a * u + u <= b * u
<1>1. PICK d \in Nat : b = a + 1 + d
  <2>1. b - a - 1 \in Nat /\ b = a + 1 + (b - a - 1)
    OBVIOUS
  <2>2. QED BY <2>1
<1>2. b * u = a * u + u + d * u
  BY <1>1
<1>3. d * u \in Nat /\ a * u \in Nat
  OBVIOUS
<1>4. QED BY <1>2, <1>3

\* So is the end of the last one the end of the row.
LEMMA RowOf ==
  ASSUME NEW i \in Nat, NEW n \in Nat, i < n, NEW s \in Nat, NEW length \in Int,
         s * n + Gap * (n - 1) <= length
  PROVE  /\ i * (s + Gap) \in Nat /\ i * (s + Gap) + s <= length
         /\ \A j \in Nat : i < j => i * (s + Gap) + s + Gap <= j * (s + Gap)
<1>1. Gap \in Nat
  BY TilingAssumption
<1>2. i * (s + Gap) \in Nat
  BY <1>1
<1>3. \A j \in Nat : i < j => i * (s + Gap) + (s + Gap) <= j * (s + Gap)
  BY <1>1, Strides
<1>4. i * (s + Gap) + (s + Gap) <= n * (s + Gap)
  BY <1>3
<1>5. n * (s + Gap) = s * n + Gap * (n - 1) + Gap
  BY <1>1
<1>6. s * n + Gap * (n - 1) \in Int /\ \A j \in Nat : j * (s + Gap) \in Nat
  BY <1>1
<1>7. QED BY <1>1, <1>2, <1>3, <1>4, <1>5, <1>6

\* The fixed widths, the shares of the rest and the gaps add up to the width.
LEMMA ColumnsFit ==
  ASSUME NEW area, IsArea(area), NEW above, Ordered(above), NEW override,
         \A w \in DOMAIN above : override[w] \in Nat,
         Total(override, DOMAIN above) + Gap * (Cardinality(DOMAIN above) - 1) <= area.size[1]
  PROVE  SlotsFit(ColumnsLayout(area, above, override), area)
<1> DEFINE tiles == DOMAIN above
           flexible == {w \in tiles : override[w] = 0}
           rest == area.size[1] - Total(override, tiles) - Gap * (Cardinality(tiles) - 1)
           flex == IF flexible = {} THEN 0 ELSE AtLeast0(rest \div Cardinality(flexible))
           col == [w \in tiles |-> IF override[w] = 0 THEN flex ELSE override[w]]
           left(w) == area.loc[1] + Total(col, above[w]) + Gap * Cardinality(above[w])
           slots == [w \in tiles |-> Rect(left(w), area.loc[2], col[w], area.size[2])]
<1>1. ColumnsLayout(area, above, override) = slots
  BY DEF ColumnsLayout
<1>2. /\ IsFiniteSet(tiles) /\ IsFiniteSet(flexible) /\ Gap \in Nat
      /\ Cardinality(tiles) \in Nat /\ Cardinality(flexible) \in Nat
      /\ \A T \in SUBSET tiles : IsFiniteSet(T) /\ Cardinality(T) \in Nat
  BY FS_Subset, FS_CardinalityType, TilingAssumption DEF Ordered
<1>3. Total(override, tiles) \in Int /\ rest \in Nat
  <2>1. Total(override, tiles) \in Int
    BY <1>2, TotalType
  <2>2. Gap * (Cardinality(tiles) - 1) \in Int
    BY <1>2
  <2>3. QED BY <2>1, <2>2 DEF IsArea
<1>4. flex \in Nat /\ flex * Cardinality(flexible) <= rest
  <2>1. CASE flexible = {}
    <3>1. flex = 0 /\ Cardinality(flexible) = 0
      BY <2>1, FS_EmptySet
    <3>2. QED BY <1>3, <3>1
  <2>2. CASE flexible # {}
    <3>1. Cardinality(flexible) > 0
      BY <1>2, <2>2, FS_EmptySet
    <3> DEFINE c == Cardinality(flexible)
    <3>2. c \in Nat \ {0} /\ flex = AtLeast0(rest \div c)
      BY <1>2, <2>2, <3>1
    <3> HIDE DEF c, rest, flex
    <3>3. rest \div c \in Int /\ rest \div c >= 0 /\ (rest \div c) * c <= rest
      BY <1>3, <3>2
    <3>4. flex = rest \div c
      BY <3>2, <3>3 DEF AtLeast0
    <3>5. QED BY <3>3, <3>4 DEF c
  <2>3. QED BY <2>1, <2>2
<1> HIDE DEF flex
<1>5. \A w \in tiles : col[w] \in Nat
  BY <1>4
<1>6. Total(col, tiles) = Total(override, tiles) + flex * Cardinality(flexible)
  <2> DEFINE F == {T \in SUBSET tiles :
                     Total(col, T) # Total(override, T) + flex * Cardinality(T \cap flexible)}
  <2>1. SUFFICES ASSUME F # {} PROVE FALSE
    <3>1. tiles \cap flexible = flexible
      OBVIOUS
    <3>2. QED BY <3>1
  <2>2. PICK T \in F : \A U \in F : ~(Cardinality(U) < Cardinality(T))
    BY <1>2, <2>1, SmallestSet
  <2>3. T # {}
    <3>1. Total(col, {}) = 0 /\ Total(override, {}) = 0 /\ Cardinality({}) = 0
      BY FS_EmptySet, TotalIs
    <3>2. {} \cap flexible = {} /\ flex * 0 = 0
      BY <1>4
    <3>3. Total(col, {}) = Total(override, {}) + flex * Cardinality({} \cap flexible)
      <4> HIDE DEF col, flexible
      <4>1. QED BY <3>1, <3>2
    <3>4. QED BY <2>2, <3>3
  <2>4. PICK x \in T : TRUE
    BY <2>3
  <2> DEFINE U == T \ {x}
             m == Cardinality(U \cap flexible)
  <2>5. Total(col, U) = Total(override, U) + flex * m
    <3>1. Cardinality(U) < Cardinality(T)
      BY <1>2, SmallerSet
    <3>2. QED BY <2>2, <3>1
  <2>6. Total(col, T) = col[x] + Total(col, U) /\ Total(override, T) = override[x] + Total(override, U)
    <3>1. (\A y \in T : col[y] \in Int) /\ (\A y \in T : override[y] \in Int) /\ IsFiniteSet(T)
      BY <1>2, <1>5
    <3> HIDE DEF col
    <3>2. Total(col, T) = col[x] + Total(col, U)
      BY <3>1, TotalLess
    <3>3. Total(override, T) = override[x] + Total(override, U)
      BY <3>1, TotalLess
    <3>4. QED BY <3>2, <3>3
  <2>7. Cardinality(T \cap flexible) = IF override[x] = 0 THEN m + 1 ELSE m
    <3>1. U \cap flexible = (T \cap flexible) \ {x} /\ IsFiniteSet(T \cap flexible)
      BY <1>2
    <3>2. CASE override[x] = 0
      <4>1. x \in T \cap flexible
        BY <3>2
      <4>2. Cardinality(T \cap flexible) = Cardinality((T \cap flexible) \ {x}) + 1
        BY <3>1, <4>1, SmallerSet
      <4>3. QED BY <3>1, <3>2, <4>2
    <3>3. CASE override[x] # 0
      <4>1. U \cap flexible = T \cap flexible
        BY <3>3
      <4>2. QED BY <3>3, <4>1
    <3>4. QED BY <3>2, <3>3
  <2>8. /\ Total(override, U) \in Int /\ Total(col, U) \in Int /\ m \in Nat
        /\ override[x] \in Nat /\ flex \in Nat /\ flex * m \in Nat
        /\ flex * (m + 1) = flex * m + flex
    <3>1. (\A y \in U : col[y] \in Int) /\ (\A y \in U : override[y] \in Int) /\ IsFiniteSet(U)
      BY <1>2, <1>5
    <3>2. Total(override, U) \in Int /\ Total(col, U) \in Int
      BY <3>1, TotalType
    <3>3. m \in Nat
      BY <1>2
    <3>4. override[x] \in Nat
      OBVIOUS
    <3> HIDE DEF m
    <3>5. QED BY <1>4, <3>2, <3>3, <3>4
  <2>9. col[x] = IF override[x] = 0 THEN flex ELSE override[x]
    OBVIOUS
  <2> HIDE DEF m, U
  <2>10. Total(col, T) = Total(override, T) + flex * Cardinality(T \cap flexible)
    <3>1. CASE override[x] = 0
      BY <2>5, <2>6, <2>7, <2>8, <2>9, <3>1
    <3>2. CASE override[x] # 0
      BY <2>5, <2>6, <2>7, <2>8, <2>9, <3>2
    <3>3. QED BY <3>1, <3>2
  <2>11. QED BY <2>2, <2>10
<1>7. /\ Total(col, tiles) \in Nat
      /\ Total(col, tiles) + Gap * (Cardinality(tiles) - 1) <= area.size[1]
  <2>1. Total(col, tiles) \in Nat
    <3> HIDE DEF col
    <3>1. QED BY <1>2, <1>5, TotalGrows
  <2>2. /\ Gap * (Cardinality(tiles) - 1) \in Int /\ flex * Cardinality(flexible) \in Int
        /\ area.size[1] \in Int
    BY <1>2, <1>4 DEF IsArea
  <2>3. QED BY <1>3, <1>4, <1>6, <2>1, <2>2
<1> HIDE DEF col
<1>8. ASSUME NEW w \in tiles
      PROVE  /\ above[w] \in SUBSET tiles /\ above[w] \cup {w} \in SUBSET tiles
             /\ Total(col, above[w]) \in Nat /\ Total(col, above[w] \cup {w}) \in Nat
             /\ Total(col, above[w] \cup {w}) = Total(col, above[w]) + col[w]
             /\ col[w] \in Nat /\ Cardinality(above[w]) \in Nat
             /\ Gap * Cardinality(above[w]) \in Nat /\ left(w) \in Int
  <2>1. above[w] \in SUBSET tiles /\ above[w] \cup {w} \in SUBSET tiles /\ w \notin above[w]
    BY DEF Ordered
  <2>2. Total(col, above[w]) \in Nat /\ Total(col, above[w] \cup {w}) \in Nat
    BY <1>2, <1>5, <2>1, TotalGrows
  <2>3. Total(col, above[w] \cup {w}) = col[w] + Total(col, above[w])
    <3>1. (above[w] \cup {w}) \ {w} = above[w]
      BY <2>1
    <3>2. \A x \in above[w] \cup {w} : col[x] \in Int
      BY <1>5, <2>1
    <3>3. IsFiniteSet(above[w] \cup {w}) /\ w \in above[w] \cup {w}
      BY <1>2, <2>1
    <3>4. QED BY <3>1, <3>2, <3>3, TotalLess
  <2>4. col[w] \in Nat /\ Cardinality(above[w]) \in Nat /\ Gap * Cardinality(above[w]) \in Nat
    BY <1>2, <1>5, <2>1
  <2>5. QED BY <2>1, <2>2, <2>3, <2>4 DEF IsArea
<1>9. ASSUME NEW w \in tiles
      PROVE  /\ left(w) >= area.loc[1]
             /\ left(w) + col[w] <= area.loc[1] + area.size[1]
  <2>1. Total(col, above[w] \cup {w}) <= Total(col, tiles)
    BY <1>2, <1>5, <1>8, TotalGrows
  <2>2. Gap * Cardinality(above[w]) <= Gap * (Cardinality(tiles) - 1)
    <3> DEFINE k == Cardinality(above[w])
               n == Cardinality(tiles)
    <3>1. k \in Nat /\ n \in Nat /\ k < n
      <4>1. /\ Cardinality(above[w]) \in Nat /\ Cardinality(DOMAIN above) \in Nat
            /\ Cardinality(above[w]) < Cardinality(DOMAIN above)
        BY NumberedAbove, Zenon
      <4>2. QED BY <4>1
    <3> HIDE DEF k, n
    <3>2. PICK d \in Nat : n - 1 = k + d
      <4>1. n - 1 - k \in Nat /\ n - 1 = k + (n - 1 - k)
        BY <3>1
      <4>2. QED BY <4>1
    <3>3. Gap * (n - 1) = Gap * k + Gap * d /\ Gap * d \in Nat /\ Gap * k \in Nat
      BY <1>2, <3>1, <3>2
    <3>4. QED BY <3>3 DEF k, n
  <2>3. Gap * (Cardinality(tiles) - 1) \in Int
    BY <1>2
  <2>4. QED BY <1>7, <1>8, <2>1, <2>2, <2>3 DEF IsArea
<1>10. ASSUME NEW v \in tiles, NEW w \in tiles, above[w] \cup {w} \subseteq above[v]
       PROVE  left(w) + col[w] + Gap <= left(v)
  <2>1. Total(col, above[w] \cup {w}) <= Total(col, above[v])
    <3>1. IsFiniteSet(above[v]) /\ \A x \in above[v] : col[x] \in Nat
      BY <1>2, <1>5, <1>8
    <3>2. QED BY <1>10, <3>1, TotalGrows
  <2>2. Gap * Cardinality(above[w]) + Gap <= Gap * Cardinality(above[v])
    <3> DEFINE k == Cardinality(above[w])
               m == Cardinality(above[v])
    <3>1. k \in Nat /\ m \in Nat
      BY <1>8
    <3>2. k + 1 <= m
      BY <1>10, NumberedAbove, Zenon
    <3> HIDE DEF k, m
    <3>3. k * Gap + Gap <= m * Gap
      BY <1>2, <3>1, <3>2, Strides
    <3>4. k * Gap = Gap * k /\ m * Gap = Gap * m
      BY <1>2, <3>1
    <3>5. QED BY <3>3, <3>4 DEF k, m
  <2> DEFINE sw == Total(col, above[w])
             sv == Total(col, above[v])
             gw == Gap * Cardinality(above[w])
             gv == Gap * Cardinality(above[v])
             cw == col[w]
  <2>3. /\ sw \in Nat /\ sv \in Nat /\ gw \in Nat /\ gv \in Nat /\ cw \in Nat
        /\ sw + cw <= sv /\ gw + Gap <= gv
    <3>1. /\ sw \in Nat /\ gw \in Nat /\ cw \in Nat /\ Total(col, above[w] \cup {w}) = sw + cw
      BY <1>8
    <3>2. sv \in Nat /\ gv \in Nat
      BY <1>8
    <3>3. QED BY <2>1, <2>2, <3>1, <3>2
  <2>4. left(w) = area.loc[1] + sw + gw /\ left(v) = area.loc[1] + sv + gv
    OBVIOUS
  <2> HIDE DEF sw, sv, gw, gv, cw, left
  <2>5. left(w) + cw + Gap <= left(v)
    BY <1>2, <2>3, <2>4 DEF IsArea
  <2>6. QED BY <2>5 DEF cw
<1> HIDE DEF left
<1>11. ASSUME NEW w \in tiles
       PROVE  /\ slots[w].loc[1] = left(w) /\ slots[w].loc[2] = area.loc[2]
              /\ slots[w].size[1] = col[w] /\ slots[w].size[2] = area.size[2]
  BY RectIs
<1> HIDE DEF slots
<1>12. ASSUME NEW w \in tiles PROVE Inside(slots[w], area)
  BY <1>8, <1>9, <1>11 DEF Inside, Right, Bottom, IsArea
<1>13. ASSUME NEW w \in tiles, NEW v \in tiles \ {w} PROVE Apart(slots[w], slots[v])
  <2>1. above[v] \cup {v} \subseteq above[w] \/ above[w] \cup {w} \subseteq above[v]
    BY DEF Ordered
  <2>2. left(v) + col[v] + Gap <= left(w) \/ left(w) + col[w] + Gap <= left(v)
    BY <1>10, <2>1
  <2>3. QED BY <1>11, <2>2 DEF Apart, Right
<1>14. DOMAIN slots = tiles
  BY DEF slots
<1>15. QED BY <1>1, <1>12, <1>13, <1>14 DEF SlotsFit

\* A grid has a column at least, and no more than it has tiles; and a row.
LEMMA GridIs ==
  ASSUME NEW n \in Nat, n > 0
  PROVE  GridColumns(n) \in 1..n /\ GridRows(n) \in Nat \ {0}
<1> DEFINE K == {k \in 1..n : k * k >= n}
           cols == GridColumns(n)
           rows == GridRows(n)
<1>1. n \in K
  <2>1. n * n >= n
    <3>1. n - 1 \in Nat /\ n * n = n + n * (n - 1) /\ n * (n - 1) \in Nat
      OBVIOUS
    <3>2. QED BY <3>1
  <2>2. QED BY <2>1
<1>2. \E k \in K : \A m \in K : k <= m
  <2>1. K \in SUBSET Nat
    OBVIOUS
  <2> HIDE DEF K
  <2>2. PICK k \in K : \A m \in K : ~ (<<m, k>> \in OpToRel(<, Nat))
    BY <1>1, <2>1, NatLessThanWellFounded, WFMin
  <2>3. \A m \in K : ~(m < k)
    BY <2>1, <2>2 DEF OpToRel
  <2>4. \A m \in K : m \in Nat /\ k \in Nat
    BY <2>1
  <2>5. QED BY <2>3, <2>4
<1>3. cols = CHOOSE k \in K : \A m \in K : k <= m
  BY DEF GridColumns, Min
<1> HIDE DEF cols
<1>4. cols \in K
  BY <1>2, <1>3
<1>5. cols \in 1..n
  BY <1>4
<1>6. rows = (n + cols - 1) \div cols
  BY DEF GridRows, cols
<1> DEFINE a == n + cols - 1
           r == a % cols
<1>7. a \in Nat /\ rows = a \div cols /\ cols \in Nat /\ cols > 0 /\ a >= cols
  BY <1>5, <1>6
<1> HIDE DEF a, rows
<1>8. rows \in Nat /\ r \in Nat /\ r < cols /\ a = cols * rows + r
  BY <1>7, Division
<1>9. rows # 0
  <2>1. cols * 0 = 0
    BY <1>7
  <2> HIDE DEF r
  <2>2. QED BY <1>7, <1>8, <2>1
<1>10. QED BY <1>5, <1>8, <1>9 DEF cols, rows

\* Two tiles of a grid are in different columns or in different rows.
LEMMA GridFit ==
  ASSUME NEW area, IsArea(area), NEW above, Ordered(above),
         LET n == Cardinality(DOMAIN above)
         IN  n > 0 => /\ Gap * (GridColumns(n) - 1) <= area.size[1]
                      /\ Gap * (GridRows(n) - 1) <= area.size[2]
  PROVE  SlotsFit(GridLayout(area, above), area)
<1> DEFINE n == Cardinality(DOMAIN above)
           cols == GridColumns(n)
           rows == GridRows(n)
           w == Share(area.size[1], cols)
           h == Share(area.size[2], rows)
           cell(i) == Rect(area.loc[1] + (i % cols) * (w + Gap),
                           area.loc[2] + (i \div cols) * (h + Gap), w, h)
           slots == [v \in DOMAIN above |-> cell(Cardinality(above[v]))]
<1>1. GridLayout(area, above) = slots
  BY DEF GridLayout
<1>2. SUFFICES ASSUME NEW v \in DOMAIN above
               PROVE  /\ Inside(slots[v], area)
                      /\ \A u \in DOMAIN above \ {v} : Apart(slots[v], slots[u])
  BY <1>1 DEF SlotsFit
<1>3. n \in Nat /\ n > 0
  <2>1. /\ Cardinality(above[v]) \in Nat /\ Cardinality(DOMAIN above) \in Nat
        /\ Cardinality(above[v]) < Cardinality(DOMAIN above)
    BY NumberedAbove, Zenon
  <2>2. QED BY <2>1
<1> DEFINE number(u) == Cardinality(above[u])
<1>4. ASSUME NEW u \in DOMAIN above
      PROVE  number(u) \in Nat /\ number(u) < n
  <2>1. /\ Cardinality(above[u]) \in Nat
        /\ Cardinality(above[u]) < Cardinality(DOMAIN above)
    BY NumberedAbove, Zenon
  <2>2. QED BY <2>1
<1>5. ASSUME NEW u \in DOMAIN above, u # v
      PROVE  number(u) # number(v)
  <2>1. above[u] \cup {u} \subseteq above[v] \/ above[v] \cup {v} \subseteq above[u]
    BY <1>5 DEF Ordered
  <2>2. Cardinality(above[u]) + 1 <= Cardinality(above[v])
        \/ Cardinality(above[v]) + 1 <= Cardinality(above[u])
    BY <2>1, NumberedAbove, Zenon
  <2>3. QED BY <1>4, <2>2
<1>6. Gap * (cols - 1) <= area.size[1] /\ Gap * (rows - 1) <= area.size[2]
  BY <1>3
<1> HIDE DEF n, number
<1>7. cols \in 1..n /\ rows \in Nat \ {0}
  BY <1>3, GridIs
<1>8. rows = (n + cols - 1) \div cols
  BY DEF GridRows
<1> HIDE DEF cols, rows
<1>9. cols \in Nat \ {0} /\ n + cols - 1 \in Nat
  BY <1>3, <1>7
<1>10. rows \in Nat /\ cols * rows >= n
  <2> DEFINE a == n + cols - 1
             r == a % cols
  <2>1. a \in Nat /\ rows = a \div cols /\ n = a - cols + 1 /\ cols \in Nat /\ cols > 0
    BY <1>3, <1>8, <1>9
  <2> HIDE DEF a
  <2>2. rows \in Nat /\ a = cols * rows + r /\ r \in Nat /\ r < cols
    BY <2>1, Division
  <2> HIDE DEF r
  <2>3. cols * rows \in Nat
    BY <1>9, <2>2
  <2>4. QED BY <1>3, <1>9, <2>1, <2>2, <2>3
<1>11. rows \in Nat \ {0}
  BY <1>7
<1>12. ASSUME NEW i \in Nat, i < n
       PROVE  /\ i % cols \in Nat /\ i % cols < cols
              /\ i \div cols \in Nat /\ i \div cols < rows
              /\ i = cols * (i \div cols) + (i % cols)
  <2> DEFINE q == i \div cols
             r == i % cols
  <2>1. q \in Nat /\ r \in Nat /\ r < cols /\ i = cols * q + r
    <3>1. cols \in Nat /\ cols > 0
      BY <1>9
    <3>2. QED BY <3>1, Division
  <2> HIDE DEF q, r
  <2>2. q < rows
    <3>1. SUFFICES ASSUME rows <= q PROVE FALSE
      BY <1>10, <2>1
    <3>2. PICK d \in Nat : q = rows + d
      <4>1. q - rows \in Nat /\ q = rows + (q - rows)
        BY <1>10, <2>1, <3>1
      <4>2. QED BY <4>1
    <3>3. cols * q = cols * rows + cols * d /\ cols * d \in Nat /\ cols * rows \in Nat
      BY <1>9, <1>10, <3>2
    <3> DEFINE before == cols * rows
               at_q == cols * q
    <3>4. /\ before \in Nat /\ at_q \in Nat /\ at_q >= before /\ before >= n
          /\ i = at_q + r /\ r \in Nat /\ n \in Nat
      <4>1. cols * d \in Nat /\ before \in Nat /\ at_q = before + cols * d
        BY <3>3
      <4>2. at_q \in Nat /\ at_q >= before
        <5> HIDE DEF before, at_q
        <5>1. QED BY <4>1
      <4>3. QED BY <1>3, <1>10, <2>1, <4>1, <4>2
    <3> HIDE DEF before, at_q
    <3>5. i >= n
      BY <3>4
    <3>6. QED BY <1>3, <1>12, <3>5
  <2>3. QED BY <2>1, <2>2, Zenon DEF q, r
<1>13. /\ w \in Nat /\ w * cols + Gap * (cols - 1) <= area.size[1]
       /\ h \in Nat /\ h * rows + Gap * (rows - 1) <= area.size[2]
  BY <1>6, <1>9, <1>11, ShareFits DEF IsArea
<1> HIDE DEF w, h
<1> DEFINE x(u) == area.loc[1] + (number(u) % cols) * (w + Gap)
           y(u) == area.loc[2] + (number(u) \div cols) * (h + Gap)
<1>14. ASSUME NEW u \in DOMAIN above
       PROVE  /\ slots[u].loc[1] = x(u) /\ slots[u].loc[2] = y(u)
              /\ slots[u].size[1] = w /\ slots[u].size[2] = h
  <2>1. slots[u] = Rect(x(u), y(u), w, h)
    BY DEF number
  <2> HIDE DEF x, y
  <2>2. QED BY <2>1, RectIs
<1> HIDE DEF slots
<1>15. ASSUME NEW u \in DOMAIN above
       PROVE  /\ x(u) \in Int /\ x(u) >= area.loc[1] /\ x(u) + w <= area.loc[1] + area.size[1]
              /\ y(u) \in Int /\ y(u) >= area.loc[2] /\ y(u) + h <= area.loc[2] + area.size[2]
  <2> DEFINE c == number(u) % cols
             r == number(u) \div cols
  <2>1. c \in Nat /\ c < cols /\ r \in Nat /\ r < rows
    BY <1>4, <1>12
  <2> HIDE DEF c, r
  <2>2. c * (w + Gap) \in Nat /\ c * (w + Gap) + w <= area.size[1]
    BY <1>9, <1>13, <2>1, RowOf DEF IsArea
  <2>3. r * (h + Gap) \in Nat /\ r * (h + Gap) + h <= area.size[2]
    BY <1>11, <1>13, <2>1, RowOf DEF IsArea
  <2>4. x(u) = area.loc[1] + c * (w + Gap) /\ y(u) = area.loc[2] + r * (h + Gap)
    BY DEF c, r
  <2> HIDE DEF x, y
  <2>5. QED BY <1>13, <2>2, <2>3, <2>4 DEF IsArea
<1>16. Inside(slots[v], area)
  <2> HIDE DEF x, y
  <2>1. QED BY <1>14, <1>15 DEF Inside, Right, Bottom
<1>17. ASSUME NEW a \in DOMAIN above, NEW b \in DOMAIN above
       PROVE  /\ number(a) % cols < number(b) % cols => x(a) + w + Gap <= x(b)
              /\ number(a) \div cols < number(b) \div cols => y(a) + h + Gap <= y(b)
  <2> DEFINE ca == number(a) % cols
             ra == number(a) \div cols
             cb == number(b) % cols
             rb == number(b) \div cols
  <2>1. /\ ca \in Nat /\ cb \in Nat /\ ca < cols
        /\ ra \in Nat /\ rb \in Nat /\ ra < rows
    BY <1>4, <1>12
  <2>2. /\ x(a) = area.loc[1] + ca * (w + Gap) /\ x(b) = area.loc[1] + cb * (w + Gap)
        /\ y(a) = area.loc[2] + ra * (h + Gap) /\ y(b) = area.loc[2] + rb * (h + Gap)
    OBVIOUS
  <2> HIDE DEF ca, ra, cb, rb, x, y
  <2>3. ASSUME ca < cb PROVE x(a) + w + Gap <= x(b)
    <3>1. ca * (w + Gap) + w + Gap <= cb * (w + Gap)
      BY <1>9, <1>13, <2>1, <2>3, RowOf DEF IsArea
    <3>2. ca * (w + Gap) \in Int /\ cb * (w + Gap) \in Int /\ Gap \in Int
      BY <1>13, <2>1, TilingAssumption
    <3>3. QED BY <1>13, <2>2, <3>1, <3>2 DEF IsArea
  <2>4. ASSUME ra < rb PROVE y(a) + h + Gap <= y(b)
    <3>1. ra * (h + Gap) + h + Gap <= rb * (h + Gap)
      BY <1>11, <1>13, <2>1, <2>4, RowOf DEF IsArea
    <3>2. ra * (h + Gap) \in Int /\ rb * (h + Gap) \in Int /\ Gap \in Int
      BY <1>13, <2>1, TilingAssumption
    <3>3. QED BY <1>13, <2>2, <3>1, <3>2 DEF IsArea
  <2>5. QED BY <2>3, <2>4 DEF ca, cb, ra, rb
<1>18. ASSUME NEW u \in DOMAIN above \ {v} PROVE Apart(slots[v], slots[u])
  <2> DEFINE cu == number(u) % cols
             ru == number(u) \div cols
             cv == number(v) % cols
             rv == number(v) \div cols
  <2>1. /\ cu \in Nat /\ cv \in Nat /\ ru \in Nat /\ rv \in Nat
        /\ number(u) = cols * ru + cu /\ number(v) = cols * rv + cv
    <3>1. u \in DOMAIN above /\ number(u) \in Nat /\ number(u) < n
      BY <1>4
    <3>2. number(v) \in Nat /\ number(v) < n
      BY <1>4
    <3> HIDE DEF number
    <3>3. cu \in Nat /\ ru \in Nat /\ number(u) = cols * ru + cu
      BY <1>12, <3>1, Zenon
    <3>4. cv \in Nat /\ rv \in Nat /\ number(v) = cols * rv + cv
      BY <1>12, <3>2, Zenon
    <3>5. QED BY <3>3, <3>4
  <2>2. number(u) # number(v)
    BY <1>5
  <2> HIDE DEF x, y
  <2>3. /\ cu < cv => x(u) + w + Gap <= x(v)
        /\ cv < cu => x(v) + w + Gap <= x(u)
        /\ ru < rv => y(u) + h + Gap <= y(v)
        /\ rv < ru => y(v) + h + Gap <= y(u)
    BY <1>17
  <2> HIDE DEF cu, ru, cv, rv
  <2>4. cu # cv \/ ru # rv
    BY <2>1, <2>2
  <2>5. cu < cv \/ cv < cu \/ ru < rv \/ rv < ru
    BY <2>1, <2>4
  <2>6. QED BY <1>14, <2>3, <2>5 DEF Apart, Right, Bottom
<1>19. QED BY <1>16, <1>18

\* The master is left of the others, which are one under the other.
LEMMA MasterStackFit ==
  ASSUME NEW area, IsArea(area), NEW above, Ordered(above),
         LET n == Cardinality(DOMAIN above)
         IN  n > 1 => /\ area.size[1] \div 2 + Gap <= area.size[1]
                      /\ Gap * (n - 2) <= area.size[2]
  PROVE  SlotsFit(MasterStackLayout(area, above), area)
<1> DEFINE n == Cardinality(DOMAIN above)
           master == area.size[1] \div 2
           h == Share(area.size[2], n - 1)
           rest == AtLeast0(area.size[1] - master - Gap)
           row(i) == Rect(area.loc[1] + master + Gap, area.loc[2] + (i - 1) * (h + Gap), rest, h)
           slots == [w \in DOMAIN above |->
                       IF above[w] = {} THEN Rect(area.loc[1], area.loc[2], master, area.size[2])
                       ELSE row(Cardinality(above[w]))]
<1>1. MasterStackLayout(area, above) = slots
  BY DEF MasterStackLayout
<1>2. master \in Nat /\ master <= area.size[1] /\ Gap \in Nat
  BY TilingAssumption DEF IsArea
<1> DEFINE number(u) == Cardinality(above[u])
<1>3. ASSUME NEW u \in DOMAIN above
      PROVE  /\ number(u) \in Nat /\ n \in Nat /\ number(u) < n
             /\ above[u] # {} => number(u) > 0
  <2>1. /\ Cardinality(above[u]) \in Nat /\ Cardinality(DOMAIN above) \in Nat
        /\ Cardinality(above[u]) < Cardinality(DOMAIN above) /\ IsFiniteSet(above[u])
    BY NumberedAbove, Zenon
  <2>2. above[u] # {} => Cardinality(above[u]) # 0
    BY <2>1, FS_EmptySet
  <2>3. QED BY <2>1, <2>2
<1>4. ASSUME n > 1
      PROVE  master + Gap <= area.size[1] /\ Gap * (n - 2) <= area.size[2]
  BY <1>4
<1>5. ASSUME NEW u \in DOMAIN above, NEW v \in DOMAIN above, u # v
      PROVE  /\ number(u) # number(v)
             /\ above[u] # {} \/ above[v] # {}
  <2>1. above[u] \cup {u} \subseteq above[v] \/ above[v] \cup {v} \subseteq above[u]
    BY <1>5 DEF Ordered
  <2>2. Cardinality(above[u]) + 1 <= Cardinality(above[v])
        \/ Cardinality(above[v]) + 1 <= Cardinality(above[u])
    BY <2>1, NumberedAbove, Zenon
  <2>3. number(u) # number(v)
    BY <1>3, <2>2
  <2>4. QED BY <2>1, <2>3
<1> HIDE DEF n, number, master
<1>6. ASSUME NEW u \in DOMAIN above, above[u] # {}
      PROVE  /\ n > 1 /\ h \in Nat /\ rest = area.size[1] - master - Gap /\ rest \in Nat
             /\ h * (n - 1) + Gap * (n - 2) <= area.size[2]
             /\ number(u) - 1 \in Nat /\ number(u) - 1 < n - 1
  <2>1. n \in Nat /\ number(u) \in Nat /\ number(u) > 0 /\ number(u) < n
    BY <1>3, <1>6
  <2>2. n > 1 /\ n - 1 \in Nat \ {0} /\ (n - 1) - 1 = n - 2
    BY <2>1
  <2>3. master + Gap <= area.size[1] /\ Gap * (n - 2) <= area.size[2]
    BY <1>4, <2>2
  <2>4. rest = area.size[1] - master - Gap /\ rest \in Nat
    BY <1>2, <2>3 DEF AtLeast0, IsArea
  <2>5. h \in Nat /\ h * (n - 1) + Gap * (n - 2) <= area.size[2]
    <3> DEFINE m == n - 1
    <3>1. m \in Nat \ {0} /\ m - 1 = n - 2 /\ h = Share(area.size[2], m)
      BY <2>2
    <3> HIDE DEF m, h
    <3>2. Gap * (m - 1) <= area.size[2] /\ area.size[2] \in Int
      BY <2>3, <3>1 DEF IsArea
    <3>3. h \in Nat /\ h * m + Gap * (m - 1) <= area.size[2]
      BY <3>1, <3>2, ShareFits
    <3>4. QED BY <3>1, <3>3 DEF m
  <2>6. QED BY <2>1, <2>2, <2>4, <2>5
<1> HIDE DEF h, rest
<1> DEFINE top(u) == area.loc[2] + (number(u) - 1) * (h + Gap)
<1>7. ASSUME NEW u \in DOMAIN above, above[u] = {}
      PROVE  /\ slots[u].loc[1] = area.loc[1] /\ slots[u].loc[2] = area.loc[2]
             /\ slots[u].size[1] = master /\ slots[u].size[2] = area.size[2]
  <2>1. slots[u] = Rect(area.loc[1], area.loc[2], master, area.size[2])
    BY <1>7
  <2>2. QED BY <2>1, RectIs
<1>8. ASSUME NEW u \in DOMAIN above, above[u] # {}
      PROVE  /\ slots[u].loc[1] = area.loc[1] + master + Gap /\ slots[u].loc[2] = top(u)
             /\ slots[u].size[1] = rest /\ slots[u].size[2] = h
  <2>1. slots[u] = Rect(area.loc[1] + master + Gap, top(u), rest, h)
    BY <1>8 DEF number
  <2> HIDE DEF top
  <2>2. QED BY <2>1, RectIs
<1> HIDE DEF slots
<1>9. ASSUME NEW u \in DOMAIN above, above[u] # {}
      PROVE  /\ top(u) \in Int /\ top(u) >= area.loc[2] /\ top(u) + h <= area.loc[2] + area.size[2]
  <2> DEFINE i == number(u) - 1
  <2>1. /\ i \in Nat /\ i < n - 1 /\ h \in Nat /\ n - 1 \in Nat /\ (n - 1) - 1 = n - 2
        /\ h * (n - 1) + Gap * (n - 2) <= area.size[2]
    BY <1>3, <1>6, <1>9
  <2> HIDE DEF i
  <2>2. i * (h + Gap) \in Nat /\ i * (h + Gap) + h <= area.size[2]
    BY <2>1, RowOf DEF IsArea
  <2>3. top(u) = area.loc[2] + i * (h + Gap)
    BY DEF i
  <2> HIDE DEF top
  <2>4. QED BY <2>1, <2>2, <2>3 DEF IsArea
<1>10. ASSUME NEW u \in DOMAIN above, above[u] # {}, NEW v \in DOMAIN above, above[v] # {},
              number(u) < number(v)
       PROVE  top(u) + h + Gap <= top(v)
  <2> DEFINE i == number(u) - 1
             j == number(v) - 1
  <2>1. i \in Nat /\ j \in Nat /\ i < j /\ h \in Nat
    BY <1>3, <1>6, <1>10
  <2> HIDE DEF i, j
  <2>2. i * (h + Gap) + (h + Gap) <= j * (h + Gap)
    BY <1>2, <2>1, Strides
  <2>3. top(u) = area.loc[2] + i * (h + Gap) /\ top(v) = area.loc[2] + j * (h + Gap)
    BY DEF i, j
  <2>4. i * (h + Gap) \in Int /\ j * (h + Gap) \in Int
    BY <1>2, <2>1
  <2> HIDE DEF top
  <2>5. QED BY <1>2, <2>1, <2>2, <2>3, <2>4 DEF IsArea
<1> HIDE DEF top
<1>11. ASSUME NEW u \in DOMAIN above PROVE Inside(slots[u], area)
  <2>1. CASE above[u] = {}
    BY <1>2, <1>7, <2>1 DEF Inside, Right, Bottom, IsArea
  <2>2. CASE above[u] # {}
    BY <1>2, <1>6, <1>8, <1>9, <2>2 DEF Inside, Right, Bottom, IsArea
  <2>3. QED BY <2>1, <2>2
<1>12. ASSUME NEW u \in DOMAIN above, NEW v \in DOMAIN above \ {u}
       PROVE  Apart(slots[u], slots[v])
  <2>1. CASE above[u] = {} /\ above[v] # {}
    BY <1>2, <1>7, <1>8, <2>1 DEF Apart, Right, IsArea
  <2>2. CASE above[u] # {} /\ above[v] = {}
    BY <1>2, <1>7, <1>8, <2>2 DEF Apart, Right, IsArea
  <2>3. CASE above[u] # {} /\ above[v] # {}
    <3>1. number(u) < number(v) \/ number(v) < number(u)
      BY <1>3, <1>5
    <3>2. top(u) + h + Gap <= top(v) \/ top(v) + h + Gap <= top(u)
      BY <1>10, <2>3, <3>1
    <3>3. QED BY <1>8, <2>3, <3>2 DEF Apart, Bottom
  <2>4. QED BY <1>5, <2>1, <2>2, <2>3
<1>13. DOMAIN slots = DOMAIN above
  BY DEF slots
<1>14. QED BY <1>1, <1>11, <1>12, <1>13 DEF SlotsFit

\* A window that is above another has those above it above the other as well.
LEMMA AboveOrder ==
  ASSUME NEW q, StackOK(q), NEW S \in SUBSET Members(q)
  PROVE  Ordered([w \in S |-> Above(q, S, w)])
<1>1. Len(q) \in Nat /\ DOMAIN q = 1..Len(q) /\ S \in SUBSET Window
  BY LenProperties, ElementOfSeq DEF StackOK, Members
<1>2. IsFiniteSet(S)
  BY <1>1, FS_Subset, TilingAssumption
<1>3. ASSUME NEW w \in S PROVE Above(q, S, w) \subseteq S \ {w}
  <2>1. SUFFICES ASSUME NEW k \in DOMAIN q, NEW n \in 1..(k - 1), q[n] = w, q[k] = w
                 PROVE  FALSE
    BY DEF Above
  <2>2. n \in 1..Len(q) /\ n # k
    BY <1>1, <2>1
  <2>3. QED BY <1>1, <2>1, <2>2 DEF StackOK, IsInjective
<1>4. ASSUME NEW i \in 1..Len(q), NEW j \in 1..Len(q), i < j, q[i] \in S, q[j] \in S
      PROVE  Above(q, S, q[j]) \cup {q[j]} \subseteq Above(q, S, q[i])
  <2>1. Above(q, S, q[j]) \subseteq Above(q, S, q[i])
    <3>1. SUFFICES ASSUME NEW k \in DOMAIN q, q[k] \in S, NEW n \in 1..(k - 1), q[n] = q[j]
                   PROVE  q[k] \in Above(q, S, q[i])
      BY DEF Above
    <3>2. n \in 1..Len(q)
      BY <1>1, <3>1
    <3>3. n = j
      BY <1>1, <3>1, <3>2 DEF StackOK, IsInjective
    <3>4. i \in 1..(k - 1)
      BY <1>1, <1>4, <3>1, <3>3
    <3>5. QED BY <3>1, <3>4 DEF Above
  <2>2. q[j] \in Above(q, S, q[i])
    <3>1. i \in 1..(j - 1)
      BY <1>1, <1>4
    <3>2. QED BY <1>1, <1>4, <3>1 DEF Above
  <2>3. QED BY <2>1, <2>2
<1> DEFINE above == [w \in S |-> Above(q, S, w)]
<1>5. DOMAIN above = S /\ \A w \in S : above[w] = Above(q, S, w)
  OBVIOUS
<1> HIDE DEF above
<1>6. ASSUME NEW v \in S, NEW w \in S, v # w
      PROVE  above[v] \cup {v} \subseteq above[w] \/ above[w] \cup {w} \subseteq above[v]
  <2>1. PICK i \in 1..Len(q), j \in 1..Len(q) : q[i] = v /\ q[j] = w
    BY DEF Members
  <2>2. i < j \/ j < i
    BY <1>1, <1>6, <2>1
  <2>3. CASE i < j
    <3>1. Above(q, S, w) \cup {w} \subseteq Above(q, S, v)
      BY <1>4, <2>1, <2>3
    <3>2. QED BY <1>5, <3>1
  <2>4. CASE j < i
    <3>1. Above(q, S, v) \cup {v} \subseteq Above(q, S, w)
      BY <1>4, <2>1, <2>4
    <3>2. QED BY <1>5, <3>1
  <2>5. QED BY <2>2, <2>3, <2>4
<1>7. Ordered(above)
  BY <1>2, <1>3, <1>5, <1>6 DEF Ordered
<1>8. QED BY <1>7 DEF above

\* Of some windows, one is the topmost.
LEMMA TopmostExists ==
  ASSUME NEW q, StackOK(q), NEW S \in SUBSET Members(q), S # {}
  PROVE  \E v \in S : Above(q, S, v) = {}
<1> DEFINE above == [w \in S |-> Above(q, S, w)]
           F == {above[w] : w \in S}
<1>1. Ordered(above)
  BY AboveOrder
<1>2. DOMAIN above = S /\ \A w \in S : above[w] = Above(q, S, w)
  OBVIOUS
<1> HIDE DEF above
<1>3. \A w \in S : IsFiniteSet(above[w]) /\ above[w] \subseteq S \ {w}
  BY <1>1, <1>2, NumberedAbove DEF Ordered
<1>4. F # {} /\ \A T \in F : IsFiniteSet(T)
  BY <1>3
<1>5. PICK v \in S : \A U \in F : ~(Cardinality(U) < Cardinality(above[v]))
  <2> HIDE DEF F
  <2>1. PICK T \in F : \A U \in F : ~(Cardinality(U) < Cardinality(T))
    BY <1>4, SmallestSet
  <2>2. QED BY <2>1 DEF F
<1>6. ASSUME NEW x \in above[v] PROVE FALSE
  <2>1. x \in S /\ x # v /\ x \notin above[x]
    BY <1>3
  <2>2. above[x] \cup {x} \subseteq above[v]
    BY <1>1, <1>2, <2>1 DEF Ordered
  <2>3. Cardinality(above[x]) + 1 <= Cardinality(above[v])
    BY <1>1, <1>2, <2>1, <2>2, NumberedAbove, Zenon
  <2>4. Cardinality(above[x]) \in Nat /\ Cardinality(above[v]) \in Nat
    BY <1>3, <2>1, FS_CardinalityType
  <2>5. above[x] \in F
    BY <2>1
  <2>6. QED BY <1>5, <2>3, <2>4, <2>5
<1>7. QED BY <1>2, <1>6

LEMMA WorkAreaIs ==
  ASSUME NEW b
  PROVE  IsArea(WorkArea(b)) /\ WorkArea(b).loc \in Int \X Int
<1> DEFINE reserved == IF b = "reserves" THEN Reserve ELSE 0
<1>1. WorkArea(b) = Rect(Margin, reserved + Margin, AtLeast0(Width - 2 * Margin),
                            AtLeast0(Height - reserved - 2 * Margin))
  BY DEF WorkArea
<1>2. reserved \in Int /\ Margin \in Int /\ Width \in Int /\ Height \in Int
  BY TilingAssumption
<1> HIDE DEF reserved
<1>3. /\ reserved + Margin \in Int /\ AtLeast0(Width - 2 * Margin) \in Nat
      /\ AtLeast0(Height - reserved - 2 * Margin) \in Nat
  BY <1>2 DEF AtLeast0
<1>4. IsArea(WorkArea(b))
  BY <1>1, <1>2, <1>3, RectIs DEF IsArea
<1>5. WorkArea(b).loc \in Int \X Int
  BY <1>1, <1>2, <1>3 DEF Rect
<1>6. QED BY <1>4, <1>5

-----------------------------------------------------------------------------
(* An arrangement.                                                         *)

\* No two windows have the same id, and the next one is new.
IdsOK(L, next) ==
  /\ next \in Nat
  /\ \A w \in Window :
       /\ L[w].id \in Nat /\ (L[w].id # 0 => L[w].id < next)
       /\ \A v \in Window \ {w} : L[w].id # 0 => L[w].id # L[v].id

\* A window that has a target is there, or on its way, or was moved.
BoundFor(L, from, moved, S) ==
  \A w \in S : L[w].target # NoTarget => from[w] = L[w].target.loc \/ L[w].moving \/ w \in moved

\* Ids are given to the windows that need one, a new one to each.
LEMMA NewIds ==
  ASSUME NEW q, StackOK(q), NEW L, NEW M, IdsOK(L, nextId), NEW S \in SUBSET Members(q),
         \A w \in Window : M[w].id = IF w \in S THEN NewId(q, S, w) ELSE L[w].id,
         \A w \in S : L[w].id = 0
  PROVE  IdsOK(M, nextId + Cardinality(S))
<1>1. S \subseteq Window
  BY ElementOfSeq DEF StackOK, Members
<1>2. IsFiniteSet(S)
  BY <1>1, FS_Subset, TilingAssumption
<1>3. Cardinality(S) \in Nat /\ nextId \in Nat
  BY <1>2, FS_CardinalityType DEF IdsOK
<1>4. ASSUME NEW w \in S
      PROVE  M[w].id \in Nat /\ nextId <= M[w].id /\ M[w].id < nextId + Cardinality(S)
  <2>1. Cardinality(Above(q, S, w)) \in Nat /\ Cardinality(Above(q, S, w)) < Cardinality(S)
    BY Numbered
  <2>2. M[w].id = nextId + Cardinality(Above(q, S, w))
    BY <1>1 DEF NewId
  <2>3. QED BY <1>3, <2>1, <2>2
<1>5. ASSUME NEW w \in Window \ S
      PROVE  M[w].id = L[w].id /\ M[w].id \in Nat /\ (M[w].id # 0 => M[w].id < nextId)
  BY DEF IdsOK
<1>6. ASSUME NEW v \in S, NEW w \in S, v # w
      PROVE  M[v].id # M[w].id
  <2>1. /\ Cardinality(Above(q, S, v)) \in Nat /\ Cardinality(Above(q, S, w)) \in Nat
        /\ Cardinality(Above(q, S, v)) # Cardinality(Above(q, S, w))
    BY <1>6, Numbered
  <2>2. /\ M[v].id = nextId + Cardinality(Above(q, S, v))
        /\ M[w].id = nextId + Cardinality(Above(q, S, w))
    BY <1>1 DEF NewId
  <2>3. QED BY <1>3, <2>1, <2>2
<1>7. ASSUME NEW w \in Window, NEW v \in Window \ {w}, M[w].id # 0
      PROVE  M[w].id # M[v].id
  <2>1. CASE w \in S /\ v \in S
    BY <1>6, <2>1
  <2>2. CASE w \in S /\ v \notin S
    <3>1. M[w].id \in Nat /\ nextId <= M[w].id /\ M[v].id \in Nat /\ (M[v].id # 0 => M[v].id < nextId)
      BY <1>4, <1>5, <2>2
    <3>2. QED BY <1>3, <1>7, <3>1
  <2>3. CASE w \notin S /\ v \in S
    <3>1. M[v].id \in Nat /\ nextId <= M[v].id /\ M[w].id \in Nat /\ M[w].id < nextId
      BY <1>4, <1>5, <1>7, <2>3
    <3>2. QED BY <1>3, <3>1
  <2>4. CASE w \notin S /\ v \notin S
    BY <1>5, <1>7, <2>4 DEF IdsOK
  <2>5. QED BY <2>1, <2>2, <2>3, <2>4
<1>8. \A w \in Window : M[w].id \in Nat /\ (M[w].id # 0 => M[w].id < nextId + Cardinality(S))
  <2>1. SUFFICES ASSUME NEW w \in Window
                 PROVE  M[w].id \in Nat /\ (M[w].id # 0 => M[w].id < nextId + Cardinality(S))
    OBVIOUS
  <2>2. CASE w \in S
    BY <1>4, <2>2
  <2>3. CASE w \notin S
    <3>1. M[w].id \in Nat /\ (M[w].id # 0 => M[w].id < nextId)
      BY <1>5, <2>3
    <3>2. QED BY <1>3, <3>1
  <2>4. QED BY <2>2, <2>3
<1>9. nextId + Cardinality(S) \in Nat
  BY <1>3
<1>10. QED BY <1>7, <1>8, <1>9 DEF IdsOK

LEMMA FieldsOf ==
  ASSUME NEW l, NEW id, NEW f, NEW i, NEW t, NEW m, NEW o, NEW u,
         l = [id |-> id, floating |-> f, initialized |-> i, target |-> t, moving |-> m,
              override |-> o, full |-> u]
  PROVE  /\ IsState(l) /\ l.id = id /\ l.floating = f /\ l.target = t /\ l.moving = m
         /\ l.override = o /\ l.full = u
BY DEF IsState

LEMMA FollowsThePlan ==
  ASSUME NEW L, NEW from, NEW moved, ArrangeThen(L, from, moved)
  PROVE  LET tiles == Tiles(stack', L, hidden' \cup centering')
         IN  Follow(Plan(config'.layout, stack', tiles, L, WorkArea(bar')), L, from, moved)
BY DEF ArrangeThen

\* Whatever the handler did before, the arrangement leaves every tile in its slot,
\* on its way there, new, or moved by the rest of the handler, and the ids as they
\* were.
LEMMA Arrangement ==
  ASSUME NEW L, NEW from, NEW moved, ArrangeThen(L, from, moved), StatesOK(L), IdsOK(L, nextId), StackOK(stack'),
         config'.layout \in Layouts,
         \A w \in Window \ Mapped' : L[w] = DefaultState,
         BoundFor(L, from, strayed, Mapped')
  PROVE  /\ StatesOK(lws') /\ IdsOK(lws', nextId')
         /\ \A w \in Window \ Mapped' : lws'[w] = DefaultState
         /\ TilesInSlots'
         /\ \A w \in Window : L[w].id # 0 => lws'[w].id = L[w].id
<1> DEFINE tiles == Tiles(stack', L, hidden' \cup centering')
           plan == Plan(config'.layout, stack', tiles, L, WorkArea(bar'))
           needing == {w \in DOMAIN plan : L[w].id = 0}
           departs(w) == Departs(L[w], from[w], plan[w], config'.animated)
<1>1. /\ lws' = [w \in Window |->
                   IF w \notin DOMAIN plan THEN L[w]
                   ELSE [L[w] EXCEPT !.id = IF @ = 0 THEN NewId(stack', needing, w) ELSE @,
                                     !.moving = departs(w),
                                     !.target = plan[w],
                                     !.initialized = TRUE]]
      /\ at' = [w \in Window |->
                  IF w \in moved THEN Elsewhere
                  ELSE IF w \notin DOMAIN plan THEN from[w]
                  ELSE IF departs(w) THEN Elsewhere ELSE plan[w].loc]
      /\ nextId' = nextId + Cardinality(needing)
      /\ strayed' = (strayed \ DOMAIN plan) \cup moved
      /\ stale' = FALSE
  BY FollowsThePlan DEF Follow
<1>2. DOMAIN plan \subseteq tiles /\ tiles \subseteq Members(stack') /\ Members(stack') \subseteq Window
  BY PlannedAreTiles, TilesAreMembers DEF StackOK
<1>3. Members(stack') = Mapped'
  BY DEF Members, Mapped
<1>4. /\ needing \in SUBSET Members(stack') /\ needing \subseteq DOMAIN plan
      /\ \A w \in needing : L[w].id = 0
      /\ \A w \in DOMAIN plan : w \in needing <=> L[w].id = 0
  BY <1>2
<1> HIDE DEF departs, plan, needing, tiles
<1>5. ASSUME NEW w \in Window, w \in DOMAIN plan
      PROVE  /\ IsState(lws'[w])
             /\ lws'[w].id = IF w \in needing THEN NewId(stack', needing, w) ELSE L[w].id
             /\ lws'[w].floating = L[w].floating /\ lws'[w].full = L[w].full
             /\ lws'[w].override = L[w].override
             /\ lws'[w].target = plan[w] /\ lws'[w].moving = departs(w)
  <2> DEFINE id == IF w \in needing THEN NewId(stack', needing, w) ELSE L[w].id
  <2>1. IsState(L[w])
    BY DEF StatesOK
  <2>2. w \in needing <=> L[w].id = 0
    BY <1>4, <1>5
  <2>3. lws'[w] = [L[w] EXCEPT !.id = IF @ = 0 THEN NewId(stack', needing, w) ELSE @,
                               !.moving = departs(w), !.target = plan[w], !.initialized = TRUE]
    BY <1>1, <1>5
  <2>4. lws'[w] = [id |-> id, floating |-> L[w].floating, initialized |-> TRUE, target |-> plan[w],
                   moving |-> departs(w), override |-> L[w].override, full |-> L[w].full]
    BY <2>1, <2>2, <2>3 DEF IsState
  <2> HIDE DEF id
  <2>5. /\ IsState(lws'[w]) /\ lws'[w].id = id
        /\ lws'[w].floating = L[w].floating /\ lws'[w].full = L[w].full
        /\ lws'[w].override = L[w].override
        /\ lws'[w].target = plan[w] /\ lws'[w].moving = departs(w)
    BY <2>4, FieldsOf
  <2>6. QED BY <2>5 DEF id
<1>6. ASSUME NEW w \in Window, w \notin DOMAIN plan
      PROVE  lws'[w] = L[w] /\ (w \in moved \/ at'[w] = from[w]) /\ w \notin needing
  <2>1. lws'[w] = L[w]
    BY <1>1, <1>6, Zenon
  <2>2. w \in moved \/ at'[w] = from[w]
    BY <1>1, <1>6, Zenon
  <2>3. QED BY <1>4, <1>6, <2>1, <2>2
<1>7. ASSUME NEW w \in Window, w \in DOMAIN plan
      PROVE  at'[w] = plan[w].loc \/ departs(w) \/ w \in moved
  BY <1>1, <1>7
<1>8. /\ lws' = [w \in Window |-> lws'[w]]
      /\ \A w \in Window : IsState(lws'[w])
  <2>1. lws' = [w \in Window |-> lws'[w]]
    BY <1>1
  <2>2. SUFFICES ASSUME NEW w \in Window PROVE IsState(lws'[w])
    BY <2>1
  <2>3. CASE w \in DOMAIN plan
    BY <1>5, <2>3
  <2>4. CASE w \notin DOMAIN plan
    BY <1>6, <2>4 DEF StatesOK
  <2>5. QED BY <2>3, <2>4
<1>9. /\ \A w \in Window : lws'[w].id = IF w \in needing THEN NewId(stack', needing, w) ELSE L[w].id
      /\ \A w \in Window : L[w].id # 0 => lws'[w].id = L[w].id
      /\ SameForPlan(L, lws')
  <2>1. ASSUME NEW w \in Window
        PROVE  /\ lws'[w].id = IF w \in needing THEN NewId(stack', needing, w) ELSE L[w].id
               /\ lws'[w].floating = L[w].floating
               /\ lws'[w].full = L[w].full
               /\ lws'[w].override = L[w].override
    <3>1. CASE w \in DOMAIN plan
      BY <1>5, <3>1
    <3>2. CASE w \notin DOMAIN plan
      BY <1>6, <3>2
    <3>3. QED BY <3>1, <3>2
  <2>2. ASSUME NEW w \in Window, L[w].id # 0 PROVE lws'[w].id = L[w].id
    BY <1>4, <2>1, <2>2
  <2>3. QED BY <2>1, <2>2 DEF SameForPlan
<1>10. IdsOK(lws', nextId')
  <2>1. IdsOK(lws', nextId + Cardinality(needing))
    BY <1>4, <1>9, NewIds
  <2>2. QED BY <1>1, <2>1
<1>11. ASSUME NEW w \in Window \ Mapped' PROVE lws'[w] = DefaultState
  BY <1>2, <1>3, <1>6
<1>12. PlanNow' = plan
  <2>1. Tiles(stack', lws', hidden' \cup centering') = tiles
    BY <1>9, SameTiles DEF tiles
  <2>2. Plan(config'.layout, stack', tiles, lws', WorkArea(bar')) = plan
    BY <1>9, SamePlan DEF plan
  <2>3. PlanNow' = Plan(config'.layout, stack', Tiles(stack', lws', hidden' \cup centering'),
                        lws', WorkArea(bar'))
    BY DEF PlanNow, TilesNow
  <2>4. QED BY <2>1, <2>2, <2>3
<1>13. ASSUME NEW w \in DOMAIN plan
       PROVE  lws'[w].target = plan[w] /\ lws'[w].moving = departs(w) /\ w \in Window
  <2>1. w \in Window
    BY <1>2
  <2>2. QED BY <1>5, <2>1
<1>14. ASSUME NEW w \in Mapped', lws'[w].target # NoTarget
       PROVE  at'[w] = lws'[w].target.loc \/ lws'[w].moving \/ w \in strayed'
  <2>1. w \in Window
    BY <1>2, <1>3
  <2>2. CASE w \in DOMAIN plan
    BY <1>1, <1>7, <1>13, <2>1, <2>2
  <2>3. CASE w \notin DOMAIN plan
    BY <1>1, <1>6, <1>14, <2>1, <2>3 DEF BoundFor
  <2>4. QED BY <2>2, <2>3
<1>15. TilesInSlots'
  BY <1>12, <1>13, <1>14 DEF TilesInSlots
<1>16. QED BY <1>8, <1>9, <1>10, <1>11, <1>15 DEF StatesOK

-----------------------------------------------------------------------------
(* The invariant.                                                          *)

\* TilesInSlots and what a step needs to keep it: the shape of the stack and of
\* the layout states, and that a window which is not there has nothing.
LayoutInv ==
  /\ StackOK(stack) /\ unborn \subseteq Window \ Mapped
  /\ dragged \in Mapped \cup {None} /\ config.layout \in Layouts
  /\ StatesOK(lws) /\ IdsOK(lws, nextId) /\ at = [w \in Window |-> at[w]]
  /\ \A w \in Window \ Mapped : lws[w] = DefaultState
  /\ TilesInSlots

IdsKept == \A w \in Mapped \cap Mapped' : lws[w].id # 0 => lws'[w].id = lws[w].id

LEMMA DefaultIs ==
  IsState(DefaultState) /\ DefaultState.id = 0 /\ DefaultState.target = NoTarget
BY DEF IsState, DefaultState

\* What becomes of the stack in a step.
LEMMA StackSteps ==
  ASSUME StackOK(stack)
  PROVE  /\ Mapped \subseteq Window
         /\ \A w \in Mapped : stack' = Raised(w) => StackOK(stack') /\ Mapped' = Mapped
         /\ \A w \in Mapped : stack' = Without(stack, w) => StackOK(stack') /\ Mapped' = Mapped \ {w}
         /\ \A w \in Window \ Mapped :
              stack' = Append(stack, w) => StackOK(stack') /\ Mapped' = Mapped \cup {w}
         /\ stack' = stack => StackOK(stack') /\ Mapped' = Mapped
<1>1. Mapped = Members(stack) /\ Mapped' = Members(stack')
  BY DEF Mapped, Members
<1>2. Mapped \subseteq Window
  BY <1>1, ElementOfSeq DEF StackOK, Members
<1>3. ASSUME NEW w \in Mapped, stack' = Raised(w)
      PROVE  StackOK(stack') /\ Mapped' = Mapped
  <2>1. /\ Append(Without(stack, w), w) \in Seq(Window)
        /\ IsInjective(Append(Without(stack, w), w))
        /\ Members(Append(Without(stack, w), w)) = Members(stack)
    BY <1>1, RaisedProperties DEF StackOK
  <2>2. QED BY <1>1, <1>3, <2>1 DEF StackOK, Raised
<1>4. ASSUME NEW w \in Mapped, stack' = Without(stack, w)
      PROVE  StackOK(stack') /\ Mapped' = Mapped \ {w}
  BY <1>1, <1>4, WithoutProperties DEF StackOK
<1>5. ASSUME NEW w \in Window \ Mapped, stack' = Append(stack, w)
      PROVE  StackOK(stack') /\ Mapped' = Mapped \cup {w}
  BY <1>1, <1>5, AppendMembers DEF StackOK
<1>6. QED BY <1>1, <1>2, <1>3, <1>4, <1>5

\* A drop keeps the windows.
LEMMA DropSteps ==
  ASSUME StackOK(stack), NEW w \in Mapped, NEW i \in 1..Len(stack),
         stack' = InsertAt(Without(stack, w), i, w)
  PROVE  StackOK(stack') /\ Mapped' = Mapped
<1> DEFINE others == Without(stack, w)
<1>1. Mapped = Members(stack) /\ Mapped' = Members(stack') /\ Mapped \subseteq Window
  BY StackSteps DEF Mapped, Members
<1>2. /\ others \in Seq(Window) /\ IsInjective(others) /\ Members(others) = Members(stack) \ {w}
      /\ Len(others) = Len(stack) - 1
  BY <1>1, WithoutProperties DEF StackOK
<1>3. Len(stack) \in Nat
  BY LenProperties DEF StackOK
<1>4. i \in 1..(Len(others) + 1)
  BY <1>2, <1>3
<1> HIDE DEF others
<1>5. /\ InsertAt(others, i, w) \in Seq(Window) /\ IsInjective(InsertAt(others, i, w))
      /\ Members(InsertAt(others, i, w)) = Members(others) \cup {w}
  BY <1>1, <1>2, <1>4, InsertMembers
<1>6. stack' = InsertAt(others, i, w)
  BY DEF others
<1>7. QED BY <1>1, <1>2, <1>5, <1>6 DEF StackOK

\* A handler that changes what the layout knows of a window, and arranges.
LEMMA Arranged ==
  ASSUME LayoutInv, NEW L, NEW from, NEW moved, ArrangeThen(L, from, moved),
         StackOK(stack'), unborn' \subseteq Window \ Mapped', dragged' \in Mapped' \cup {None},
         config'.layout \in Layouts, StatesOK(L),
         \A w \in Window : L[w].id \in {lws[w].id, 0},
         \A w \in Mapped \cap Mapped' : L[w].id = lws[w].id,
         \A w \in Mapped' : \/ L[w].target = NoTarget
                             \/ /\ L[w].target = lws[w].target /\ L[w].moving = lws[w].moving
                                /\ from[w] = at[w],
         \A w \in Window \ Mapped' : L[w] = DefaultState
  PROVE  LayoutInv' /\ IdsKept
<1>1. IdsOK(L, nextId)
  BY DEF LayoutInv, IdsOK
<1>2. Mapped' \subseteq Window /\ Mapped \subseteq Window
  BY TilesAreMembers DEF LayoutInv, StackOK, Mapped, Members
<1>3. BoundFor(L, from, strayed, Mapped')
  <2>1. SUFFICES ASSUME NEW w \in Mapped', L[w].target # NoTarget
                 PROVE  from[w] = L[w].target.loc \/ L[w].moving \/ w \in strayed
    BY DEF BoundFor
  <2>2. L[w].target = lws[w].target /\ L[w].moving = lws[w].moving /\ from[w] = at[w]
    BY <2>1
  <2>3. w \in Mapped
    BY <1>2, <2>1, <2>2, DefaultIs DEF LayoutInv
  <2>4. at[w] = lws[w].target.loc \/ lws[w].moving \/ w \in strayed
    BY <2>1, <2>2, <2>3 DEF LayoutInv, TilesInSlots
  <2>5. QED BY <2>2, <2>4
<1>4. /\ StatesOK(lws') /\ IdsOK(lws', nextId')
      /\ \A w \in Window \ Mapped' : lws'[w] = DefaultState
      /\ TilesInSlots'
      /\ \A w \in Window : L[w].id # 0 => lws'[w].id = L[w].id
  BY <1>1, <1>3, Arrangement
<1>5. at' = [w \in Window |-> at'[w]]
  BY FollowsThePlan DEF Follow
<1>6. LayoutInv'
  BY <1>4, <1>5 DEF LayoutInv
<1>7. IdsKept
  BY <1>2, <1>4 DEF IdsKept
<1>8. QED BY <1>6, <1>7

\* One that only arranges.
LEMMA OnlyArranged ==
  ASSUME LayoutInv, Arrange(lws), StackOK(stack'), Mapped \subseteq Mapped',
         unborn' \subseteq Window \ Mapped', dragged' \in Mapped' \cup {None},
         config'.layout \in Layouts
  PROVE  LayoutInv' /\ IdsKept
<1>1. StatesOK(lws) /\ \A w \in Window \ Mapped' : lws[w] = DefaultState
  BY DEF LayoutInv
<1>2. ArrangeThen(lws, at, {})
  BY DEF Arrange, ArrangeFrom
<1>3. QED BY <1>1, <1>2, Arranged

\* One that changes the layout state of one window, and arranges.
LEMMA OneArranged ==
  ASSUME LayoutInv, NEW w \in Mapped, NEW x, Arrange([lws EXCEPT ![w] = x]),
         IsState(x), x.id = lws[w].id,
         x.target = NoTarget \/ (x.target = lws[w].target /\ x.moving = lws[w].moving),
         StackOK(stack'), Mapped' = Mapped, unborn' = unborn, dragged' \in Mapped \cup {None},
         config' = config
  PROVE  LayoutInv' /\ IdsKept
<1> DEFINE L == [lws EXCEPT ![w] = x]
<1>1. w \in Window /\ Mapped \subseteq Window
  BY StackSteps DEF LayoutInv
<1>2. lws = [v \in Window |-> lws[v]] /\ \A v \in Window : IsState(lws[v])
  BY DEF LayoutInv, StatesOK
<1>3. L = [v \in Window |-> L[v]] /\ L[w] = x /\ \A v \in Window \ {w} : L[v] = lws[v]
  BY <1>1, <1>2
<1>4. ArrangeThen(L, at, {})
  BY DEF Arrange, ArrangeFrom
<1> HIDE DEF L
<1>5. StatesOK(L)
  BY <1>2, <1>3 DEF StatesOK
<1>6. /\ \A v \in Window : L[v].id = lws[v].id
      /\ \A v \in Window : L[v].target = NoTarget
                          \/ (L[v].target = lws[v].target /\ L[v].moving = lws[v].moving)
      /\ \A v \in Window \ Mapped : L[v] = DefaultState
  BY <1>3 DEF LayoutInv
<1>7. unborn' \subseteq Window \ Mapped' /\ config'.layout \in Layouts
  BY DEF LayoutInv
<1>8. QED BY <1>1, <1>4, <1>5, <1>6, <1>7, Arranged

-----------------------------------------------------------------------------
(* The steps.                                                              *)

\* Without an arrangement: either something is stale from now on, or the plan is as
\* it was and so are the targets.
LEMMA NotArranged ==
  ASSUME LayoutInv, StackOK(stack'), unborn' \subseteq Window \ Mapped',
         dragged' \in Mapped' \cup {None}, config'.layout \in Layouts,
         nextId' = nextId, StatesOK(lws'), at' = [w \in Window |-> at'[w]],
         \A w \in Window : lws'[w].id \in {lws[w].id, 0},
         \A w \in Mapped \cap Mapped' : lws'[w].id = lws[w].id,
         \A w \in Window \ Mapped' : lws'[w] = DefaultState,
         \/ stale'
         \/ /\ stale' = stale /\ PlanNow' = PlanNow
            /\ \A w \in DOMAIN PlanNow : lws'[w].target = lws[w].target,
         BoundFor(lws', at', strayed', Mapped')
  PROVE  LayoutInv' /\ IdsKept
<1>1. IdsOK(lws', nextId')
  BY DEF LayoutInv, IdsOK
<1>2. ~stale' => \A w \in DOMAIN PlanNow' : lws'[w].target = PlanNow'[w]
  BY DEF LayoutInv, TilesInSlots
<1>3. TilesInSlots'
  BY <1>2 DEF TilesInSlots, BoundFor
<1>4. LayoutInv'
  BY <1>1, <1>3 DEF LayoutInv
<1>5. QED BY <1>4 DEF IdsKept

\* Windows come.
LEMMA ComingSteps ==
  ASSUME LayoutInv, NEW w \in Window, NewToplevel(w) \/ MapX11(w) \/ MapOverrideRedirect(w)
  PROVE  LayoutInv' /\ IdsKept
<1>1. /\ w \in unborn /\ unborn' = unborn \ {w} /\ stack' = Append(stack, w)
      /\ UNCHANGED <<hidden, config, bar, dragged>>
  BY DEF NewToplevel, MapX11, MapOverrideRedirect
<1>2. w \in Window \ Mapped /\ StackOK(stack)
  BY <1>1 DEF LayoutInv
<1>3. StackOK(stack') /\ Mapped' = Mapped \cup {w} /\ Mapped \subseteq Window
  BY <1>1, <1>2, StackSteps
<1>4. /\ unborn' \subseteq Window \ Mapped' /\ dragged' \in Mapped' \cup {None}
      /\ config'.layout \in Layouts
  BY <1>1, <1>3 DEF LayoutInv
<1>5. CASE MapX11(w)
  <2>1. Arrange(lws)
    BY <1>5 DEF MapX11
  <2>2. QED BY <1>3, <1>4, <2>1, OnlyArranged
<1>6. CASE NewToplevel(w)
  <2>1. UNCHANGED <<lws, at, nextId, strayed, stale>> /\ centering' = centering \cup {w}
    BY <1>6 DEF NewToplevel
  <2>2. PlanNow' = PlanNow
    <3> DEFINE out == hidden \cup centering
    <3>1. w \in Window \ Members(stack)
      BY <1>2 DEF Mapped, Members
    <3>2. /\ Tiles(Append(stack, w), lws, out \cup {w}) = Tiles(stack, lws, out)
          /\ Plan(config.layout, Append(stack, w), Tiles(stack, lws, out), lws, WorkArea(bar))
             = Plan(config.layout, stack, Tiles(stack, lws, out), lws, WorkArea(bar))
      BY <1>2, <3>1, PlanWithWaiting
    <3>3. hidden' \cup centering' = out \cup {w}
      BY <1>1, <2>1
    <3>4. PlanNow' = Plan(config.layout, Append(stack, w),
                          Tiles(Append(stack, w), lws, out \cup {w}), lws, WorkArea(bar))
      <4>1. PlanNow' = Plan(config'.layout, stack', Tiles(stack', lws', hidden' \cup centering'),
                            lws', WorkArea(bar'))
        BY DEF PlanNow, TilesNow
      <4>2. WorkArea(bar') = WorkArea(bar)
        BY <1>1
      <4>3. QED BY <1>1, <2>1, <3>3, <4>1, <4>2
    <3>5. PlanNow = Plan(config.layout, stack, Tiles(stack, lws, out), lws, WorkArea(bar))
      BY DEF PlanNow, TilesNow
    <3>6. QED BY <3>2, <3>4, <3>5
  <2>3. BoundFor(lws', at', strayed', Mapped')
    BY <1>2, <1>3, <2>1, DefaultIs DEF LayoutInv, TilesInSlots, BoundFor
  <2>4. /\ StatesOK(lws') /\ at' = [v \in Window |-> at'[v]]
        /\ \A v \in Window \ Mapped' : lws'[v] = DefaultState
    BY <1>3, <2>1 DEF LayoutInv
  <2>5. QED BY <1>3, <1>4, <2>1, <2>2, <2>3, <2>4, NotArranged
<1>7. CASE MapOverrideRedirect(w)
  <2>1. UNCHANGED <<lws, at, nextId, strayed>> /\ stale'
    BY <1>7 DEF MapOverrideRedirect
  <2>2. BoundFor(lws', at', strayed', Mapped')
    BY <1>2, <1>3, <2>1, DefaultIs DEF LayoutInv, TilesInSlots, BoundFor
  <2>3. /\ StatesOK(lws') /\ at' = [v \in Window |-> at'[v]]
        /\ \A v \in Window \ Mapped' : lws'[v] = DefaultState
    BY <1>3, <2>1 DEF LayoutInv
  <2>4. QED BY <1>3, <1>4, <2>1, <2>2, <2>3, NotArranged
<1>8. QED BY <1>5, <1>6, <1>7

\* Windows go.
LEMMA GoingSteps ==
  ASSUME LayoutInv, unborn' = unborn, NEW w \in Window, ToplevelDestroyed(w) \/ X11Destroyed(w)
  PROVE  LayoutInv' /\ IdsKept
<1> DEFINE L == [lws EXCEPT ![w] = DefaultState]
           from == [at EXCEPT ![w] = Elsewhere]
<1>1. /\ w \in Mapped /\ stack' = Without(stack, w) /\ UNCHANGED <<config, bar>>
      /\ dragged' = IF dragged = w THEN None ELSE dragged
  BY DEF ToplevelDestroyed, X11Destroyed, Gone
<1>2. StackOK(stack') /\ Mapped' = Mapped \ {w} /\ Mapped \subseteq Window
  BY <1>1, StackSteps DEF LayoutInv
<1>3. /\ unborn' \subseteq Window \ Mapped' /\ dragged' \in Mapped' \cup {None}
      /\ config'.layout \in Layouts
  BY <1>1, <1>2 DEF LayoutInv
<1>4. /\ lws = [v \in Window |-> lws[v]] /\ at = [v \in Window |-> at[v]]
      /\ \A v \in Window : IsState(lws[v])
      /\ \A v \in Window \ Mapped : lws[v] = DefaultState
  BY DEF LayoutInv, StatesOK
<1>5. /\ L = [v \in Window |-> L[v]] /\ L[w] = DefaultState
      /\ \A v \in Window \ {w} : L[v] = lws[v]
      /\ from = [v \in Window |-> from[v]]
      /\ \A v \in Window \ {w} : from[v] = at[v]
  BY <1>4
<1>6. /\ ToplevelDestroyed(w) => ArrangeFrom(L, from)
      /\ X11Destroyed(w) => /\ lws' = L /\ at' = from /\ strayed' = strayed \ {w} /\ stale' = TRUE
                            /\ nextId' = nextId
  BY DEF ToplevelDestroyed, X11Destroyed
<1> HIDE DEF L, from
<1>7. /\ StatesOK(L) /\ \A v \in Window : L[v].id \in {lws[v].id, 0}
      /\ \A v \in Mapped' : L[v] = lws[v] /\ from[v] = at[v]
      /\ \A v \in Window \ Mapped' : L[v] = DefaultState
  BY <1>2, <1>4, <1>5, DefaultIs DEF StatesOK
<1>8. CASE ToplevelDestroyed(w)
  <2>1. ArrangeThen(L, from, {})
    BY <1>6, <1>8 DEF ArrangeFrom
  <2>2. QED BY <1>2, <1>3, <1>7, <2>1, Arranged
<1>9. CASE X11Destroyed(w)
  <2>1. /\ lws' = L /\ at' = from /\ strayed' = strayed \ {w} /\ stale' = TRUE
        /\ nextId' = nextId
    BY <1>6, <1>9
  <2>2. BoundFor(lws', at', strayed', Mapped')
    BY <1>2, <1>7, <2>1 DEF LayoutInv, TilesInSlots, BoundFor
  <2>3. QED BY <1>2, <1>3, <1>5, <1>7, <2>1, <2>2, NotArranged
<1>10. QED BY <1>8, <1>9

\* A commit that arranges, and then moves its window.
LEMMA OffsetSteps ==
  ASSUME LayoutInv, unborn' = unborn, NEW w \in Window, CommitAtOffset(w)
  PROVE  LayoutInv' /\ IdsKept
<1>1. ArrangeThen(lws, at, {w}) /\ UNCHANGED <<stack, dragged, config>>
  BY DEF CommitAtOffset
<1>2. StackOK(stack') /\ Mapped' = Mapped /\ Mapped \subseteq Window
  BY <1>1, StackSteps DEF LayoutInv
<1>3. /\ unborn' \subseteq Window \ Mapped' /\ dragged' \in Mapped' \cup {None}
      /\ config'.layout \in Layouts
      /\ StatesOK(lws) /\ \A v \in Window \ Mapped' : lws[v] = DefaultState
  BY <1>1, <1>2 DEF LayoutInv
<1>4. QED BY <1>1, <1>2, <1>3, Arranged

\* Handlers that only arrange.
LEMMA PlainSteps ==
  ASSUME LayoutInv, unborn' = unborn,
         \/ SwitchWorkspace \/ ReloadConfig \/ NewLayerSurface \/ LayerDestroyed
         \/ \E w \in Window : Commit(w) \/ FocusWindow(w)
  PROVE  LayoutInv' /\ IdsKept
<1>1. Arrange(lws) /\ dragged' = dragged
  BY DEF SwitchWorkspace, ReloadConfig, NewLayerSurface, LayerDestroyed, Commit, FocusWindow
<1>2. stack' = stack \/ \E w \in Mapped : stack' = Raised(w)
  BY DEF SwitchWorkspace, ReloadConfig, NewLayerSurface, LayerDestroyed, Commit, FocusWindow
<1>3. StackOK(stack') /\ Mapped' = Mapped
  BY <1>2, StackSteps DEF LayoutInv
<1>4. config' = config \/ config' \in [layout : Layouts, animated : BOOLEAN]
  BY DEF SwitchWorkspace, ReloadConfig, NewLayerSurface, LayerDestroyed, Commit, FocusWindow
<1>5. /\ unborn' \subseteq Window \ Mapped' /\ dragged' \in Mapped' \cup {None}
      /\ config'.layout \in Layouts
  BY <1>1, <1>3, <1>4 DEF LayoutInv
<1>6. QED BY <1>1, <1>3, <1>5, OnlyArranged

LEMMA ExceptFields ==
  ASSUME NEW l, IsState(l), NEW m, NEW t, NEW f
  PROVE  /\ [l EXCEPT !.moving = m, !.target = t]
            = [id |-> l.id, floating |-> l.floating, initialized |-> l.initialized, target |-> t,
               moving |-> m, override |-> l.override, full |-> l.full]
         /\ [l EXCEPT !.floating = f]
            = [id |-> l.id, floating |-> f, initialized |-> l.initialized, target |-> l.target,
               moving |-> l.moving, override |-> l.override, full |-> l.full]
         /\ [l EXCEPT !.moving = m]
            = [id |-> l.id, floating |-> l.floating, initialized |-> l.initialized,
               target |-> l.target, moving |-> m, override |-> l.override, full |-> l.full]
<1>1. ASSUME NEW x, x = [l EXCEPT !.moving = m, !.target = t]
      PROVE  x = [id |-> l.id, floating |-> l.floating, initialized |-> l.initialized,
                  target |-> t, moving |-> m, override |-> l.override, full |-> l.full]
  BY <1>1 DEF IsState
<1>2. ASSUME NEW x, x = [l EXCEPT !.floating = f]
      PROVE  x = [id |-> l.id, floating |-> f, initialized |-> l.initialized,
                  target |-> l.target, moving |-> l.moving, override |-> l.override,
                  full |-> l.full]
  BY <1>2 DEF IsState
<1>3. ASSUME NEW x, x = [l EXCEPT !.moving = m]
      PROVE  x = [id |-> l.id, floating |-> l.floating, initialized |-> l.initialized,
                  target |-> l.target, moving |-> m, override |-> l.override, full |-> l.full]
  BY <1>3 DEF IsState
<1>4. QED BY <1>1, <1>2, <1>3, Zenon

\* A window that leaves its slot keeps its id.
LEMMA DetachedIs ==
  ASSUME NEW l, IsState(l), NEW f
  PROVE  /\ IsState([Detached(l) EXCEPT !.floating = f])
         /\ [Detached(l) EXCEPT !.floating = f].id = l.id
         /\ [Detached(l) EXCEPT !.floating = f].target = NoTarget
         /\ [Detached(l) EXCEPT !.floating = f].override = l.override
<1> DEFINE d == Detached(l)
           x == [d EXCEPT !.floating = f]
<1>1. d = [l EXCEPT !.moving = FALSE, !.target = NoTarget]
  BY DEF Detached
<1>2. d = [id |-> l.id, floating |-> l.floating, initialized |-> l.initialized,
           target |-> NoTarget, moving |-> FALSE, override |-> l.override, full |-> l.full]
  BY <1>1, ExceptFields, Zenon
<1> HIDE DEF d
<1>3. IsState(d) /\ d.id = l.id /\ d.target = NoTarget /\ d.override = l.override
  BY <1>2, FieldsOf
<1>4. x = [id |-> d.id, floating |-> f, initialized |-> d.initialized, target |-> d.target,
           moving |-> d.moving, override |-> d.override, full |-> d.full]
  BY <1>3, ExceptFields
<1> HIDE DEF x
<1>5. IsState(x) /\ x.id = d.id /\ x.target = d.target /\ x.override = d.override
  BY <1>4, FieldsOf
<1>6. QED BY <1>3, <1>5 DEF d, x

\* Handlers that change one window, and arrange.
LEMMA OneWindowSteps ==
  ASSUME LayoutInv, unborn' = unborn, NEW w \in Window,
         ToggleFloating(w) \/ ToggleMaximize(w) \/ ResizeWidth(w)
  PROVE  LayoutInv' /\ IdsKept
<1>1. /\ w \in Mapped /\ UNCHANGED <<stack, config, dragged>>
  BY DEF ToggleFloating, ToggleMaximize, ResizeWidth
<1>2. StackOK(stack') /\ Mapped' = Mapped /\ dragged' \in Mapped \cup {None}
  BY <1>1, StackSteps DEF LayoutInv
<1>3. IsState(lws[w]) /\ lws = [v \in Window |-> lws[v]]
  BY DEF LayoutInv, StatesOK
<1>4. CASE ToggleFloating(w)
  <2> DEFINE x == [Detached(lws[w]) EXCEPT !.floating = ~lws[w].floating]
  <2>1. Arrange([lws EXCEPT ![w] = x])
    BY <1>4 DEF ToggleFloating
  <2>2. IsState(x) /\ x.id = lws[w].id /\ x.target = NoTarget
    BY <1>3, DetachedIs
  <2> HIDE DEF x
  <2>3. QED BY <1>1, <1>2, <2>1, <2>2, OneArranged
<1>5. CASE ToggleMaximize(w)
  <2> DEFINE x == [lws[w] EXCEPT !.full = ~lws[w].full]
  <2>1. Arrange([lws EXCEPT ![w] = x])
    BY <1>5 DEF ToggleMaximize
  <2>2. IsState(x) /\ x.id = lws[w].id /\ x.target = lws[w].target /\ x.moving = lws[w].moving
    BY <1>3 DEF IsState
  <2> HIDE DEF x
  <2>3. QED BY <1>1, <1>2, <2>1, <2>2, OneArranged
<1>6. CASE ResizeWidth(w)
  <2>1. PICK width \in Overrides : Arrange([lws EXCEPT ![w].override = width])
    BY <1>6 DEF ResizeWidth
  <2> DEFINE x == [lws[w] EXCEPT !.override = width]
  <2>2. Arrange([lws EXCEPT ![w] = x])
    BY <2>1
  <2>3. IsState(x) /\ x.id = lws[w].id /\ x.target = lws[w].target /\ x.moving = lws[w].moving
    BY <1>3 DEF IsState
  <2> HIDE DEF x
  <2>4. QED BY <1>1, <1>2, <2>2, <2>3, OneArranged
<1>7. QED BY <1>4, <1>5, <1>6

\* A window that is dragged, from the beginning to the drop.
LEMMA DragSteps ==
  ASSUME LayoutInv, unborn' = unborn, Drop \/ DragCancelled \/ \E w \in Window : DragBegin(w)
  PROVE  LayoutInv' /\ IdsKept
<1>1. /\ lws = [v \in Window |-> lws[v]] /\ \A v \in Window : IsState(lws[v])
      /\ at = [v \in Window |-> at[v]] /\ StackOK(stack) /\ Mapped \subseteq Window
  BY StackSteps DEF LayoutInv, StatesOK
<1>2. ASSUME NEW w \in Mapped, NEW floating
      PROVE  LET x == [Detached(lws[w]) EXCEPT !.floating = floating]
             IN  IsState(x) /\ x.id = lws[w].id /\ x.target = NoTarget
  <2>1. IsState(lws[w])
    BY <1>1
  <2>2. QED BY <2>1, DetachedIs
<1>3. CASE Drop
  <2> DEFINE w == dragged
             x == [Detached(lws[w]) EXCEPT !.floating = FALSE]
  <2>1. /\ w \in Mapped /\ dragged' = None /\ config' = config
        /\ Arrange([lws EXCEPT ![w] = x])
    BY <1>3 DEF Drop, Dropped, LayoutInv
  <2>2. PICK i \in 1..Len(stack) : stack' = InsertAt(Without(stack, w), i, w)
    BY <1>3 DEF Drop
  <2>3. IsState(x) /\ x.id = lws[w].id /\ x.target = NoTarget
    BY <1>2, <2>1
  <2> HIDE DEF x, w
  <2>4. StackOK(stack') /\ Mapped' = Mapped
    BY <1>1, <2>1, <2>2, DropSteps
  <2>5. QED BY <2>1, <2>3, <2>4, OneArranged
<1>4. ASSUME NEW w \in Mapped, NEW floating, StackOK(stack'), Mapped' = Mapped,
             lws' = [lws EXCEPT ![w] = [Detached(@) EXCEPT !.floating = floating]],
             \A v \in Window \ {w} : at'[v] = at[v], at' = [v \in Window |-> at'[v]],
             dragged' \in Mapped \cup {None},
             UNCHANGED <<config, nextId, strayed>>, stale' = TRUE
      PROVE  LayoutInv' /\ IdsKept
  <2> DEFINE x == [Detached(lws[w]) EXCEPT !.floating = floating]
  <2>1. IsState(x) /\ x.id = lws[w].id /\ x.target = NoTarget
    BY <1>2
  <2>2. lws' = [lws EXCEPT ![w] = x]
    BY <1>4
  <2> HIDE DEF x
  <2>3. /\ lws' = [v \in Window |-> lws'[v]] /\ lws'[w] = x
        /\ \A v \in Window \ {w} : lws'[v] = lws[v]
    BY <1>1, <2>2
  <2>4. StatesOK(lws') /\ \A v \in Window : lws'[v].id = lws[v].id
    BY <1>1, <2>1, <2>3 DEF StatesOK
  <2>5. \A v \in Window \ Mapped' : lws'[v] = DefaultState
    BY <1>4, <2>3 DEF LayoutInv
  <2>6. BoundFor(lws', at', strayed', Mapped')
    <3>1. SUFFICES ASSUME NEW v \in Mapped', lws'[v].target # NoTarget
                   PROVE  at'[v] = lws'[v].target.loc \/ lws'[v].moving \/ v \in strayed'
      BY DEF BoundFor
    <3>2. v # w /\ v \in Window /\ v \in Mapped
      BY <1>1, <1>4, <2>1, <2>3, <3>1
    <3>3. lws'[v] = lws[v] /\ at'[v] = at[v] /\ strayed' = strayed
      BY <1>4, <2>3, <3>2
    <3>4. QED BY <3>1, <3>2, <3>3 DEF LayoutInv, TilesInSlots
  <2>7. unborn' \subseteq Window \ Mapped' /\ config'.layout \in Layouts
    BY <1>4 DEF LayoutInv
  <2>8. QED BY <1>1, <1>4, <2>4, <2>5, <2>6, <2>7, NotArranged
<1>5. ASSUME NEW w \in Window, DragBegin(w)
      PROVE  LayoutInv' /\ IdsKept
  <2>1. /\ w \in Mapped /\ dragged' = w /\ stack' = Raised(w) /\ stale' = TRUE
        /\ lws' = [lws EXCEPT ![w] = [Detached(@) EXCEPT !.floating = TRUE]]
        /\ at' = [at EXCEPT ![w] = Elsewhere] /\ UNCHANGED <<config, nextId, strayed>>
    BY <1>5 DEF DragBegin
  <2>2. StackOK(stack') /\ Mapped' = Mapped
    BY <1>1, <2>1, StackSteps
  <2>3. at' = [v \in Window |-> at'[v]] /\ \A v \in Window \ {w} : at'[v] = at[v]
    BY <1>1, <2>1
  <2>4. QED BY <1>4, <2>1, <2>2, <2>3
<1>6. CASE DragCancelled
  <2> DEFINE w == dragged
  <2>1. /\ w \in Mapped /\ dragged' = None /\ stack' = stack /\ stale' = TRUE
        /\ lws' = [lws EXCEPT ![w] = [Detached(@) EXCEPT !.floating = FALSE]]
        /\ at' = at /\ UNCHANGED <<config, nextId, strayed>>
    BY <1>6 DEF DragCancelled, Dropped, LayoutInv
  <2>2. StackOK(stack') /\ Mapped' = Mapped
    BY <1>1, <2>1, StackSteps
  <2>3. at' = [v \in Window |-> at'[v]] /\ \A v \in Window \ {w} : at'[v] = at[v]
    BY <1>1, <2>1
  <2> HIDE DEF w
  <2>4. QED BY <1>4, <2>1, <2>2, <2>3
<1>7. QED BY <1>3, <1>5, <1>6

\* What moves or raises a window and arranges nothing.
Moves(w) ==
  \/ MaximizeRequest(w) \/ MaximizeRequestX11(w) \/ ConfigureNotify(w)
  \/ IpcMoveWindow(w) \/ MoveMotion(w) \/ ReleaseResize(w) \/ IpcFocusWindow(w)
  \/ CommitWhileResized(w)

\* Either the window is moved and what the plan reads stays, or something is stale
\* from now on.
LEMMA MovesIs ==
  ASSUME NEW w \in Window, Moves(w)
  PROVE  /\ UNCHANGED <<lws, hidden, nextId, config, bar, dragged>>
         /\ centering' \subseteq centering /\ w \in Mapped
         /\ stack' = stack \/ stack' = Raised(w)
         /\ stale' = TRUE \/ (UNCHANGED <<stack, centering>> /\ stale' = stale)
         /\ \/ at' = at /\ strayed' = strayed
            \/ /\ strayed' = strayed \cup {w}
               /\ \E place \in {at[w], Elsewhere, lws[w].target.loc} :
                    at' = [at EXCEPT ![w] = place]
<1>1. ASSUME MapElement(w)
      PROVE  /\ UNCHANGED <<lws, hidden, centering, nextId, config, bar, dragged>>
             /\ w \in Mapped /\ stack' = Raised(w) /\ stale' = TRUE
             /\ strayed' = strayed \cup {w}
             /\ \E place \in {Elsewhere, lws[w].target.loc} : at' = [at EXCEPT ![w] = place]
  BY <1>1 DEF MapElement
<1>2. CASE MaximizeRequest(w) \/ IpcMoveWindow(w) \/ MoveMotion(w) \/ ReleaseResize(w)
  BY <1>1, <1>2 DEF MaximizeRequest, IpcMoveWindow, MoveMotion, ReleaseResize
<1>3. CASE MaximizeRequestX11(w)
  BY <1>3 DEF MaximizeRequestX11
<1>4. CASE ConfigureNotify(w)
  BY <1>4 DEF ConfigureNotify
<1>5. CASE IpcFocusWindow(w)
  BY <1>5 DEF IpcFocusWindow
<1>6. CASE CommitWhileResized(w)
  <2>1. /\ UNCHANGED <<stack, lws, hidden, nextId, config, bar, dragged>> /\ w \in Mapped
        /\ centering' = centering \ {w} /\ strayed' = strayed \cup {w}
        /\ stale' = IF w \in centering THEN TRUE ELSE stale
        /\ \E place \in {at[w], Elsewhere, lws[w].target.loc} : at' = [at EXCEPT ![w] = place]
    BY <1>6 DEF CommitWhileResized
  <2>2. CASE w \in centering
    BY <2>1, <2>2
  <2>3. CASE w \notin centering
    BY <2>1, <2>3
  <2>4. QED BY <2>2, <2>3
<1>7. QED BY <1>2, <1>3, <1>4, <1>5, <1>6 DEF Moves

\* Steps of clients, of users, of a bar and of frames, that arrange nothing.
LEMMA QuietSteps ==
  ASSUME LayoutInv, unborn' = unborn,
         \/ Frame \/ CommitLayer \/ UNCHANGED vars
         \/ \E w \in Window : Moves(w)
  PROVE  LayoutInv' /\ IdsKept
<1>1. /\ lws = [v \in Window |-> lws[v]] /\ \A v \in Window : IsState(lws[v])
      /\ at = [v \in Window |-> at[v]] /\ StackOK(stack) /\ Mapped \subseteq Window
  BY StackSteps DEF LayoutInv, StatesOK
<1>2. UNCHANGED <<config, dragged, nextId>>
  BY MovesIs DEF Frame, CommitLayer, vars
<1>3. stack' = stack \/ \E w \in Mapped : stack' = Raised(w)
  BY MovesIs DEF Frame, CommitLayer, vars
<1>4. StackOK(stack') /\ Mapped' = Mapped
  BY <1>1, <1>3, StackSteps
<1>5. /\ unborn' \subseteq Window \ Mapped' /\ dragged' \in Mapped' \cup {None}
      /\ config'.layout \in Layouts
  BY <1>2, <1>4 DEF LayoutInv
<1>6. CASE Frame
  <2>1. PICK done \in SUBSET {w \in Mapped : lws[w].moving} :
          /\ lws' = [w \in Window |-> [lws[w] EXCEPT !.moving = @ /\ w \notin done]]
          /\ at' = [w \in Window |-> IF w \in done THEN lws[w].target.loc ELSE at[w]]
          /\ UNCHANGED <<stack, hidden, centering, bar, strayed, stale>>
    BY <1>6 DEF Frame
  <2>2. ASSUME NEW w \in Window
        PROVE  /\ IsState(lws'[w]) /\ lws'[w].id = lws[w].id /\ lws'[w].floating = lws[w].floating
               /\ lws'[w].target = lws[w].target /\ lws'[w].override = lws[w].override
               /\ lws'[w].full = lws[w].full
               /\ lws'[w].moving = (lws[w].moving /\ w \notin done)
    <3> DEFINE moving == (lws[w].moving /\ w \notin done)
    <3>1. lws'[w] = [lws[w] EXCEPT !.moving = moving]
      BY <2>1
    <3> HIDE DEF moving
    <3>2. lws'[w] = [id |-> lws[w].id, floating |-> lws[w].floating,
                     initialized |-> lws[w].initialized, target |-> lws[w].target,
                     moving |-> moving, override |-> lws[w].override, full |-> lws[w].full]
      BY <1>1, <3>1 DEF IsState
    <3>3. /\ IsState(lws'[w]) /\ lws'[w].id = lws[w].id /\ lws'[w].floating = lws[w].floating
          /\ lws'[w].target = lws[w].target /\ lws'[w].override = lws[w].override
          /\ lws'[w].full = lws[w].full /\ lws'[w].moving = moving
      BY <3>2, FieldsOf
    <3>4. QED BY <3>3 DEF moving
  <2>3. StatesOK(lws') /\ at' = [w \in Window |-> at'[w]]
    BY <2>1, <2>2 DEF StatesOK
  <2>4. \A w \in Window \ Mapped' : lws'[w] = DefaultState
    <3>1. SUFFICES ASSUME NEW w \in Window \ Mapped' PROVE lws'[w] = DefaultState
      OBVIOUS
    <3>2. lws[w] = DefaultState /\ lws'[w] = [lws[w] EXCEPT !.moving = @ /\ w \notin done]
      BY <1>4, <2>1 DEF LayoutInv
    <3>3. [DefaultState EXCEPT !.moving = FALSE] = DefaultState
      <4>1. [DefaultState EXCEPT !.moving = FALSE]
            = [id |-> DefaultState.id, floating |-> DefaultState.floating,
               initialized |-> DefaultState.initialized, target |-> DefaultState.target,
               moving |-> FALSE, override |-> DefaultState.override, full |-> DefaultState.full]
        BY DefaultIs, ExceptFields, Zenon
      <4>2. QED BY <4>1, Zenon DEF DefaultState
    <3>4. (DefaultState.moving /\ w \notin done) = FALSE
      BY DEF DefaultState
    <3>5. QED BY <3>2, <3>3, <3>4
  <2>5. PlanNow' = PlanNow
    <3>1. SameForPlan(lws, lws')
      BY <2>2 DEF SameForPlan
    <3> DEFINE out == hidden \cup centering
    <3>2. Tiles(stack, lws', out) = Tiles(stack, lws, out)
      BY <3>1, SameTiles
    <3>3. Plan(config.layout, stack, Tiles(stack, lws, out), lws', WorkArea(bar))
          = Plan(config.layout, stack, Tiles(stack, lws, out), lws, WorkArea(bar))
      BY <3>1, SamePlan
    <3>4. PlanNow' = Plan(config.layout, stack, Tiles(stack, lws', out), lws', WorkArea(bar))
      BY <1>2, <2>1 DEF PlanNow, TilesNow
    <3>5. PlanNow = Plan(config.layout, stack, Tiles(stack, lws, out), lws, WorkArea(bar))
      BY DEF PlanNow, TilesNow
    <3>6. QED BY <3>2, <3>3, <3>4, <3>5
  <2>6. DOMAIN PlanNow \subseteq Window
    BY PlannedAreTiles, TilesAreMembers DEF LayoutInv, StackOK, PlanNow, TilesNow
  <2>7. BoundFor(lws', at', strayed', Mapped')
    <3>1. SUFFICES ASSUME NEW w \in Mapped', lws'[w].target # NoTarget
                   PROVE  at'[w] = lws'[w].target.loc \/ lws'[w].moving \/ w \in strayed'
      BY DEF BoundFor
    <3>2. w \in Mapped /\ w \in Window /\ strayed' = strayed
      BY <1>1, <1>4, <2>1
    <3>3. at[w] = lws[w].target.loc \/ lws[w].moving \/ w \in strayed
      BY <2>2, <3>1, <3>2 DEF LayoutInv, TilesInSlots
    <3>4. at'[w] = IF w \in done THEN lws[w].target.loc ELSE at[w]
      BY <2>1, <3>2
    <3>5. CASE w \in done
      BY <2>2, <3>2, <3>4, <3>5
    <3>6. CASE w \notin done
      BY <2>2, <3>2, <3>3, <3>4, <3>6
    <3>7. QED BY <3>5, <3>6
  <2>8. stale' = stale /\ \A w \in DOMAIN PlanNow : lws'[w].target = lws[w].target
    BY <2>1, <2>2, <2>6
  <2>9. \A w \in Window : lws'[w].id = lws[w].id
    BY <2>2
  <2>10. QED BY <1>1, <1>2, <1>4, <1>5, <2>3, <2>4, <2>5, <2>7, <2>8, <2>9, NotArranged
<1>7. ASSUME lws' = lws, at' = [w \in Window |-> at'[w]],
             stale' \/ (PlanNow' = PlanNow /\ stale' = stale),
             \A w \in Mapped : at'[w] = at[w] \/ w \in strayed', strayed \subseteq strayed'
      PROVE  LayoutInv' /\ IdsKept
  <2>1. StatesOK(lws') /\ \A w \in Window \ Mapped' : lws'[w] = DefaultState
    BY <1>4, <1>7 DEF LayoutInv
  <2>2. BoundFor(lws', at', strayed', Mapped')
    BY <1>4, <1>7 DEF LayoutInv, TilesInSlots, BoundFor
  <2>3. QED BY <1>1, <1>2, <1>4, <1>5, <1>7, <2>1, <2>2, NotArranged
<1>8. CASE CommitLayer
  BY <1>1, <1>7, <1>8 DEF CommitLayer
<1>9. CASE UNCHANGED vars
  <2>1. PlanNow' = PlanNow
    BY <1>9 DEF PlanNow, TilesNow, vars
  <2>2. lws' = lws /\ at' = at /\ strayed' = strayed /\ stale' = stale
    BY <1>9 DEF vars
  <2>3. QED BY <1>1, <1>7, <2>1, <2>2
<1>10. ASSUME NEW w \in Window, Moves(w)
       PROVE  LayoutInv' /\ IdsKept
  <2>1. lws' = lws /\ UNCHANGED <<hidden, config, bar>>
    BY <1>10, MovesIs
  <2>2. /\ at' = [v \in Window |-> at'[v]] /\ strayed \subseteq strayed'
        /\ \A v \in Mapped : at'[v] = at[v] \/ v \in strayed'
    <3>1. CASE at' = at /\ strayed' = strayed
      BY <1>1, <3>1
    <3>2. CASE strayed' = strayed \cup {w} /\ \E place : at' = [at EXCEPT ![w] = place]
      BY <1>1, <3>2
    <3>3. QED BY <1>10, <3>1, <3>2, MovesIs
  <2>3. stale' \/ (PlanNow' = PlanNow /\ stale' = stale)
    <3>1. CASE stale' = TRUE
      BY <3>1
    <3>2. CASE UNCHANGED <<stack, centering>> /\ stale' = stale
      BY <2>1, <3>2 DEF PlanNow, TilesNow
    <3>3. QED BY <1>10, <3>1, <3>2, MovesIs
  <2>4. QED BY <1>7, <2>1, <2>2, <2>3
<1>11. QED BY <1>6, <1>8, <1>9, <1>10

-----------------------------------------------------------------------------
(* The widths that windows ask for.                                        *)

WidthsOK(L) == \A w \in Window : L[w].override \in Overrides \cup {0}

LEMMA DefaultWidth == DefaultState.override = 0 /\ IsState(DefaultState)
BY DEF DefaultState, IsState

LEMMA WidthsAreNat ==
  ASSUME NEW L, WidthsOK(L), NEW w \in Window
  PROVE  L[w].override \in Nat
<1> DEFINE width == L[w].override
<1>1. width \in Overrides \cup {0}
  BY DEF WidthsOK
<1> HIDE DEF width
<1>2. width \in Nat
  BY <1>1, TilingAssumption
<1>3. QED BY <1>2 DEF width

\* An arrangement changes no override.
LEMMA ArrangementWidths ==
  ASSUME NEW L, NEW from, NEW moved, ArrangeThen(L, from, moved), StatesOK(L), WidthsOK(L)
  PROVE  WidthsOK(lws')
<1> DEFINE tiles == Tiles(stack', L, hidden' \cup centering')
           plan == Plan(config'.layout, stack', tiles, L, WorkArea(bar'))
           needing == {w \in DOMAIN plan : L[w].id = 0}
           departs(w) == Departs(L[w], from[w], plan[w], config'.animated)
           id(w) == IF L[w].id = 0 THEN NewId(stack', needing, w) ELSE L[w].id
<1>0. Follow(plan, L, from, moved)
  BY FollowsThePlan
<1>1. lws' = [w \in Window |->
                IF w \notin DOMAIN plan THEN L[w]
                ELSE [L[w] EXCEPT !.id = IF @ = 0 THEN NewId(stack', needing, w) ELSE @,
                                  !.moving = departs(w),
                                  !.target = plan[w],
                                  !.initialized = TRUE]]
  <2> HIDE DEF plan
  <2>1. QED BY <1>0, Zenon DEF Follow
<1> HIDE DEF plan, needing, departs
<1>2. SUFFICES ASSUME NEW w \in Window PROVE lws'[w].override = L[w].override
  BY DEF WidthsOK
<1>3. CASE w \notin DOMAIN plan
  <2>1. lws'[w] = L[w]
    BY <1>1, <1>3, Zenon
  <2>2. QED BY <2>1
<1>4. CASE w \in DOMAIN plan
  <2>1. IsState(L[w])
    BY DEF StatesOK
  <2>2. lws'[w] = [L[w] EXCEPT !.id = IF @ = 0 THEN NewId(stack', needing, w) ELSE @,
                               !.moving = departs(w), !.target = plan[w], !.initialized = TRUE]
    BY <1>1, <1>4
  <2>3. lws'[w] = [id |-> id(w), floating |-> L[w].floating, initialized |-> TRUE,
                   target |-> plan[w], moving |-> departs(w), override |-> L[w].override,
                   full |-> L[w].full]
    BY <2>1, <2>2 DEF IsState
  <2> HIDE DEF id
  <2>4. QED BY <2>3, FieldsOf
<1>5. QED BY <1>3, <1>4

LEMMA OneWidth ==
  ASSUME StatesOK(lws), WidthsOK(lws), NEW w \in Window, NEW x, IsState(x),
         x.override \in Overrides \cup {0}
  PROVE  StatesOK([lws EXCEPT ![w] = x]) /\ WidthsOK([lws EXCEPT ![w] = x])
<1> DEFINE L == [lws EXCEPT ![w] = x]
<1>1. lws = [v \in Window |-> lws[v]] /\ \A v \in Window : IsState(lws[v])
  BY DEF StatesOK
<1>2. L = [v \in Window |-> L[v]] /\ L[w] = x /\ \A v \in Window \ {w} : L[v] = lws[v]
  BY <1>1
<1> HIDE DEF L
<1>3. StatesOK(L) /\ WidthsOK(L)
  BY <1>1, <1>2 DEF StatesOK, WidthsOK
<1>4. QED BY <1>3 DEF L

\* A window asks for one of Overrides, or for none.
LEMMA NextWidths ==
  ASSUME LayoutInv, WidthsOK(lws), [Next]_vars
  PROVE  WidthsOK(lws')
<1>1. StatesOK(lws) /\ Mapped \subseteq Window /\ dragged \in Mapped \cup {None}
  BY StackSteps DEF LayoutInv
<1>2. ASSUME NEW w \in Window
      PROVE  IsState(lws[w]) /\ lws[w].override \in Overrides \cup {0}
  BY <1>1 DEF StatesOK, WidthsOK
<1>3. CASE lws' = lws \/ UNCHANGED lws
  BY <1>3
<1>4. CASE Arrange(lws) \/ \E moved : ArrangeThen(lws, at, moved)
  <2>1. \E moved : ArrangeThen(lws, at, moved)
    BY <1>4 DEF Arrange, ArrangeFrom
  <2>2. QED BY <1>1, <2>1, ArrangementWidths
<1>5. ASSUME NEW w \in Window, NEW x, IsState(x), x.override \in Overrides \cup {0},
             \/ \E from : ArrangeFrom([lws EXCEPT ![w] = x], from)
             \/ lws' = [lws EXCEPT ![w] = x]
      PROVE  WidthsOK(lws')
  <2> DEFINE L == [lws EXCEPT ![w] = x]
  <2>1. StatesOK(L) /\ WidthsOK(L)
    BY <1>1, <1>5, OneWidth
  <2> HIDE DEF L
  <2>2. (\E from : ArrangeThen(L, from, {})) \/ lws' = L
    BY <1>5 DEF L, ArrangeFrom
  <2>3. QED BY <2>1, <2>2, ArrangementWidths
<1>6. ASSUME NEW w \in Window, NEW floating,
             LET x == [Detached(lws[w]) EXCEPT !.floating = floating]
             IN  \/ Arrange([lws EXCEPT ![w] = x])
                 \/ lws' = [lws EXCEPT ![w] = x]
      PROVE  WidthsOK(lws')
  <2> DEFINE x == [Detached(lws[w]) EXCEPT !.floating = floating]
  <2>1. IsState(x) /\ x.override = lws[w].override
    BY <1>2, DetachedIs
  <2>2. (\E from : ArrangeFrom([lws EXCEPT ![w] = x], from)) \/ lws' = [lws EXCEPT ![w] = x]
    BY <1>6 DEF Arrange
  <2> HIDE DEF x
  <2>3. QED BY <1>2, <1>5, <2>1, <2>2
<1>7. ASSUME NEW w \in Window, ToplevelDestroyed(w) \/ X11Destroyed(w)
      PROVE  WidthsOK(lws')
  <2>1. \/ ArrangeFrom([lws EXCEPT ![w] = DefaultState], [at EXCEPT ![w] = Elsewhere])
        \/ lws' = [lws EXCEPT ![w] = DefaultState]
    BY <1>7 DEF ToplevelDestroyed, X11Destroyed
  <2>2. QED BY <1>5, <2>1, DefaultWidth
<1>8. ASSUME NEW w \in Window, ToggleFloating(w) \/ DragBegin(w)
      PROVE  WidthsOK(lws')
  <2>1. \/ Arrange([lws EXCEPT ![w] = [Detached(lws[w]) EXCEPT !.floating = ~lws[w].floating]])
        \/ lws' = [lws EXCEPT ![w] = [Detached(lws[w]) EXCEPT !.floating = TRUE]]
    BY <1>8 DEF ToggleFloating, DragBegin
  <2>2. QED BY <1>6, <2>1
<1>9. ASSUME Drop \/ DragCancelled PROVE WidthsOK(lws')
  <2>1. /\ dragged \in Window
        /\ \/ Arrange([lws EXCEPT ![dragged] = [Detached(lws[dragged]) EXCEPT !.floating = FALSE]])
           \/ lws' = [lws EXCEPT ![dragged] = [Detached(lws[dragged]) EXCEPT !.floating = FALSE]]
    BY <1>1, <1>9 DEF Drop, DragCancelled, Dropped
  <2>2. QED BY <1>6, <2>1
<1>10. ASSUME NEW w \in Window, ToggleMaximize(w) PROVE WidthsOK(lws')
  <2> DEFINE x == [lws[w] EXCEPT !.full = ~lws[w].full]
  <2>1. ArrangeFrom([lws EXCEPT ![w] = x], at)
    BY <1>10 DEF ToggleMaximize, Arrange
  <2>2. IsState(x) /\ x.override = lws[w].override
    <3>1. IsState(lws[w])
      BY <1>2
    <3>2. QED BY <3>1 DEF IsState
  <2> HIDE DEF x
  <2>3. QED BY <1>2, <1>5, <2>1, <2>2
<1>11. ASSUME NEW w \in Window, ResizeWidth(w) PROVE WidthsOK(lws')
  <2>1. PICK width \in Overrides : Arrange([lws EXCEPT ![w].override = width])
    BY <1>11 DEF ResizeWidth
  <2> DEFINE x == [lws[w] EXCEPT !.override = width]
  <2>2. ArrangeFrom([lws EXCEPT ![w] = x], at)
    BY <2>1 DEF Arrange
  <2>3. IsState(x) /\ x.override = width
    <3>1. IsState(lws[w])
      BY <1>2
    <3>2. QED BY <3>1 DEF IsState
  <2> HIDE DEF x
  <2>4. QED BY <1>5, <2>2, <2>3
<1>12. CASE Frame
  <2>1. PICK done : lws' = [w \in Window |-> [lws[w] EXCEPT !.moving = @ /\ w \notin done]]
    BY <1>12 DEF Frame
  <2>2. ASSUME NEW w \in Window PROVE lws'[w].override = lws[w].override
    <3>1. IsState(lws[w])
      BY <1>2
    <3>2. lws'[w] = [lws[w] EXCEPT !.moving = @ /\ w \notin done]
      BY <2>1
    <3>3. QED BY <3>1, <3>2 DEF IsState
  <2>3. QED BY <2>2 DEF WidthsOK
<1>13. ASSUME NEW w \in Window,
              \/ NewToplevel(w) \/ MapX11(w) \/ MapOverrideRedirect(w) \/ Commit(w)
              \/ CommitAtOffset(w) \/ FocusWindow(w) \/ Moves(w)
       PROVE  WidthsOK(lws')
  BY <1>3, <1>4, <1>13, MovesIs DEF NewToplevel, MapX11, MapOverrideRedirect, Commit,
                                    CommitAtOffset, FocusWindow
<1>14. CASE SwitchWorkspace \/ ReloadConfig \/ NewLayerSurface \/ CommitLayer \/ LayerDestroyed
  BY <1>3, <1>4, <1>14 DEF SwitchWorkspace, ReloadConfig, NewLayerSurface, CommitLayer,
                           LayerDestroyed
<1>15. CASE UNCHANGED vars
  BY <1>3, <1>15 DEF vars
<1>16. CASE Next
  BY <1>7, <1>8, <1>9, <1>10, <1>11, <1>12, <1>13, <1>14, <1>16 DEF Next, Ongoing, Request, Moves
<1>17. QED BY <1>15, <1>16

-----------------------------------------------------------------------------
(* The types.                                                              *)

\* A place is a point, or no place.
Places == {Elsewhere} \cup Int \X Int

\* A share of a length is a length, even where there is no room for the gaps.
LEMMA ShareIs ==
  ASSUME NEW length \in Int, NEW n \in Nat \ {0}
  PROVE  Share(length, n) \in Nat
<1>1. Gap * (n - 1) \in Int
  BY TilingAssumption
<1> DEFINE rest == length - Gap * (n - 1)
<1>2. rest \in Int
  BY <1>1
<1> HIDE DEF rest
<1>3. rest \div n \in Int
  BY <1>2
<1>4. Share(length, n) = AtLeast0(rest \div n)
  BY DEF Share, rest
<1>5. QED BY <1>3, <1>4 DEF AtLeast0

LEMMA ColumnsAt ==
  ASSUME NEW area, IsArea(area), NEW above, Ordered(above), NEW override,
         \A w \in DOMAIN above : override[w] \in Nat, NEW v \in DOMAIN above
  PROVE  ColumnsLayout(area, above, override)[v].loc \in Int \X Int
<1> DEFINE tiles == DOMAIN above
           flexible == {w \in tiles : override[w] = 0}
           c == Cardinality(flexible)
           rest == area.size[1] - Total(override, tiles) - Gap * (Cardinality(tiles) - 1)
           flex == IF flexible = {} THEN 0 ELSE AtLeast0(rest \div c)
           col == [w \in tiles |-> IF override[w] = 0 THEN flex ELSE override[w]]
           left == area.loc[1] + Total(col, above[v]) + Gap * Cardinality(above[v])
<1>1. ColumnsLayout(area, above, override)[v] = Rect(left, area.loc[2], col[v], area.size[2])
  BY DEF ColumnsLayout
<1>2. /\ IsFiniteSet(tiles) /\ IsFiniteSet(flexible) /\ IsFiniteSet(above[v])
      /\ above[v] \subseteq tiles /\ Gap \in Nat
      /\ Cardinality(tiles) \in Nat /\ c \in Nat /\ Cardinality(above[v]) \in Nat
  BY FS_Subset, FS_CardinalityType, TilingAssumption DEF Ordered
<1>3. rest \in Int
  <2>1. Total(override, tiles) \in Int
    BY <1>2, TotalType
  <2>2. Gap * (Cardinality(tiles) - 1) \in Int
    BY <1>2
  <2>3. QED BY <2>1, <2>2 DEF IsArea
<1>4. flex \in Int
  <2>1. flexible # {} => c > 0
    BY <1>2, FS_EmptySet
  <2> HIDE DEF rest, c
  <2>2. ASSUME flexible # {} PROVE flex \in Int
    <3>1. flex = AtLeast0(rest \div c)
      BY <2>2
    <3>2. rest \div c \in Int
      BY <1>2, <1>3, <2>1, <2>2
    <3> HIDE DEF flex
    <3>3. QED BY <3>1, <3>2 DEF AtLeast0
  <2>3. QED BY <2>2
<1> HIDE DEF flex
<1>5. \A w \in above[v] : col[w] \in Int
  BY <1>2, <1>4
<1> HIDE DEF col
<1>6. Total(col, above[v]) \in Int
  BY <1>2, <1>5, TotalType
<1>7. Gap * Cardinality(above[v]) \in Int
  BY <1>2
<1>8. left \in Int /\ area.loc[2] \in Int
  BY <1>6, <1>7 DEF IsArea
<1> HIDE DEF left
<1>9. QED BY <1>1, <1>8 DEF Rect

LEMMA GridAt ==
  ASSUME NEW area, IsArea(area), NEW above, Ordered(above), NEW v \in DOMAIN above
  PROVE  GridLayout(area, above)[v].loc \in Int \X Int
<1> DEFINE n == Cardinality(DOMAIN above)
           i == Cardinality(above[v])
           cols == GridColumns(n)
           rows == GridRows(n)
           w == Share(area.size[1], cols)
           h == Share(area.size[2], rows)
           x == area.loc[1] + (i % cols) * (w + Gap)
           y == area.loc[2] + (i \div cols) * (h + Gap)
<1>1. GridLayout(area, above)[v] = Rect(x, y, w, h)
  BY DEF GridLayout
<1>2. n \in Nat /\ n > 0 /\ i \in Nat /\ Gap \in Nat
  <2>1. /\ Cardinality(above[v]) \in Nat /\ Cardinality(DOMAIN above) \in Nat
        /\ Cardinality(above[v]) < Cardinality(DOMAIN above)
    BY NumberedAbove, Zenon
  <2>2. QED BY <2>1, TilingAssumption
<1> HIDE DEF n, i
<1>3. cols \in Nat \ {0} /\ rows \in Nat \ {0}
  BY <1>2, GridIs
<1> HIDE DEF cols, rows
<1>4. w \in Nat /\ h \in Nat
  <2>1. area.size[1] \in Int /\ area.size[2] \in Int
    BY DEF IsArea
  <2>2. QED BY <1>3, <2>1, ShareIs
<1> HIDE DEF w, h
<1>5. i % cols \in Int /\ i \div cols \in Int
  BY <1>2, <1>3
<1>6. (i % cols) * (w + Gap) \in Int /\ (i \div cols) * (h + Gap) \in Int
  <2> DEFINE a == i % cols
             b == i \div cols
  <2>1. a \in Int /\ b \in Int
    BY <1>5
  <2> HIDE DEF a, b
  <2>2. a * (w + Gap) \in Int /\ b * (h + Gap) \in Int
    BY <1>2, <1>4, <2>1
  <2>3. QED BY <2>2 DEF a, b
<1>7. x \in Int /\ y \in Int
  BY <1>6 DEF IsArea
<1> HIDE DEF x, y
<1>8. QED BY <1>1, <1>7 DEF Rect

LEMMA MasterStackAt ==
  ASSUME NEW area, IsArea(area), area.loc \in Int \X Int, NEW above, Ordered(above),
         NEW v \in DOMAIN above
  PROVE  MasterStackLayout(area, above)[v].loc \in Int \X Int
<1> DEFINE n == Cardinality(DOMAIN above)
           i == Cardinality(above[v])
           master == area.size[1] \div 2
           h == Share(area.size[2], n - 1)
           x == area.loc[1] + master + Gap
           y == area.loc[2] + (i - 1) * (h + Gap)
           rest == AtLeast0(area.size[1] - master - Gap)
<1>1. MasterStackLayout(area, above)[v] =
        IF above[v] = {} THEN Rect(area.loc[1], area.loc[2], master, area.size[2])
        ELSE Rect(x, y, rest, h)
  BY DEF MasterStackLayout
<1>2. n \in Nat /\ i \in Nat /\ i < n /\ Gap \in Nat /\ (above[v] # {} => i # 0)
  <2>1. /\ Cardinality(above[v]) \in Nat /\ Cardinality(DOMAIN above) \in Nat
        /\ Cardinality(above[v]) < Cardinality(DOMAIN above) /\ IsFiniteSet(above[v])
    BY NumberedAbove, Zenon
  <2>2. QED BY <2>1, FS_EmptySet, TilingAssumption
<1> HIDE DEF n, i
<1>3. CASE above[v] = {}
  BY <1>1, <1>3 DEF Rect, IsArea
<1>4. CASE above[v] # {}
  <2>1. n - 1 \in Nat \ {0}
    BY <1>2, <1>4
  <2>2. h \in Nat
    <3>1. area.size[2] \in Int
      BY DEF IsArea
    <3>2. QED BY <2>1, <3>1, ShareIs
  <2> HIDE DEF h
  <2>3. (i - 1) * (h + Gap) \in Int
    BY <1>2, <2>2
  <2>4. x \in Int /\ y \in Int
    BY <1>2, <2>3 DEF IsArea
  <2> HIDE DEF x, y
  <2>5. QED BY <1>1, <1>4, <2>4 DEF Rect
<1>5. QED BY <1>3, <1>4

\* Whatever the room, a slot is at a point.
LEMMA PlanAt ==
  ASSUME NEW kind \in Layouts, NEW q, StackOK(q), NEW T \in SUBSET Members(q), NEW L,
         \A w \in Window : L[w].override \in Nat, NEW area, IsArea(area),
         area.loc \in Int \X Int, NEW v \in DOMAIN Plan(kind, q, T, L, area)
  PROVE  Plan(kind, q, T, L, area)[v].loc \in Int \X Int
<1> DEFINE full == T \cap {w \in Window : L[w].full}
           topmost == {u \in full : Above(q, full, u) = {}}
           above == [w \in T |-> Above(q, T, w)]
           slots == Slots(kind, area, above, WidthOverrides(L))
           plan == Plan(kind, q, T, L, area)
<1>1. plan = IF kind = "floating" THEN <<>>
             ELSE IF full # {} THEN [w \in topmost |-> area] ELSE slots
  BY DEF Plan
<1>2. Ordered(above) /\ DOMAIN above = T
  BY AboveOrder
<1>3. \A w \in T : WidthOverrides(L)[w] \in Nat
  <2>1. T \subseteq Window
    BY ElementOfSeq DEF StackOK, Members
  <2>2. QED BY <2>1 DEF WidthOverrides
<1> DEFINE override == WidthOverrides(L)
<1> HIDE DEF full, topmost, above, override
<1>4. v \in DOMAIN plan
  OBVIOUS
<1> HIDE DEF plan
<1>5. CASE kind = "floating"
  <2>1. plan = <<>> /\ DOMAIN <<>> = {}
    BY <1>1, <1>5
  <2>2. QED BY <1>4, <2>1
<1>6. CASE kind # "floating" /\ full # {}
  <2>1. plan = [w \in topmost |-> area]
    BY <1>1, <1>6
  <2>2. plan[v] = area
    BY <1>4, <2>1
  <2>3. QED BY <2>2 DEF plan
<1>7. CASE kind # "floating" /\ full = {}
  <2>1. plan = slots
    BY <1>1, <1>7
  <2>2. DOMAIN slots = DOMAIN above
    BY <1>7, TilingAssumption DEF Slots, ColumnsLayout, GridLayout, MasterStackLayout
  <2>3. v \in DOMAIN above
    BY <1>4, <2>1, <2>2
  <2>4. \A w \in DOMAIN above : override[w] \in Nat
    BY <1>2, <1>3 DEF override
  <2>5. slots = Slots(kind, area, above, override)
    BY DEF override
  <2> HIDE DEF slots
  <2>6. CASE kind = "columns"
    <3>1. slots = ColumnsLayout(area, above, override)
      BY <2>5, <2>6 DEF Slots
    <3>2. slots[v].loc \in Int \X Int
      BY <1>2, <2>3, <2>4, <3>1, ColumnsAt
    <3>3. QED BY <2>1, <3>2 DEF plan
  <2>7. CASE kind = "grid"
    <3>1. slots = GridLayout(area, above)
      BY <2>5, <2>7 DEF Slots
    <3>2. slots[v].loc \in Int \X Int
      BY <1>2, <2>3, <3>1, GridAt
    <3>3. QED BY <2>1, <3>2 DEF plan
  <2>8. CASE kind = "master_stack"
    <3>1. slots = MasterStackLayout(area, above)
      BY <2>5, <2>8 DEF Slots
    <3>2. slots[v].loc \in Int \X Int
      BY <1>2, <2>3, <3>1, MasterStackAt
    <3>3. QED BY <2>1, <3>2 DEF plan
  <2>9. CASE kind = "maximize"
    <3>1. slots = [w \in DOMAIN above |-> area]
      BY <2>5, <2>9 DEF Slots
    <3>2. slots[v] = area
      BY <2>3, <3>1
    <3>3. QED BY <2>1, <3>2 DEF plan
  <2>10. QED BY <1>7, <2>6, <2>7, <2>8, <2>9, TilingAssumption
<1>8. QED BY <1>5, <1>6, <1>7

WellTyped(l) ==
  /\ l.floating \in BOOLEAN /\ l.initialized \in BOOLEAN /\ l.moving \in BOOLEAN
  /\ l.full \in BOOLEAN /\ l.target.loc \in Places

PlacesOK(L, from) == \A w \in Window : WellTyped(L[w]) /\ from[w] \in Places

\* What is not about one window.
RestOK ==
  /\ hidden \cup centering \subseteq Mapped /\ strayed \subseteq Window
  /\ config \in [layout : Layouts, animated : BOOLEAN]
  /\ bar \in {None, "mapped", "reserves"}
  /\ requests \in 0..MaxRequests
  /\ stale \in BOOLEAN

LEMMA DefaultTyped == WellTyped(DefaultState) /\ Elsewhere \in Places
BY DEF WellTyped, DefaultState, Places, NoTarget

\* An arrangement puts windows at points, or sends them there.
LEMMA ArrangementTypes ==
  ASSUME NEW L, NEW from, NEW moved, ArrangeThen(L, from, moved), StatesOK(L), WidthsOK(L),
         PlacesOK(L, from), StackOK(stack'), config'.layout \in Layouts
  PROVE  PlacesOK(lws', at')
<1> DEFINE tiles == Tiles(stack', L, hidden' \cup centering')
           area == WorkArea(bar')
           plan == Plan(config'.layout, stack', tiles, L, area)
           needing == {w \in DOMAIN plan : L[w].id = 0}
           departs(w) == Departs(L[w], from[w], plan[w], config'.animated)
           id(w) == IF L[w].id = 0 THEN NewId(stack', needing, w) ELSE L[w].id
<1>0. Follow(plan, L, from, moved)
  BY FollowsThePlan
<1>1. /\ lws' = [w \in Window |->
                   IF w \notin DOMAIN plan THEN L[w]
                   ELSE [L[w] EXCEPT !.id = IF @ = 0 THEN NewId(stack', needing, w) ELSE @,
                                     !.moving = departs(w),
                                     !.target = plan[w],
                                     !.initialized = TRUE]]
      /\ at' = [w \in Window |->
                  IF w \in moved THEN Elsewhere
                  ELSE IF w \notin DOMAIN plan THEN from[w]
                  ELSE IF departs(w) THEN Elsewhere ELSE plan[w].loc]
  <2> HIDE DEF plan
  <2>1. QED BY <1>0, Zenon DEF Follow
<1>2. \A w \in DOMAIN plan : plan[w].loc \in Int \X Int
  <2>1. tiles \in SUBSET Members(stack')
    BY TilesAreMembers DEF StackOK
  <2>2. IsArea(area) /\ area.loc \in Int \X Int
    BY WorkAreaIs
  <2>3. \A w \in Window : L[w].override \in Nat
    BY WidthsAreNat
  <2> HIDE DEF tiles, area
  <2>4. QED BY <2>1, <2>2, <2>3, PlanAt
<1>3. \A w \in Window : WellTyped(L[w]) /\ from[w] \in Places
  BY DEF PlacesOK
<1>4. \A w \in Window : departs(w) \in BOOLEAN
  BY <1>3 DEF Departs, WellTyped
<1> HIDE DEF plan, needing, departs
<1>5. SUFFICES ASSUME NEW w \in Window PROVE WellTyped(lws'[w]) /\ at'[w] \in Places
  BY DEF PlacesOK
<1>6. CASE w \notin DOMAIN plan
  <2>1. lws'[w] = L[w] /\ at'[w] \in {from[w], Elsewhere}
    <3>1. lws'[w] = L[w]
      BY <1>1, <1>6, Zenon
    <3>2. at'[w] = IF w \in moved THEN Elsewhere ELSE from[w]
      BY <1>1, <1>6, Zenon
    <3>3. QED BY <3>1, <3>2
  <2>2. QED BY <1>3, <2>1, DefaultTyped
<1>7. CASE w \in DOMAIN plan
  <2>1. IsState(L[w])
    BY DEF StatesOK
  <2>2. lws'[w] = [L[w] EXCEPT !.id = IF @ = 0 THEN NewId(stack', needing, w) ELSE @,
                               !.moving = departs(w), !.target = plan[w], !.initialized = TRUE]
    BY <1>1, <1>7
  <2>3. lws'[w] = [id |-> id(w), floating |-> L[w].floating, initialized |-> TRUE,
                   target |-> plan[w], moving |-> departs(w), override |-> L[w].override,
                   full |-> L[w].full]
    BY <2>1, <2>2 DEF IsState
  <2> HIDE DEF id
  <2>4. plan[w].loc \in Places
    BY <1>2, <1>7 DEF Places
  <2>5. WellTyped(lws'[w])
    BY <1>3, <1>4, <2>3, <2>4 DEF WellTyped
  <2>6. at'[w] \in {Elsewhere, plan[w].loc}
    BY <1>1, <1>7
  <2>7. QED BY <2>4, <2>5, <2>6, DefaultTyped
<1>8. QED BY <1>6, <1>7

LEMMA OnePlace ==
  ASSUME StatesOK(lws), at = [v \in Window |-> at[v]], PlacesOK(lws, at), NEW w \in Window,
         NEW x, WellTyped(x), NEW place \in Places
  PROVE  /\ PlacesOK([lws EXCEPT ![w] = x], at)
         /\ PlacesOK(lws, [at EXCEPT ![w] = place])
         /\ PlacesOK([lws EXCEPT ![w] = x], [at EXCEPT ![w] = place])
<1> DEFINE L == [lws EXCEPT ![w] = x]
           from == [at EXCEPT ![w] = place]
<1>1. /\ lws = [v \in Window |-> lws[v]] /\ at = [v \in Window |-> at[v]]
      /\ \A v \in Window : WellTyped(lws[v]) /\ at[v] \in Places
  BY DEF StatesOK, PlacesOK
<1>2. /\ L[w] = x /\ \A v \in Window \ {w} : L[v] = lws[v]
      /\ from[w] = place /\ \A v \in Window \ {w} : from[v] = at[v]
  BY <1>1
<1> HIDE DEF L, from
<1>3. PlacesOK(L, at) /\ PlacesOK(lws, from) /\ PlacesOK(L, from)
  BY <1>1, <1>2 DEF PlacesOK
<1>4. QED BY <1>3 DEF L, from

LEMMA DetachedTyped ==
  ASSUME NEW l, IsState(l), WellTyped(l), NEW f \in BOOLEAN
  PROVE  WellTyped([Detached(l) EXCEPT !.floating = f])
<1> DEFINE d == Detached(l)
           x == [d EXCEPT !.floating = f]
<1>1. d = [l EXCEPT !.moving = FALSE, !.target = NoTarget]
  BY DEF Detached
<1>2. d = [id |-> l.id, floating |-> l.floating, initialized |-> l.initialized,
           target |-> NoTarget, moving |-> FALSE, override |-> l.override, full |-> l.full]
  BY <1>1, ExceptFields, Zenon
<1> HIDE DEF d
<1>3. /\ d.initialized = l.initialized /\ d.target = NoTarget /\ d.moving = FALSE
      /\ d.full = l.full /\ IsState(d)
  BY <1>2 DEF IsState
<1>4. x = [id |-> d.id, floating |-> f, initialized |-> d.initialized, target |-> d.target,
           moving |-> d.moving, override |-> d.override, full |-> d.full]
  BY <1>3, ExceptFields
<1> HIDE DEF x
<1>5. /\ x.floating = f /\ x.initialized = l.initialized /\ x.target = NoTarget
      /\ x.moving = FALSE /\ x.full = l.full
  BY <1>3, <1>4
<1>6. l.initialized \in BOOLEAN /\ l.full \in BOOLEAN /\ FALSE \in BOOLEAN
  BY DEF WellTyped
<1>7. NoTarget.loc \in Places
  BY DefaultTyped DEF NoTarget
<1>8. WellTyped(x)
  BY <1>5, <1>6, <1>7 DEF WellTyped
<1>9. QED BY <1>8 DEF x, d

\* The layout states, and where windows are.
LEMMA NextPlaces ==
  ASSUME LayoutInv, WidthsOK(lws), PlacesOK(lws, at), LayoutInv', [Next]_vars
  PROVE  PlacesOK(lws', at')
<1>1. /\ StatesOK(lws) /\ Mapped \subseteq Window /\ dragged \in Mapped \cup {None}
      /\ at = [w \in Window |-> at[w]] /\ StackOK(stack') /\ config'.layout \in Layouts
  BY StackSteps DEF LayoutInv
<1>2. ASSUME NEW w \in Window
      PROVE  /\ IsState(lws[w]) /\ lws[w].override \in Overrides \cup {0} /\ WellTyped(lws[w])
             /\ at[w] \in Places /\ lws[w].target.loc \in Places
  BY <1>1 DEF StatesOK, WidthsOK, PlacesOK, WellTyped
<1>3. CASE UNCHANGED <<lws, at>>
  BY <1>3
<1>4. ASSUME NEW w \in Window, NEW place \in Places, lws' = lws, at' = [at EXCEPT ![w] = place]
      PROVE  PlacesOK(lws', at')
  BY <1>1, <1>2, <1>4, OnePlace
<1>5. CASE Arrange(lws) \/ \E moved : ArrangeThen(lws, at, moved)
  <2>1. \E moved : ArrangeThen(lws, at, moved)
    BY <1>5 DEF Arrange, ArrangeFrom
  <2>2. QED BY <1>1, <2>1, ArrangementTypes
<1>6. ASSUME NEW w \in Window, NEW x, IsState(x), x.override \in Overrides \cup {0},
             WellTyped(x), NEW from, from \in {at, [at EXCEPT ![w] = Elsewhere]},
             \/ ArrangeFrom([lws EXCEPT ![w] = x], from)
             \/ lws' = [lws EXCEPT ![w] = x] /\ at' = from
      PROVE  PlacesOK(lws', at')
  <2> DEFINE L == [lws EXCEPT ![w] = x]
  <2>1. StatesOK(L) /\ WidthsOK(L)
    BY <1>1, <1>6, OneWidth
  <2>2. PlacesOK(L, from)
    <3>1. PlacesOK(L, at) /\ PlacesOK(L, [at EXCEPT ![w] = Elsewhere])
      BY <1>1, <1>6, OnePlace, DefaultTyped
    <3>2. QED BY <1>6, <3>1
  <2> HIDE DEF L
  <2>3. ArrangeThen(L, from, {}) \/ (lws' = L /\ at' = from)
    BY <1>6 DEF L, ArrangeFrom
  <2>4. QED BY <1>1, <2>1, <2>2, <2>3, ArrangementTypes
<1>7. ASSUME NEW w \in Window, NEW floating \in BOOLEAN,
             NEW from, from \in {at, [at EXCEPT ![w] = Elsewhere]},
             LET x == [Detached(lws[w]) EXCEPT !.floating = floating]
             IN  \/ ArrangeFrom([lws EXCEPT ![w] = x], from)
                 \/ lws' = [lws EXCEPT ![w] = x] /\ at' = from
      PROVE  PlacesOK(lws', at')
  <2> DEFINE x == [Detached(lws[w]) EXCEPT !.floating = floating]
  <2>1. IsState(x) /\ x.override = lws[w].override
    BY <1>2, DetachedIs
  <2>2. WellTyped(x)
    BY <1>2, DetachedTyped
  <2>3. ArrangeFrom([lws EXCEPT ![w] = x], from) \/ (lws' = [lws EXCEPT ![w] = x] /\ at' = from)
    BY <1>7
  <2> HIDE DEF x
  <2>4. QED BY <1>2, <1>6, <1>7, <2>1, <2>2, <2>3
<1>8. ASSUME NEW w \in Window, ToplevelDestroyed(w) \/ X11Destroyed(w)
      PROVE  PlacesOK(lws', at')
  <2>1. \/ ArrangeFrom([lws EXCEPT ![w] = DefaultState], [at EXCEPT ![w] = Elsewhere])
        \/ lws' = [lws EXCEPT ![w] = DefaultState] /\ at' = [at EXCEPT ![w] = Elsewhere]
    BY <1>8 DEF ToplevelDestroyed, X11Destroyed
  <2>2. QED BY <1>6, <2>1, DefaultWidth, DefaultTyped
<1>9. ASSUME NEW w \in Window, ToggleFloating(w) \/ DragBegin(w)
      PROVE  PlacesOK(lws', at')
  <2>1. CASE ToggleFloating(w)
    <3>1. ArrangeFrom([lws EXCEPT ![w] = [Detached(lws[w]) EXCEPT !.floating = ~lws[w].floating]],
                      at)
      BY <2>1 DEF ToggleFloating, Arrange
    <3>2. (~lws[w].floating) \in BOOLEAN
      OBVIOUS
    <3>3. QED BY <1>7, <3>1, <3>2
  <2>2. CASE DragBegin(w)
    <3>1. /\ lws' = [lws EXCEPT ![w] = [Detached(lws[w]) EXCEPT !.floating = TRUE]]
          /\ at' = [at EXCEPT ![w] = Elsewhere]
      BY <2>2 DEF DragBegin
    <3>2. QED BY <1>7, <3>1
  <2>3. QED BY <1>9, <2>1, <2>2
<1>10. ASSUME Drop \/ DragCancelled PROVE PlacesOK(lws', at')
  <2>1. /\ dragged \in Window
        /\ \/ ArrangeFrom([lws EXCEPT ![dragged] =
                             [Detached(lws[dragged]) EXCEPT !.floating = FALSE]], at)
           \/ /\ lws' = [lws EXCEPT ![dragged] =
                           [Detached(lws[dragged]) EXCEPT !.floating = FALSE]]
              /\ at' = at
    BY <1>1, <1>10 DEF Drop, DragCancelled, Dropped, Arrange
  <2>2. QED BY <1>7, <2>1
<1>11. ASSUME NEW w \in Window, ToggleMaximize(w) PROVE PlacesOK(lws', at')
  <2> DEFINE x == [lws[w] EXCEPT !.full = ~lws[w].full]
  <2>1. ArrangeFrom([lws EXCEPT ![w] = x], at)
    BY <1>11 DEF ToggleMaximize, Arrange
  <2>2. IsState(lws[w]) /\ WellTyped(lws[w]) /\ (~lws[w].full) \in BOOLEAN
    BY <1>2
  <2>3. /\ x.override = lws[w].override /\ x.full = ~lws[w].full
        /\ x.floating = lws[w].floating /\ x.initialized = lws[w].initialized
        /\ x.moving = lws[w].moving /\ x.target = lws[w].target /\ IsState(x)
    BY <2>2 DEF IsState
  <2> HIDE DEF x
  <2>4. WellTyped(x)
    BY <2>2, <2>3 DEF WellTyped
  <2>5. QED BY <1>2, <1>6, <2>1, <2>3, <2>4
<1>12. ASSUME NEW w \in Window, ResizeWidth(w) PROVE PlacesOK(lws', at')
  <2>1. PICK width \in Overrides : Arrange([lws EXCEPT ![w].override = width])
    BY <1>12 DEF ResizeWidth
  <2> DEFINE x == [lws[w] EXCEPT !.override = width]
  <2>2. ArrangeFrom([lws EXCEPT ![w] = x], at)
    BY <2>1 DEF Arrange
  <2>3. IsState(lws[w]) /\ WellTyped(lws[w])
    BY <1>2
  <2>4. /\ x.override = width /\ x.full = lws[w].full
        /\ x.floating = lws[w].floating /\ x.initialized = lws[w].initialized
        /\ x.moving = lws[w].moving /\ x.target = lws[w].target /\ IsState(x)
    BY <2>3 DEF IsState
  <2> HIDE DEF x
  <2>5. WellTyped(x)
    BY <2>3, <2>4 DEF WellTyped
  <2>6. QED BY <1>6, <2>2, <2>4, <2>5
<1>13. CASE Frame
  <2>1. PICK done \in SUBSET {w \in Mapped : lws[w].moving} :
          /\ lws' = [w \in Window |-> [lws[w] EXCEPT !.moving = @ /\ w \notin done]]
          /\ at' = [w \in Window |-> IF w \in done THEN lws[w].target.loc ELSE at[w]]
    BY <1>13 DEF Frame
  <2>2. SUFFICES ASSUME NEW w \in Window PROVE WellTyped(lws'[w]) /\ at'[w] \in Places
    BY DEF PlacesOK
  <2> DEFINE moving == (lws[w].moving /\ w \notin done)
  <2>3. moving \in BOOLEAN
    OBVIOUS
  <2>4. lws'[w] = [lws[w] EXCEPT !.moving = moving]
    BY <2>1
  <2> HIDE DEF moving
  <2>5. IsState(lws[w]) /\ WellTyped(lws[w])
    BY <1>2
  <2>6. WellTyped(lws'[w])
    BY <2>3, <2>4, <2>5 DEF IsState, WellTyped
  <2>7. at'[w] = IF w \in done THEN lws[w].target.loc ELSE at[w]
    BY <2>1
  <2>8. QED BY <1>2, <2>6, <2>7
<1>14. ASSUME NEW w \in Window, Moves(w)
       PROVE  PlacesOK(lws', at')
  <2>1. /\ lws' = lws
        /\ \/ at' = at
           \/ \E place \in {at[w], Elsewhere, lws[w].target.loc} : at' = [at EXCEPT ![w] = place]
    BY <1>14, MovesIs
  <2>2. QED BY <1>2, <1>3, <1>4, <2>1, DefaultTyped
<1>15. ASSUME NEW w \in Window,
              \/ NewToplevel(w) \/ MapX11(w) \/ MapOverrideRedirect(w)
              \/ Commit(w) \/ CommitAtOffset(w) \/ FocusWindow(w)
       PROVE  PlacesOK(lws', at')
  BY <1>3, <1>5, <1>15 DEF NewToplevel, MapX11, MapOverrideRedirect, Commit, CommitAtOffset,
                           FocusWindow
<1>16. CASE SwitchWorkspace \/ ReloadConfig \/ NewLayerSurface \/ CommitLayer \/ LayerDestroyed
  BY <1>3, <1>5, <1>16 DEF SwitchWorkspace, ReloadConfig, NewLayerSurface, CommitLayer,
                           LayerDestroyed
<1>17. CASE UNCHANGED vars
  BY <1>3, <1>17 DEF vars
<1>18. CASE Next
  BY <1>8, <1>9, <1>10, <1>11, <1>12, <1>13, <1>14, <1>15, <1>16, <1>18
     DEF Next, Ongoing, Request, Moves
<1>19. QED BY <1>17, <1>18

\* A stack has each window once.
LEMMA StackSize ==
  ASSUME NEW q, StackOK(q)
  PROVE  Len(q) = Cardinality(Members(q))
<1>1. Len(q) \in Nat /\ DOMAIN q = 1..Len(q)
  BY LenProperties DEF StackOK
<1>2. q \in Bijection(1..Len(q), Members(q))
  <2>1. q \in [1..Len(q) -> Members(q)]
    <3>1. q = [i \in 1..Len(q) |-> q[i]]
      BY <1>1 DEF StackOK
    <3>2. QED BY <3>1 DEF Members
  <2>2. \A i, j \in 1..Len(q) : q[i] = q[j] => i = j
    BY <1>1 DEF StackOK, IsInjective
  <2>3. \A w \in Members(q) : \E i \in 1..Len(q) : q[i] = w
    BY DEF Members
  <2>4. QED BY <2>1, <2>2, <2>3 DEF Bijection, Injection, Surjection, IsInjective
<1>3. ExistsBijection(1..Len(q), Members(q))
  BY <1>2 DEF ExistsBijection
<1>4. QED BY <1>1, <1>3, FS_CountingElements

\* The rest.
LEMMA NextRest ==
  ASSUME LayoutInv, RestOK, [Next]_vars
  PROVE  RestOK'
<1>1. /\ StackOK(stack) /\ Mapped \subseteq Window /\ unborn \subseteq Window \ Mapped
      /\ dragged \in Mapped \cup {None} /\ None \notin Mapped
  BY StackSteps, TilingAssumption DEF LayoutInv
<1>2. /\ \A w \in Mapped : stack' = Raised(w) => Mapped' = Mapped
      /\ \A w \in Mapped : stack' = Without(stack, w) => Mapped' = Mapped \ {w}
      /\ \A w \in Window \ Mapped : stack' = Append(stack, w) => Mapped' = Mapped \cup {w}
      /\ stack' = stack => Mapped' = Mapped
  BY <1>1, StackSteps
<1> DEFINE ShownOK == hidden' \cup centering' \subseteq Mapped'
           MovedOK == strayed' \subseteq Window /\ stale' \in BOOLEAN
           SetUpOK == /\ config' \in [layout : Layouts, animated : BOOLEAN]
                      /\ bar' \in {None, "mapped", "reserves"}
<1>3. requests' \in 0..MaxRequests
  <2>1. requests' = requests \/ (requests < MaxRequests /\ requests' = requests + 1)
    BY DEF Next, vars
  <2>2. requests \in 0..MaxRequests /\ MaxRequests \in Nat
    BY TilingAssumption DEF RestOK
  <2>3. QED BY <2>1, <2>2
<1>4. SUFFICES ShownOK /\ MovedOK /\ SetUpOK
  BY <1>3 DEF RestOK
<1>5. /\ hidden \cup centering \subseteq Mapped /\ strayed \subseteq Window /\ stale \in BOOLEAN
      /\ config \in [layout : Layouts, animated : BOOLEAN]
      /\ bar \in {None, "mapped", "reserves"}
  BY DEF RestOK
<1>6. ASSUME NEW L, NEW from, NEW moved \in SUBSET Window, ArrangeThen(L, from, moved)
      PROVE  MovedOK
  <2>1. \E planned : strayed' = (strayed \ planned) \cup moved /\ stale' = FALSE
    BY <1>6, FollowsThePlan DEF Follow
  <2>2. QED BY <1>5, <2>1
<1>7. ASSUME NEW L, Arrange(L) PROVE MovedOK
  BY <1>6, <1>7 DEF Arrange, ArrangeFrom
<1>8. ASSUME NEW w \in Window, NewToplevel(w) \/ MapX11(w) \/ MapOverrideRedirect(w)
      PROVE  ShownOK /\ MovedOK /\ SetUpOK
  <2>1. /\ w \in Window \ Mapped /\ stack' = Append(stack, w) /\ UNCHANGED <<hidden, config, bar>>
        /\ centering' \subseteq centering \cup {w}
        /\ (strayed' = strayed /\ stale' \in {stale, TRUE}) \/ Arrange(lws)
    BY <1>1, <1>8 DEF NewToplevel, MapX11, MapOverrideRedirect
  <2>2. Mapped' = Mapped \cup {w}
    BY <1>2, <2>1
  <2>3. QED BY <1>5, <1>7, <2>1, <2>2
<1>9. ASSUME NEW w \in Window, ToplevelDestroyed(w) \/ X11Destroyed(w)
      PROVE  ShownOK /\ MovedOK /\ SetUpOK
  <2>1. /\ w \in Mapped /\ stack' = Without(stack, w) /\ UNCHANGED <<config, bar>>
        /\ hidden' = hidden \ {w} /\ centering' = centering \ {w}
        /\ \/ strayed' = strayed \ {w} /\ stale' = TRUE
           \/ MovedOK
    <3>1. CASE ToplevelDestroyed(w)
      <4>1. ArrangeThen([lws EXCEPT ![w] = DefaultState], [at EXCEPT ![w] = Elsewhere], {})
        BY <3>1 DEF ToplevelDestroyed, ArrangeFrom
      <4>2. MovedOK
        BY <1>6, <4>1
      <4>3. QED BY <3>1, <4>2 DEF ToplevelDestroyed, Gone
    <3>2. CASE X11Destroyed(w)
      BY <3>2 DEF X11Destroyed, Gone
    <3>3. QED BY <1>9, <3>1, <3>2
  <2>2. Mapped' = Mapped \ {w}
    BY <1>2, <2>1
  <2>3. QED BY <1>5, <2>1, <2>2
<1>10. ASSUME Mapped' = Mapped, hidden' = hidden, centering' \subseteq centering,
              SetUpOK, MovedOK
       PROVE  ShownOK /\ MovedOK /\ SetUpOK
  BY <1>5, <1>10
<1>11. ASSUME NEW w \in Window,
              \/ ToggleFloating(w) \/ ToggleMaximize(w) \/ ResizeWidth(w) \/ Commit(w)
       PROVE  ShownOK /\ MovedOK /\ SetUpOK
  <2>1. UNCHANGED <<stack, hidden, config, bar>> /\ centering' \subseteq centering /\ \E L : Arrange(L)
    BY <1>11 DEF ToggleFloating, ToggleMaximize, ResizeWidth, Commit
  <2>2. QED BY <1>2, <1>5, <1>7, <1>10, <2>1
<1>12. ASSUME NEW w \in Window, FocusWindow(w) \/ DragBegin(w)
       PROVE  ShownOK /\ MovedOK /\ SetUpOK
  <2>1. /\ w \in Mapped /\ stack' = Raised(w) /\ UNCHANGED <<hidden, centering, config, bar>>
        /\ Arrange(lws) \/ (strayed' = strayed /\ stale' = TRUE)
    BY <1>12 DEF FocusWindow, DragBegin
  <2>2. QED BY <1>2, <1>5, <1>7, <1>10, <2>1
<1>13. ASSUME NEW w \in Window, Moves(w) \/ CommitAtOffset(w)
       PROVE  ShownOK /\ MovedOK /\ SetUpOK
  <2>1. CASE Moves(w)
    <3>1. /\ w \in Mapped /\ (stack' = stack \/ stack' = Raised(w))
          /\ UNCHANGED <<hidden, config, bar>> /\ centering' \subseteq centering
          /\ strayed' \subseteq strayed \cup {w} /\ stale' \in {stale, TRUE}
      BY <2>1, MovesIs
    <3>2. QED BY <1>2, <1>5, <1>10, <3>1
  <2>2. CASE CommitAtOffset(w)
    <3>1. /\ UNCHANGED <<stack, hidden, config, bar>> /\ centering' \subseteq centering
          /\ ArrangeThen(lws, at, {w})
      BY <2>2 DEF CommitAtOffset
    <3>2. QED BY <1>2, <1>5, <1>6, <1>10, <3>1
  <2>3. QED BY <1>13, <2>1, <2>2
<1>14. CASE Drop
  <2>1. /\ dragged \in Mapped /\ UNCHANGED <<hidden, centering, config, bar>> /\ Arrange(Dropped)
        /\ \E i \in 1..Len(stack) : stack' = InsertAt(Without(stack, dragged), i, dragged)
    BY <1>1, <1>14 DEF Drop
  <2>2. Mapped' = Mapped
    BY <1>1, <2>1, DropSteps
  <2>3. QED BY <1>5, <1>7, <1>10, <2>1, <2>2
<1>15. CASE SwitchWorkspace
  <2>1. PICK shown \in SUBSET Mapped :
          /\ hidden' = Mapped \ shown
          /\ stack' = stack \/ \E w \in shown : stack' = Raised(w)
          /\ UNCHANGED <<centering, config, bar>> /\ Arrange(lws)
    BY <1>15 DEF SwitchWorkspace
  <2>2. Mapped' = Mapped
    BY <1>2, <2>1
  <2>3. QED BY <1>5, <1>7, <2>1, <2>2
<1>16. CASE ReloadConfig \/ NewLayerSurface \/ LayerDestroyed
  <2>1. /\ UNCHANGED <<stack, hidden, centering>> /\ Arrange(lws)
        /\ config' = config \/ config' \in [layout : Layouts, animated : BOOLEAN]
        /\ bar' \in {bar, "mapped", None}
    BY <1>16 DEF ReloadConfig, NewLayerSurface, LayerDestroyed
  <2>2. QED BY <1>2, <1>5, <1>7, <1>10, <2>1
<1>17. CASE Frame \/ DragCancelled \/ CommitLayer
  <2>1. /\ UNCHANGED <<stack, hidden, centering, config, strayed>> /\ stale' \in {stale, TRUE}
        /\ bar' \in {bar, "mapped", "reserves"}
    BY <1>17 DEF Frame, DragCancelled, CommitLayer
  <2>2. QED BY <1>2, <1>5, <1>10, <2>1
<1>18. CASE UNCHANGED vars
  <2>1. UNCHANGED <<stack, hidden, centering, config, strayed, stale, bar>>
    BY <1>18 DEF vars
  <2>2. QED BY <1>2, <1>5, <1>10, <2>1
<1>19. CASE Next
  BY <1>8, <1>9, <1>11, <1>12, <1>13, <1>14, <1>15, <1>16, <1>17, <1>19
     DEF Next, Ongoing, Request, Moves
<1>20. QED BY <1>18, <1>19

-----------------------------------------------------------------------------
(* The slots that the plan gives fit.                                      *)

LEMMA PlanFits ==
  ASSUME LayoutInv, WidthsOK(lws), Roomy,
         config.layout \in {"columns", "grid", "master_stack"},
         \A w \in DOMAIN PlanNow : ~lws[w].full
  PROVE  DOMAIN PlanNow = TilesNow /\ SlotsFit(PlanNow, WorkArea(bar))
<1> DEFINE area == WorkArea(bar)
           tiles == TilesNow
           full == tiles \cap {w \in Window : lws[w].full}
           above == [w \in tiles |-> Above(stack, tiles, w)]
           override == WidthOverrides(lws)
           slots == Slots(config.layout, area, above, override)
<1>1. StackOK(stack) /\ tiles \subseteq Members(stack) /\ tiles \subseteq Window
  BY TilesAreMembers DEF LayoutInv, StackOK, TilesNow
<1>2. PlanNow = IF full # {} THEN [w \in {v \in full : Above(stack, full, v) = {}} |-> area]
                ELSE slots
  BY DEF PlanNow, Plan
<1>3. full = {}
  <2>1. SUFFICES ASSUME full # {} PROVE FALSE
    OBVIOUS
  <2>2. PICK v \in full : Above(stack, full, v) = {}
    <3>1. full \in SUBSET Members(stack)
      BY <1>1
    <3> HIDE DEF full
    <3>2. QED BY <1>1, <2>1, <3>1, TopmostExists
  <2>3. v \in DOMAIN PlanNow
    <3> HIDE DEF full, slots
    <3>1. PlanNow = [w \in {u \in full : Above(stack, full, u) = {}} |-> area]
      BY <1>2, <2>1
    <3>2. QED BY <2>2, <3>1
  <2>4. QED BY <2>3
<1>4. PlanNow = slots
  <2> HIDE DEF full, slots
  <2>1. QED BY <1>2, <1>3
<1>5. IsArea(area) /\ Ordered(above) /\ DOMAIN above = tiles
  BY <1>1, AboveOrder, WorkAreaIs
<1>6. \A w \in tiles : override[w] \in Nat
  <2>1. SUFFICES ASSUME NEW w \in tiles PROVE override[w] \in Nat
    OBVIOUS
  <2>2. w \in Window
    BY <1>1
  <2>3. lws[w].override \in Nat
    BY <2>2, WidthsAreNat
  <2>4. QED BY <2>2, <2>3 DEF WidthOverrides
<1>7. LET n == Cardinality(DOMAIN above)
      IN  /\ config.layout = "columns" =>
               Total(override, DOMAIN above) + Gap * (n - 1) <= area.size[1]
          /\ config.layout = "grid" /\ n > 0 =>
               Gap * (GridColumns(n) - 1) <= area.size[1] /\ Gap * (GridRows(n) - 1) <= area.size[2]
          /\ config.layout = "master_stack" /\ n > 1 =>
               area.size[1] \div 2 + Gap <= area.size[1] /\ Gap * (n - 2) <= area.size[2]
  BY <1>5, Zenon DEF Roomy
<1> HIDE DEF above, area, tiles, override
<1>8. SlotsFit(slots, area) /\ DOMAIN slots = DOMAIN above
  <2>1. CASE config.layout = "columns"
    <3>1. slots = ColumnsLayout(area, above, override)
      BY <2>1 DEF Slots
    <3>2. DOMAIN slots = DOMAIN above
      BY <3>1 DEF ColumnsLayout
    <3> HIDE DEF slots
    <3>3. Total(override, DOMAIN above) + Gap * (Cardinality(DOMAIN above) - 1) <= area.size[1]
      BY <1>7, <2>1, Zenon
    <3>4. \A w \in DOMAIN above : override[w] \in Nat
      BY <1>5, <1>6
    <3>5. QED BY <1>5, <3>1, <3>2, <3>3, <3>4, ColumnsFit
  <2>2. CASE config.layout = "grid"
    <3>1. slots = GridLayout(area, above)
      BY <2>2 DEF Slots
    <3>2. DOMAIN slots = DOMAIN above
      BY <3>1 DEF GridLayout
    <3> HIDE DEF slots
    <3>3. SlotsFit(GridLayout(area, above), area)
      BY <1>5, <1>7, <2>2, GridFit, Zenon
    <3>4. QED BY <3>1, <3>2, <3>3
  <2>3. CASE config.layout = "master_stack"
    <3>1. slots = MasterStackLayout(area, above)
      BY <2>3 DEF Slots
    <3>2. DOMAIN slots = DOMAIN above
      BY <3>1 DEF MasterStackLayout
    <3> HIDE DEF slots
    <3>3. SlotsFit(MasterStackLayout(area, above), area)
      BY <1>5, <1>7, <2>3, MasterStackFit, Zenon
    <3>4. QED BY <3>1, <3>2, <3>3
  <2>4. QED BY <2>1, <2>2, <2>3
<1> HIDE DEF slots
<1>9. QED BY <1>4, <1>5, <1>8 DEF area, tiles

LEMMA InitLayout == Init => LayoutInv
<1> SUFFICES ASSUME Init PROVE LayoutInv
  OBVIOUS
<1>1. stack = <<>> /\ Mapped = {}
  BY DEF Init, Mapped
<1>2. StackOK(stack)
  BY <1>1 DEF StackOK, IsInjective
<1>3. unborn = Window /\ dragged = None /\ config.layout \in Layouts /\ stale = FALSE
  BY DEF Init
<1>4. /\ lws = [w \in Window |-> DefaultState] /\ at = [w \in Window |-> Elsewhere] /\ nextId = 0
  BY DEF Init
<1>5. StatesOK(lws) /\ IdsOK(lws, nextId)
  BY <1>4, DefaultIs DEF StatesOK, IdsOK
<1>6. DOMAIN PlanNow = {}
  <2>1. TilesNow = {}
    <3>1. DOMAIN stack = {}
      BY <1>1
    <3>2. QED BY <3>1 DEF TilesNow, Tiles
  <2>2. QED BY <1>3, <2>1, PlannedAreTiles DEF PlanNow
<1>7. TilesInSlots
  BY <1>1, <1>6 DEF TilesInSlots
<1>8. QED BY <1>1, <1>2, <1>3, <1>4, <1>5, <1>7 DEF LayoutInv

LEMMA NextLayout == LayoutInv /\ [Next]_vars => LayoutInv' /\ IdsKept
<1> SUFFICES ASSUME LayoutInv, [Next]_vars PROVE LayoutInv' /\ IdsKept
  OBVIOUS
<1>1. CASE \E w \in Window : NewToplevel(w) \/ MapX11(w) \/ MapOverrideRedirect(w)
  BY <1>1, ComingSteps
<1>2. CASE Ongoing /\ UNCHANGED unborn
  BY <1>2, QuietSteps, DragSteps, PlainSteps DEF Ongoing
<1>3. CASE Request /\ UNCHANGED unborn
  <2>1. CASE SwitchWorkspace \/ ReloadConfig \/ NewLayerSurface \/ LayerDestroyed \/ CommitLayer
    BY <1>3, <2>1, PlainSteps, QuietSteps
  <2>2. ASSUME NEW w \in Window,
               \/ ToggleFloating(w) \/ ToggleMaximize(w) \/ ResizeWidth(w) \/ FocusWindow(w)
               \/ CommitAtOffset(w) \/ Moves(w)
               \/ DragBegin(w) \/ ToplevelDestroyed(w) \/ X11Destroyed(w)
        PROVE  LayoutInv' /\ IdsKept
    BY <1>3, <2>2, OneWindowSteps, PlainSteps, OffsetSteps, QuietSteps, DragSteps, GoingSteps
  <2>3. QED BY <1>3, <2>1, <2>2 DEF Request, Moves
<1>4. CASE UNCHANGED vars
  <2>1. unborn' = unborn
    BY <1>4 DEF vars
  <2>2. QED BY <1>4, <2>1, QuietSteps
<1>5. QED BY <1>1, <1>2, <1>3, <1>4 DEF Next

\* layout.rs:534-634: whatever the windows, layouts and requests, a tile's target is
\* its slot in the plan until something changes without an arrangement, and the
\* window is there, on its way, or was moved since by its client, a user or the socket.
THEOREM SlotsHold == Spec => []TilesInSlots
<1>1. LayoutInv => TilesInSlots
  BY DEF LayoutInv
<1>2. QED BY <1>1, InitLayout, NextLayout, PTL DEF Spec

\* layout.rs:438-521: whatever the sizes, the gap, the fixed widths and the number of
\* windows, as long as they leave room, the targets of the tiles lie inside the work
\* area and leave the gap between them.
THEOREM FitHolds == Spec => []TilesFit
<1>1. Init => WidthsOK(lws)
  BY DefaultWidth DEF Init, WidthsOK
<1>2. LayoutInv /\ WidthsOK(lws) => TilesFit
  <2>1. SUFFICES ASSUME LayoutInv, WidthsOK(lws), Roomy, ~stale,
                        config.layout \in {"columns", "grid", "master_stack"},
                        \A w \in DOMAIN PlanNow : ~lws[w].full,
                        NEW w \in TilesNow
                 PROVE  /\ Inside(lws[w].target, WorkArea(bar))
                        /\ \A v \in TilesNow \ {w} : Apart(lws[w].target, lws[v].target)
    BY DEF TilesFit
  <2>2. DOMAIN PlanNow = TilesNow /\ SlotsFit(PlanNow, WorkArea(bar))
    BY <2>1, PlanFits
  <2>3. \A v \in TilesNow : lws[v].target = PlanNow[v]
    BY <2>1, <2>2 DEF LayoutInv, TilesInSlots
  <2>4. QED BY <2>2, <2>3 DEF SlotsFit
<1>3. LayoutInv /\ WidthsOK(lws) /\ [Next]_vars => (LayoutInv /\ WidthsOK(lws))'
  BY NextLayout, NextWidths
<1>4. QED BY <1>1, <1>2, <1>3, InitLayout, PTL DEF Spec

\* layout.rs:222-260, 438-521: whatever the layouts, the sizes and what clients ask
\* for, every layout state is whole, every window is at a point or on its way, and
\* what is hidden, centred or dragged is a window of the space.
THEOREM TypesHold == Spec => []TypeOK
<1> DEFINE Inv == LayoutInv /\ WidthsOK(lws) /\ PlacesOK(lws, at) /\ RestOK
<1>1. Init => Inv
  <2>1. SUFFICES ASSUME Init PROVE WidthsOK(lws) /\ PlacesOK(lws, at) /\ RestOK
    BY InitLayout
  <2>2. lws = [w \in Window |-> DefaultState] /\ at = [w \in Window |-> Elsewhere]
    BY <2>1 DEF Init
  <2>3. WidthsOK(lws) /\ PlacesOK(lws, at)
    BY <2>2, DefaultWidth, DefaultTyped DEF WidthsOK, PlacesOK
  <2>4. RestOK
    <3>1. hidden \cup centering = {} /\ strayed = {}
      BY <2>1 DEF Init
    <3>2. /\ config \in [layout : Layouts, animated : BOOLEAN] /\ bar = None
          /\ requests = 0 /\ stale = FALSE
      BY <2>1 DEF Init
    <3>3. requests \in 0..MaxRequests
      BY <3>2, TilingAssumption
    <3>4. QED BY <3>1, <3>2, <3>3 DEF RestOK
  <2>5. QED BY <2>3, <2>4
<1>2. Inv /\ [Next]_vars => Inv'
  BY NextLayout, NextWidths, NextPlaces, NextRest
<1>3. Inv => TypeOK
  <2> SUFFICES ASSUME LayoutInv, WidthsOK(lws), PlacesOK(lws, at), RestOK PROVE TypeOK
    OBVIOUS
  <2>1. Len(stack) = Cardinality(Mapped) /\ Mapped \subseteq Window \ unborn
    <3>1. Mapped = Members(stack) /\ Mapped \subseteq Window
      BY StackSteps DEF Mapped, Members, LayoutInv
    <3>2. QED BY <3>1, StackSize DEF LayoutInv
  <2>2. ASSUME NEW w \in Window
        PROVE  /\ {lws[w].floating, lws[w].initialized, lws[w].moving, lws[w].full}
                    \subseteq BOOLEAN
               /\ lws[w].id \in 0..nextId /\ lws[w].override \in Overrides \cup {0}
               /\ w \notin Mapped => lws[w] = DefaultState
               /\ at[w] \in {Elsewhere} \cup Int \X Int
    <3>1. WellTyped(lws[w]) /\ at[w] \in Places
      BY DEF PlacesOK
    <3>2. lws[w].id \in 0..nextId
      <4>1. nextId \in Nat /\ lws[w].id \in Nat /\ (lws[w].id # 0 => lws[w].id < nextId)
        BY DEF LayoutInv, IdsOK
      <4>2. QED BY <4>1
    <3>3. QED BY <3>1, <3>2 DEF WellTyped, Places, WidthsOK, LayoutInv
  <2>3. QED BY <2>1, <2>2 DEF TypeOK, RestOK, LayoutInv
<1>4. QED BY <1>1, <1>2, <1>3, PTL DEF Spec

\* layout.rs:30-36, 222: no two windows have the same id, and a window keeps its id
\* until it is gone.
THEOREM IdsHold == Spec => IdsIdentify
<1> DEFINE Distinct == \A v, w \in Mapped' : v # w /\ lws'[v].id # 0 => lws'[v].id # lws'[w].id
           Kept == \A w \in Mapped \cap Mapped' : lws[w].id # 0 => lws'[w].id = lws[w].id
<1>1. ASSUME LayoutInv, [Next]_vars PROVE [Distinct /\ Kept]_vars
  <2>1. LayoutInv' /\ IdsKept
    BY <1>1, NextLayout
  <2>2. Mapped' \subseteq Window
    BY <2>1, TilesAreMembers DEF LayoutInv, StackOK, Mapped, Members
  <2>3. Distinct
    BY <2>1, <2>2 DEF LayoutInv, IdsOK
  <2>4. QED BY <2>1, <2>3 DEF IdsKept
<1>2. QED BY <1>1, InitLayout, NextLayout, PTL DEF Spec, IdsIdentify

=============================================================================
