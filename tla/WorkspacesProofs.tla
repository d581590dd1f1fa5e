-------------------------- MODULE WorkspacesProofs --------------------------
(***************************************************************************)
(* What workspaces and focus guarantee for every number of windows,        *)
(* outputs and workspaces: a window is hidden exactly when its workspace   *)
(* is not the active one, the keyboard focus is on a window that can be    *)
(* seen, focus-next comes round to all of them, and a layout drag takes    *)
(* the slot it is dropped on.                                              *)
(***************************************************************************)
EXTENDS Workspaces, FiniteSetTheorems, SequenceTheorems, WellFoundedInduction, TLAPS

-----------------------------------------------------------------------------
(* Sequences of windows, and what filtering makes of them.                 *)

Members(q) == {q[i] : i \in 1..Len(q)}
Distinct(q) == \A i, j \in 1..Len(q) : q[i] = q[j] => i = j

\* e lists the N positions of q whose members are in S from the first to the last,
\* and f the members.
Enumerates(f, e, N, q, S) ==
  /\ N = Cardinality({i \in 1..Len(q) : q[i] \in S})
  /\ N \in Nat /\ e \in [1..N -> 1..Len(q)]
  /\ \A n, m \in 1..N : n < m => e[n] < e[m]
  /\ {e[n] : n \in 1..N} = {i \in 1..Len(q) : q[i] \in S}
  /\ f = [n \in 1..N |-> q[e[n]]]

\* Filter picks the positions whose windows are in the set, each once and in
\* their order: counting the positions up to one is a bijection.
LEMMA FilterEnumerates ==
  ASSUME NEW A, NEW q \in Seq(A), NEW S
  PROVE  \E e, N : Enumerates(Filter(q, S), e, N, q, S)
<1> DEFINE at == {i \in 1..Len(q) : q[i] \in S}
           N == Cardinality(at)
           r == [i \in at |-> Cardinality(at \cap 1..i)]
           e == [n \in 1..N |-> CHOOSE i \in at : Cardinality(at \cap 1..i) = n]
<1>1. /\ IsFiniteSet(at) /\ N \in Nat /\ Len(q) \in Nat /\ at \subseteq 1..Len(q)
      /\ DOMAIN q = 1..Len(q)
  <2>1. Len(q) \in Nat /\ DOMAIN q = 1..Len(q)
    BY LenProperties
  <2>2. IsFiniteSet(1..Len(q)) /\ at \in SUBSET (1..Len(q))
    BY <2>1, FS_Interval
  <2>3. IsFiniteSet(at)
    BY <2>2, FS_Subset
  <2>4. N \in Nat
    BY <2>3, FS_CardinalityType
  <2>5. QED BY <2>1, <2>2, <2>3, <2>4
<1>2. Filter(q, S) = [n \in 1..N |-> q[e[n]]]
  BY <1>1 DEF Filter
<1> HIDE DEF at
<1>3. ASSUME NEW i \in at
      PROVE  r[i] \in 1..N
  <2>1. i \in at \cap 1..i
    BY <1>1
  <2>2. IsFiniteSet(at \cap 1..i) /\ at \cap 1..i \in SUBSET at
    BY <1>1, FS_Subset
  <2>3. Cardinality(at \cap 1..i) <= N /\ Cardinality(at \cap 1..i) \in Nat
    BY <1>1, <2>2, FS_Subset, FS_CardinalityType
  <2>4. Cardinality(at \cap 1..i) # 0
    BY <2>1, <2>2, FS_EmptySet
  <2>5. QED BY <1>1, <2>3, <2>4
<1>4. ASSUME NEW i \in at, NEW j \in at, i < j
      PROVE  r[i] < r[j]
  <2>1. /\ at \cap 1..i \in SUBSET (at \cap 1..j) /\ IsFiniteSet(at \cap 1..j)
        /\ j \in at \cap 1..j /\ j \notin at \cap 1..i
    BY <1>1, <1>4, FS_Subset
  <2>2. Cardinality(at \cap 1..i) <= Cardinality(at \cap 1..j)
    BY <2>1, FS_Subset
  <2>3. Cardinality(at \cap 1..i) # Cardinality(at \cap 1..j)
    BY <2>1, FS_Subset
  <2>4. Cardinality(at \cap 1..i) \in Nat /\ Cardinality(at \cap 1..j) \in Nat
    BY <1>3
  <2>5. QED BY <2>2, <2>3, <2>4
<1>5. ASSUME NEW i \in at, NEW j \in at, r[i] = r[j]
      PROVE  i = j
  <2>1. i \in Int /\ j \in Int /\ r[i] \in Int
    BY <1>1, <1>3
  <2>2. ~(i < j) /\ ~(j < i)
    BY <1>4, <1>5, <2>1
  <2>3. QED BY <2>1, <2>2
<1>6. ASSUME NEW n \in 1..N
      PROVE  \E i \in at : r[i] = n
  <2>1. r \in [at -> 1..N]
    BY <1>3
  <2>2. r \in Injection(at, 1..N)
    BY <1>5, <2>1 DEF Injection, IsInjective
  <2>3. IsFiniteSet(1..N) /\ Cardinality(1..N) = N
    BY <1>1, FS_Interval
  <2>4. r \in Surjection(at, 1..N)
    BY <2>2, <2>3, FS_Injection
  <2>5. QED BY <2>4 DEF Surjection
<1>7. ASSUME NEW n \in 1..N
      PROVE  e[n] \in at /\ r[e[n]] = n
  BY <1>6
<1> HIDE DEF r, e
<1>8. ASSUME NEW n \in 1..N, NEW m \in 1..N, n < m
      PROVE  e[n] < e[m]
  <2>1. e[n] \in at /\ e[m] \in at /\ r[e[n]] = n /\ r[e[m]] = m
    BY <1>7
  <2>2. e[n] \in Int /\ e[m] \in Int
    <3>1. \A i \in at : i \in Int
      BY <1>1
    <3>2. QED BY <2>1, <3>1
  <2>3. ~(e[m] < e[n])
    BY <1>4, <1>8, <2>1
  <2>4. e[n] # e[m]
    BY <1>8, <2>1
  <2>5. QED BY <2>2, <2>3, <2>4
<1>9. {e[n] : n \in 1..N} = at
  <2>1. ASSUME NEW i \in at
        PROVE  \E n \in 1..N : e[n] = i
    BY <1>3, <1>5, <1>7
  <2>2. QED BY <1>7, <2>1
<1>10. e \in [1..N -> 1..Len(q)]
  BY <1>1, <1>7 DEF e
<1>11. N = Cardinality({i \in 1..Len(q) : q[i] \in S})
  BY DEF at
<1> HIDE DEF N, e
<1>12. Enumerates(Filter(q, S), e, N, q, S)
  BY <1>1, <1>2, <1>8, <1>9, <1>10, <1>11 DEF at, Enumerates
<1>13. QED BY <1>12

\* What filtering leaves are the members in the set; it doubles none.
LEMMA FilterProperties ==
  ASSUME NEW A, NEW q \in Seq(A), NEW S
  PROVE  /\ Filter(q, S) \in Seq(A)
         /\ Members(Filter(q, S)) = Members(q) \cap S
         /\ Distinct(q) => Distinct(Filter(q, S))
         /\ Len(Filter(q, S)) = Cardinality({i \in 1..Len(q) : q[i] \in S})
<1>1. PICK e, N : Enumerates(Filter(q, S), e, N, q, S)
  BY FilterEnumerates, Zenon
<1>0. /\ N \in Nat /\ e \in [1..N -> 1..Len(q)]
      /\ \A n, m \in 1..N : n < m => e[n] < e[m]
      /\ {e[n] : n \in 1..N} = {i \in 1..Len(q) : q[i] \in S}
      /\ Filter(q, S) = [n \in 1..N |-> q[e[n]]]
  BY <1>1 DEF Enumerates
<1>2. \A i \in 1..Len(q) : q[i] \in A
  BY ElementOfSeq
<1>3. Filter(q, S) \in Seq(A) /\ Len(Filter(q, S)) = N
  BY <1>0, <1>2, IsASeq, SMTT(30)
<1>4. \A n \in 1..N : Filter(q, S)[n] = q[e[n]] /\ e[n] \in 1..Len(q) /\ q[e[n]] \in S
  BY <1>0
<1>5. Members(Filter(q, S)) = Members(q) \cap S
  <2>1. \A i \in 1..Len(q) : q[i] \in S => \E n \in 1..N : e[n] = i
    BY <1>0
  <2>2. QED BY <1>3, <1>4, <2>1, SMTT(30) DEF Members
<1>6. ASSUME Distinct(q), NEW n \in 1..N, NEW m \in 1..N,
             Filter(q, S)[n] = Filter(q, S)[m]
      PROVE  n = m
  <2>1. e[n] = e[m]
    BY <1>4, <1>6 DEF Distinct
  <2>2. n \in Int /\ m \in Int /\ e[n] \in Int
    BY <1>4
  <2>3. ~(n < m) /\ ~(m < n)
    BY <1>0, <2>1, <2>2
  <2>4. QED BY <2>2, <2>3
<1>7. Len(Filter(q, S)) = Cardinality({i \in 1..Len(q) : q[i] \in S})
  BY <1>1, <1>3 DEF Enumerates
<1>8. Distinct(q) => Distinct(Filter(q, S))
  BY <1>3, <1>6 DEF Distinct
<1>9. QED BY <1>3, <1>5, <1>7, <1>8

\* A sequence and its reverse have as many members in a set.
LEMMA ReverseCounts ==
  ASSUME NEW A, NEW q \in Seq(A), NEW S
  PROVE  /\ Reverse(q) \in Seq(A)
         /\ Len(Filter(Reverse(q), S)) = Len(Filter(q, S))
<1> DEFINE p == Reverse(q)
           L == Len(q)
           P == {i \in 1..Len(p) : p[i] \in S}
           Q == {i \in 1..Len(q) : q[i] \in S}
           f == [i \in P |-> L - i + 1]
<1>1. L \in Nat /\ \A i \in 1..L : q[i] \in A
  BY ElementOfSeq, LenProperties
<1>2. p = [i \in 1..L |-> q[L - i + 1]]
  BY DEF Reverse
<1>3. \A i \in 1..L : L - i + 1 \in 1..L
  BY <1>1
<1>4. p \in Seq(A) /\ Len(p) = L /\ \A i \in 1..L : p[i] = q[L - i + 1]
  BY <1>1, <1>2, <1>3, IsASeq
<1> HIDE DEF p, L
<1>5. \A i \in P : f[i] = L - i + 1 /\ f[i] \in Q
  BY <1>3, <1>4 DEF L
<1>6. \A i, j \in P : f[i] = f[j] => i = j
  BY <1>1, <1>4, <1>5
<1>7. \A j \in Q : \E i \in P : f[i] = j
  <2> TAKE j \in Q
  <2>1. L - j + 1 \in P
    BY <1>1, <1>3, <1>4 DEF L
  <2>2. f[L - j + 1] = j
    BY <1>1, <2>1 DEF L
  <2>3. QED BY <2>1, <2>2
<1> HIDE DEF f
<1>8. ExistsBijection(P, Q)
  <2>1. f \in [P -> Q]
    BY <1>5 DEF f
  <2>2. f \in Bijection(P, Q)
    BY <2>1, <1>6, <1>7 DEF Bijection, Injection, Surjection, IsInjective
  <2>3. QED BY <2>2 DEF ExistsBijection
<1>9. IsFiniteSet(P)
  <2>1. IsFiniteSet(1..Len(p)) /\ P \in SUBSET (1..Len(p))
    BY <1>1, <1>4, FS_Interval
  <2>2. QED BY <2>1, FS_Subset
<1>10. Cardinality(P) = Cardinality(Q)
  BY <1>8, <1>9, FS_Bijection
<1>11. Len(Filter(p, S)) = Cardinality(P)
  BY <1>4, FilterProperties
<1>12. Len(Filter(q, S)) = Cardinality(Q)
  BY FilterProperties
<1>13. QED BY <1>4, <1>10, <1>11, <1>12 DEF p

\* Appending and concatenating.
LEMMA AppendMembers ==
  ASSUME NEW A, NEW q \in Seq(A), NEW w \in A
  PROVE  /\ Append(q, w) \in Seq(A)
         /\ Members(Append(q, w)) = Members(q) \cup {w}
         /\ Distinct(q) /\ w \notin Members(q) => Distinct(Append(q, w))
<1>1. /\ Append(q, w) \in Seq(A) /\ Len(Append(q, w)) = Len(q) + 1 /\ Len(q) \in Nat
      /\ \A i \in 1..Len(q) : Append(q, w)[i] = q[i]
      /\ Append(q, w)[Len(q) + 1] = w
  BY AppendProperties, LenProperties
<1>2. \A i \in 1..(Len(q) + 1) : i \in 1..Len(q) \/ i = Len(q) + 1
  BY <1>1
<1> DEFINE a == Append(q, w)
<1> HIDE DEF a
<1>3. Members(a) = Members(q) \cup {w}
  BY <1>1, <1>2 DEF Members, a
<1>4. Distinct(q) /\ w \notin Members(q) => Distinct(a)
  BY <1>1, <1>2 DEF Members, Distinct, a
<1>5. QED BY <1>1, <1>3, <1>4 DEF a

LEMMA ConcatMembers ==
  ASSUME NEW A, NEW p \in Seq(A), NEW q \in Seq(A)
  PROVE  /\ p \o q \in Seq(A)
         /\ Members(p \o q) = Members(p) \cup Members(q)
         /\ Distinct(p) /\ Distinct(q) /\ Members(p) \cap Members(q) = {} => Distinct(p \o q)
<1> DEFINE c == p \o q
<1>1. /\ c \in Seq(A) /\ Len(c) = Len(p) + Len(q) /\ Len(p) \in Nat /\ Len(q) \in Nat
      /\ \A i \in 1..Len(p) : c[i] = p[i]
      /\ \A i \in 1..Len(q) : c[Len(p) + i] = q[i]
  BY ConcatProperties, LenProperties
<1> HIDE DEF c
<1>2. \A i \in 1..Len(c) :
        \/ i \in 1..Len(p) /\ c[i] = p[i]
        \/ i - Len(p) \in 1..Len(q) /\ c[i] = q[i - Len(p)]
  <2> TAKE i \in 1..Len(c)
  <2>1. CASE i <= Len(p) BY <1>1, <2>1
  <2>2. CASE i > Len(p)
    <3>1. i - Len(p) \in 1..Len(q) /\ i = Len(p) + (i - Len(p))
      BY <1>1, <2>2
    <3>2. QED BY <1>1, <3>1
  <2>3. QED BY <1>1, <2>1, <2>2
<1>3. Members(c) = Members(p) \cup Members(q)
  <2>1. Members(c) \subseteq Members(p) \cup Members(q)
    BY <1>2 DEF Members
  <2>2. Members(p) \subseteq Members(c)
    BY <1>1 DEF Members
  <2>3. ASSUME NEW i \in 1..Len(q) PROVE q[i] \in Members(c)
    <3>1. Len(p) + i \in 1..Len(c) /\ c[Len(p) + i] = q[i]
      BY <1>1
    <3>2. QED BY <3>1 DEF Members
  <2>4. QED BY <2>1, <2>2, <2>3 DEF Members
<1>4. ASSUME Distinct(p), Distinct(q), Members(p) \cap Members(q) = {},
             NEW i \in 1..Len(c), NEW j \in 1..Len(c), c[i] = c[j]
      PROVE  i = j
  <2>1. CASE /\ i \in 1..Len(p) /\ c[i] = p[i]
             /\ j \in 1..Len(p) /\ c[j] = p[j]
    BY <1>4, <2>1 DEF Distinct
  <2>2. CASE /\ i - Len(p) \in 1..Len(q) /\ c[i] = q[i - Len(p)]
             /\ j - Len(p) \in 1..Len(q) /\ c[j] = q[j - Len(p)]
    <3>1. i - Len(p) = j - Len(p)
      BY <1>4, <2>2 DEF Distinct
    <3>2. QED BY <1>1, <3>1
  <2>3. CASE \/ c[i] \in Members(p) /\ c[j] \in Members(q)
             \/ c[i] \in Members(q) /\ c[j] \in Members(p)
    BY <1>4, <2>3
  <2>4. QED BY <1>2, <2>1, <2>2, <2>3 DEF Members
<1>5. QED BY <1>1, <1>3, <1>4 DEF c, Distinct

\* Raising a window moves it to the end and loses no other.
LEMMA RaisedProperties ==
  ASSUME NEW q \in Seq(Window), NEW w \in Window
  PROVE  /\ Raised(q, w) \in Seq(Window)
         /\ Members(Raised(q, w)) = Members(q) \cup {w}
         /\ Distinct(q) => Distinct(Raised(q, w))
<1>1. /\ Without(q, w) \in Seq(Window)
      /\ Members(Without(q, w)) = Members(q) \cap (Window \ {w})
      /\ Distinct(q) => Distinct(Without(q, w))
  BY FilterProperties DEF Without
<1>2. Members(q) \subseteq Window
  BY ElementOfSeq DEF Members
<1>3. QED BY <1>1, <1>2, AppendMembers DEF Raised

\* Inserting a window that is not there.
LEMMA InsertAtProperties ==
  ASSUME NEW A, NEW q \in Seq(A), NEW i \in 1..(Len(q) + 1), NEW w \in A,
         w \notin Members(q), Distinct(q)
  PROVE  /\ InsertAt(q, i, w) \in Seq(A) /\ Distinct(InsertAt(q, i, w))
         /\ Members(InsertAt(q, i, w)) = Members(q) \cup {w}
<1> DEFINE a == SubSeq(q, 1, i - 1)
           b == SubSeq(q, i, Len(q))
<1>1. Len(q) \in Nat /\ i \in Int /\ \A j \in 1..Len(q) : q[j] \in A
  BY LenProperties, ElementOfSeq
<1>2. /\ a \in Seq(A) /\ Len(a) = i - 1
      /\ \A j \in 1..(i - 1) : a[j] = q[j]
  <2>1. \A j \in 1..(i - 1) : q[j] \in A
    BY <1>1
  <2>2. /\ SubSeq(q, 1, i - 1) \in Seq(A)
        /\ Len(SubSeq(q, 1, i - 1)) = IF 1 <= i - 1 THEN i - 1 - 1 + 1 ELSE 0
        /\ \A j \in 1..(i - 1 - 1 + 1) : SubSeq(q, 1, i - 1)[j] = q[1 + j - 1]
    BY <1>1, <2>1, SubSeqProperties
  <2>3. QED BY <1>1, <2>2
<1>3. /\ b \in Seq(A) /\ Len(b) = Len(q) - i + 1
      /\ \A j \in 1..(Len(q) - i + 1) : b[j] = q[i + j - 1]
  <2>1. \A j \in i..Len(q) : q[j] \in A
    BY <1>1
  <2>2. /\ SubSeq(q, i, Len(q)) \in Seq(A)
        /\ Len(SubSeq(q, i, Len(q))) = IF i <= Len(q) THEN Len(q) - i + 1 ELSE 0
        /\ \A j \in 1..(Len(q) - i + 1) : SubSeq(q, i, Len(q))[j] = q[i + j - 1]
    BY <1>1, <2>1, SubSeqProperties
  <2>3. QED BY <1>1, <2>2
<1> HIDE DEF a, b
<1>4. /\ <<w>> \in Seq(A) /\ Members(<<w>>) = {w} /\ Distinct(<<w>>)
  BY DEF Members, Distinct
<1>5. Distinct(a) /\ Distinct(b)
  <2>1. \A j \in 1..(i - 1) : j \in 1..Len(q)
    BY <1>1
  <2>2. \A j \in 1..(Len(q) - i + 1) : i + j - 1 \in 1..Len(q)
    BY <1>1
  <2>3. Distinct(a)
    BY <1>2, <2>1 DEF Distinct
  <2>4. ASSUME NEW j \in 1..Len(b), NEW k \in 1..Len(b), b[j] = b[k]
        PROVE  j = k
    <3>1. /\ j \in 1..(Len(q) - i + 1) /\ k \in 1..(Len(q) - i + 1)
          /\ b[j] = q[i + j - 1] /\ b[k] = q[i + k - 1]
      BY <1>3, <2>4
    <3>2. i + j - 1 \in 1..Len(q) /\ i + k - 1 \in 1..Len(q) /\ q[i + j - 1] = q[i + k - 1]
      BY <2>2, <2>4, <3>1
    <3>3. i + j - 1 = i + k - 1
      BY <3>2 DEF Distinct
    <3>4. QED BY <1>1, <3>3
  <2>5. QED BY <2>3, <2>4 DEF Distinct
<1>6. Members(a) \cup Members(b) = Members(q) /\ Members(a) \cap Members(b) = {}
  <2>1. ASSUME NEW j \in 1..Len(a) PROVE a[j] \in Members(q)
    BY <1>1, <1>2 DEF Members
  <2>2. ASSUME NEW j \in 1..Len(b) PROVE b[j] \in Members(q)
    <3>1. b[j] = q[i + j - 1] /\ i + j - 1 \in 1..Len(q)
      BY <1>1, <1>3
    <3>2. QED BY <3>1 DEF Members
  <2>3. ASSUME NEW j \in 1..Len(q) PROVE q[j] \in Members(a) \cup Members(b)
    <3>1. CASE j < i
      BY <1>1, <1>2, <3>1 DEF Members
    <3>2. CASE j >= i
      <4>1. j - i + 1 \in 1..Len(b) /\ b[j - i + 1] = q[i + (j - i + 1) - 1]
        BY <1>1, <1>3, <3>2
      <4>2. i + (j - i + 1) - 1 = j
        BY <1>1
      <4>3. QED BY <4>1, <4>2 DEF Members
    <3>3. QED BY <1>1, <3>1, <3>2
  <2>4. ASSUME NEW j \in 1..Len(a), NEW k \in 1..Len(b), a[j] = b[k] PROVE FALSE
    <3>1. j \in 1..(i - 1) /\ k \in 1..(Len(q) - i + 1) /\ q[j] = q[i + k - 1]
      BY <1>2, <1>3, <2>4
    <3>2. j \in 1..Len(q) /\ i + k - 1 \in 1..Len(q) /\ j # i + k - 1
      BY <1>1, <3>1
    <3>3. QED BY <3>1, <3>2 DEF Distinct
  <2>5. Members(a) \cap Members(b) = {}
    BY <2>4 DEF Members
  <2>6. Members(a) \cup Members(b) = Members(q)
    <3>1. Members(a) \cup Members(b) \subseteq Members(q)
      BY <2>1, <2>2 DEF Members
    <3>2. Members(q) \subseteq Members(a) \cup Members(b)
      BY <2>3 DEF Members
    <3>3. QED BY <3>1, <3>2
  <2>7. QED BY <2>5, <2>6
<1>7. /\ a \o <<w>> \in Seq(A) /\ Members(a \o <<w>>) = Members(a) \cup {w}
      /\ Distinct(a \o <<w>>)
  <2>1. Members(a) \cap Members(<<w>>) = {}
    BY <1>4, <1>6
  <2> DEFINE c == <<w>>
  <2>2. /\ a \o c \in Seq(A) /\ Members(a \o c) = Members(a) \cup Members(c)
        /\ Distinct(a) /\ Distinct(c) /\ Members(a) \cap Members(c) = {} => Distinct(a \o c)
    <3>1. a \in Seq(A) /\ c \in Seq(A)
      BY <1>2, <1>4
    <3> HIDE DEF c
    <3>2. QED BY <3>1, ConcatMembers
  <2>3. QED BY <1>4, <1>5, <2>1, <2>2
<1>8. /\ (a \o <<w>>) \o b \in Seq(A)
      /\ Members((a \o <<w>>) \o b) = Members(a) \cup {w} \cup Members(b)
      /\ Distinct((a \o <<w>>) \o b)
  <2>1. Members(a \o <<w>>) \cap Members(b) = {}
    BY <1>6, <1>7
  <2> DEFINE c == a \o <<w>>
  <2>2. /\ c \o b \in Seq(A) /\ Members(c \o b) = Members(c) \cup Members(b)
        /\ Distinct(c) /\ Distinct(b) /\ Members(c) \cap Members(b) = {} => Distinct(c \o b)
    <3>1. c \in Seq(A) /\ b \in Seq(A)
      BY <1>3, <1>7
    <3> HIDE DEF c
    <3>2. QED BY <3>1, ConcatMembers
  <2>3. QED BY <1>5, <1>7, <2>1, <2>2
<1>9. InsertAt(q, i, w) = (a \o <<w>>) \o b
  BY DEF InsertAt, a, b
<1>10. QED BY <1>6, <1>8, <1>9

-----------------------------------------------------------------------------
(* What the handlers read and rearrange.                                   *)

\* The windows of an output.
LEMMA ElementsProperties ==
  ASSUME NEW q \in Seq(Window), NEW f, NEW o
  PROVE  /\ Elements(q, f, o) \in Seq(Window)
         /\ Members(Elements(q, f, o)) = {w \in Members(q) : f[w] = o}
         /\ Distinct(q) => Distinct(Elements(q, f, o))
<1>1. Members(q) \subseteq Window
  BY ElementOfSeq DEF Members
<1>2. /\ Elements(q, f, o) \in Seq(Window)
      /\ Members(Elements(q, f, o)) = Members(q) \cap {w \in Window : f[w] = o}
      /\ Distinct(q) => Distinct(Elements(q, f, o))
  BY FilterProperties DEF Elements
<1>3. QED BY <1>1, <1>2

\* A layout plans for windows only.
LEMMA PlannedAreWindows ==
  ASSUME NEW q \in Seq(Window), NEW untiled, NEW wide
  PROVE  Planned(q, untiled, wide) \subseteq Window
<1> DEFINE filling == Filter(q, wide \ untiled)
<1>1. filling \in Seq(Window)
  BY FilterProperties
<1> HIDE DEF filling
<1>2. filling # <<>> => Last(filling) \in Window
  <2>1. filling # <<>> => Len(filling) \in 1..Len(filling)
    BY <1>1, EmptySeq, LenProperties
  <2>2. QED BY <1>1, <2>1, ElementOfSeq DEF Last
<1>3. Range(q) \subseteq Window
  BY ElementOfSeq, LenProperties DEF Range
<1>4. Planned(q, untiled, wide) =
        IF filling # <<>> THEN {Last(filling)} ELSE Range(q) \ untiled
  BY DEF Planned, filling
<1>5. QED BY <1>2, <1>3, <1>4

\* So does a pass over all outputs, and so do those that a drag begins with and that
\* a commit runs before the window moves.
LEMMA ArrangedAreWindows ==
  ASSUME stack \in Seq(Window), stack' \in Seq(Window)
  PROVE  /\ Arranged \subseteq Window
         /\ UNION {Planned(Elements(stack', on, o), Untiled, full) : o \in Output} \subseteq Window
         /\ UNION {Planned(Elements(stack, on, o), Untiled', full) : o \in Output} \subseteq Window
<1>1. ASSUME NEW q \in Seq(Window), NEW f, NEW untiled, NEW wide, NEW o \in Output
      PROVE  Planned(Elements(q, f, o), untiled, wide) \subseteq Window
  BY ElementsProperties, PlannedAreWindows
<1>2. Arranged \subseteq Window
  BY <1>1 DEF Arranged
<1>3. QED BY <1>1, <1>2

\* Dropping a window among the others reorders the space.
LEMMA ReorderedProperties ==
  ASSUME TypeOK, NEW w \in Mapped, NEW k \in 0..Len(Others(w))
  PROVE  /\ Reordered(w, k) \in Seq(Window) /\ Distinct(Reordered(w, k))
         /\ Members(Reordered(w, k)) = Mapped
<1> DEFINE elements == ElementsOn(on[w])
           others == Filter(elements, Orderable \ {w})
           ordered == InsertAt(others, Len(others) - k + 1, w)
           moved == {ordered[i] : i \in 1..Len(ordered)}
           rest == Filter(stack, Window \ moved)
<1>0. stack \in Seq(Window) /\ Distinct(stack) /\ Mapped = Members(stack)
  BY DEF TypeOK, Distinct, Mapped, Members
<1>1. Mapped \subseteq Window
  BY <1>0, ElementOfSeq DEF Members
<1>2. /\ elements \in Seq(Window) /\ Distinct(elements)
      /\ Members(elements) \subseteq Mapped
  BY <1>0, ElementsProperties DEF ElementsOn
<1>3. Len(Others(w)) = Len(others)
  BY <1>2, ReverseCounts DEF Others
<1> HIDE DEF elements
<1>4. /\ others \in Seq(Window) /\ Distinct(others)
      /\ Members(others) = Members(elements) \cap (Orderable \ {w})
  BY <1>2, FilterProperties
<1> HIDE DEF others
<1>5. Len(others) \in Nat /\ Len(others) - k + 1 \in 1..(Len(others) + 1)
  BY <1>3, <1>4, LenProperties
<1>6. /\ ordered \in Seq(Window) /\ Distinct(ordered)
      /\ Members(ordered) = Members(others) \cup {w}
  <2> DEFINE n == Len(others) - k + 1
  <2>1. n \in 1..(Len(others) + 1) /\ w \in Window /\ w \notin Members(others)
    BY <1>1, <1>4, <1>5
  <2> HIDE DEF n
  <2>2. /\ InsertAt(others, n, w) \in Seq(Window) /\ Distinct(InsertAt(others, n, w))
        /\ Members(InsertAt(others, n, w)) = Members(others) \cup {w}
    BY <1>4, <2>1, InsertAtProperties
  <2>3. QED BY <2>2 DEF n
<1>7. moved = Members(ordered)
  BY DEF Members
<1> HIDE DEF ordered
<1>8. moved \subseteq Mapped
  BY <1>2, <1>4, <1>6, <1>7
<1> HIDE DEF moved
<1>9. /\ rest \in Seq(Window) /\ Distinct(rest)
      /\ Members(rest) = Mapped \cap (Window \ moved)
  BY <1>0, FilterProperties
<1> HIDE DEF rest
<1>10. /\ rest \o ordered \in Seq(Window) /\ Distinct(rest \o ordered)
       /\ Members(rest \o ordered) = Mapped
  <2>1. Members(rest) \cap Members(ordered) = {}
    BY <1>7, <1>9
  <2>2. /\ rest \o ordered \in Seq(Window)
        /\ Members(rest \o ordered) = Members(rest) \cup Members(ordered)
        /\ Distinct(rest \o ordered)
    BY <1>6, <1>9, <2>1, ConcatMembers
  <2>3. QED BY <1>1, <1>7, <1>8, <1>9, <2>2
<1>11. Reordered(w, k) = rest \o ordered
  BY DEF Reordered, rest, moved, ordered, others, elements
<1>12. QED BY <1>10, <1>11

\* The index a cycle goes to is one of the list's.
LEMMA NextIndexInside ==
  ASSUME NEW q \in Seq(Window), q # <<>>, NEW i \in 1..Len(q), NEW dir \in {-1, 1}
  PROVE  NextIndex(q, i, dir) \in 1..Len(q)
<1>1. Len(q) \in Nat \ {0}
  BY EmptySeq, LenProperties
<1>2. i - 1 + dir \in Int
  BY <1>1
<1>3. (i - 1 + dir) % Len(q) \in 0..(Len(q) - 1)
  BY <1>1, <1>2
<1>4. QED BY <1>1, <1>3 DEF NextIndex

-----------------------------------------------------------------------------
(* The types.                                                              *)

\* What most proofs need of the state.
LEMMA State ==
  ASSUME TypeOK
  PROVE  /\ stack \in Seq(Window) /\ Distinct(stack) /\ Mapped = Members(stack)
         /\ Mapped \subseteq Window
<1>1. stack \in Seq(Window) /\ Distinct(stack) /\ Mapped = Members(stack)
  BY DEF TypeOK, Distinct, Mapped, Members
<1>2. QED BY <1>1, ElementOfSeq DEF Members

\* What a switch focuses is one of the windows it shows.
LEMMA HeadOnWorkspace ==
  ASSUME TypeOK, NEW o, NEW t, OnWorkspace(o, t) # <<>>
  PROVE  Head(OnWorkspace(o, t)) \in {w \in Mapped : on[w] = o /\ workspace[w] = t}
<1> DEFINE q == OnWorkspace(o, t)
<1>1. /\ ElementsOn(o) \in Seq(Window)
      /\ Members(ElementsOn(o)) = {w \in Mapped : on[w] = o}
  BY State, ElementsProperties DEF ElementsOn
<1>2. /\ q \in Seq(Window)
      /\ Members(q) = {w \in Mapped : on[w] = o} \cap {w \in Window : workspace[w] = t}
  <2>1. /\ Filter(ElementsOn(o), {w \in Window : workspace[w] = t}) \in Seq(Window)
        /\ Members(Filter(ElementsOn(o), {w \in Window : workspace[w] = t})) =
             Members(ElementsOn(o)) \cap {w \in Window : workspace[w] = t}
    BY <1>1, FilterProperties, ZenonT(30)
  <2>2. QED BY <1>1, <2>1 DEF OnWorkspace
<1> HIDE DEF q
<1>3. q # <<>>
  BY DEF q
<1>4. Head(q) = q[1] /\ 1 \in 1..Len(q)
  BY <1>2, <1>3, EmptySeq, LenProperties
<1>5. Head(q) \in Members(q)
  BY <1>4 DEF Members
<1>6. QED BY <1>2, <1>5 DEF q

\* The windows a cycle goes through, and the one it focuses.
LEMMA Cycled ==
  ASSUME TypeOK, NEW o \in Output, FocusNext(o) \/ FocusPrev(o)
  PROVE  /\ Members(Windows(o)) = {w \in Mapped : on[w] = o} \cap Cyclable(o)
         /\ \E w \in Members(Windows(o)) :
              /\ FocusWindow(w)
              /\ \E dir \in {-1, 1} :
                   cycle' \in {NoCycle, [dir |-> dir, seen |-> cycle.seen \cup {w}]}
                             \cup {[dir |-> dir, seen |-> {v, w}] : v \in {focus} \cap Mapped}
<1> DEFINE q == Windows(o)
<1>1. /\ q \in Seq(Window)
      /\ Members(q) = {w \in Mapped : on[w] = o} \cap Cyclable(o)
  <2>1. /\ ElementsOn(o) \in Seq(Window)
        /\ Members(ElementsOn(o)) = {w \in Mapped : on[w] = o}
    BY State, ElementsProperties DEF ElementsOn
  <2>2. /\ Filter(ElementsOn(o), Cyclable(o)) \in Seq(Window)
        /\ Members(Filter(ElementsOn(o), Cyclable(o))) = Members(ElementsOn(o)) \cap Cyclable(o)
    BY <2>1, FilterProperties, ZenonT(30)
  <2>3. QED BY <2>1, <2>2 DEF Windows
<1>2. PICK dir \in {-1, 1} : FocusCycle(o, dir)
  BY DEF FocusNext, FocusPrev
<1> DEFINE at == {i \in 1..Len(q) : q[i] = FocusedWindow}
           here == IF at = {} THEN 1 ELSE CHOOSE i \in at : TRUE
           n == NextIndex(q, here, dir)
<1>3. /\ q # <<>> /\ FocusWindow(q[n])
      /\ cycle' = IF cycle.dir = dir
                    THEN [dir |-> dir, seen |-> cycle.seen \cup {q[n]}]
                    ELSE IF at = {Len(q)} THEN [dir |-> dir, seen |-> {focus, q[n]}]
                    ELSE NoCycle
  BY <1>2 DEF FocusCycle
<1> HIDE DEF q
<1>4. here \in 1..Len(q)
  <2>1. 1 \in 1..Len(q)
    BY <1>1, <1>3, EmptySeq, LenProperties
  <2>2. QED BY <2>1
<1> HIDE DEF here
<1>5. n \in 1..Len(q)
  BY <1>1, <1>3, <1>4, NextIndexInside
<1> HIDE DEF n
<1>6. at = {Len(q)} => focus \in Mapped
  <2>1. ASSUME at = {Len(q)} PROVE q[Len(q)] = FocusedWindow /\ q[Len(q)] \in Members(q)
    BY <2>1 DEF Members
  <2>2. Members(q) \subseteq Window
    BY <1>1, ElementOfSeq DEF Members
  <2>3. QED BY <2>1, <2>2, WorkspacesAssumption DEF FocusedWindow
<1> HIDE DEF at
<1>7. q[n] \in Members(q)
  BY <1>5 DEF Members
<1>8. cycle' \in {NoCycle, [dir |-> dir, seen |-> cycle.seen \cup {q[n]}]}
                   \cup {[dir |-> dir, seen |-> {v, q[n]}] : v \in {focus} \cap Mapped}
  BY <1>3, <1>6
<1>9. QED BY <1>1, <1>3, <1>7, <1>8 DEF q

\* The steps, one by one: what the stack and the mapped windows become.
LEMMA StackAfter ==
  ASSUME TypeOK, [Next]_vars
  PROVE  stack' \in Seq(Window) /\ Distinct(stack') /\ Mapped' = Members(stack')
<1> USE State
<1>0. Mapped' = Members(stack')
  BY DEF Mapped, Members
<1>1. ASSUME NEW w \in Window, NewWindow(w)
      PROVE  stack' \in Seq(Window) /\ Distinct(stack')
  BY <1>1, AppendMembers DEF NewWindow
<1>2. ASSUME NEW w \in Window, Destroyed(w)
      PROVE  stack' \in Seq(Window) /\ Distinct(stack')
  BY <1>2, FilterProperties DEF Destroyed, Without
<1>3. ASSUME NEW w \in Window, stack' = Raised(stack, w)
      PROVE  stack' \in Seq(Window) /\ Distinct(stack')
  BY <1>3, RaisedProperties
<1>4. ASSUME UNCHANGED stack
      PROVE  stack' \in Seq(Window) /\ Distinct(stack')
  BY <1>4
<1>5. ASSUME NEW k \in 0..Cardinality(Window), DragRelease(k)
      PROVE  stack' \in Seq(Window) /\ Distinct(stack')
  <2>1. drag \in Mapped /\ k \in 0..Len(Others(drag)) /\ stack' = Reordered(drag, k)
    BY <1>5 DEF DragRelease
  <2>2. QED BY <2>1, ReorderedProperties
<1>6. CASE WindowStep
  <2>1. PICK w \in Window :
          \/ NewToplevel(w) \/ MapX11(w) \/ Commit(w) \/ Destroyed(w) \/ ClickFocus(w)
          \/ IpcFocusWindow(w) \/ RequestActivation(w) \/ DragStart(w)
          \/ \E o \in Output : MoveElement(w, o)
    BY <1>6 DEF WindowStep
  <2>2. CASE NewToplevel(w) \/ MapX11(w)
    BY <1>0, <1>1, <2>2 DEF NewToplevel, MapX11
  <2>3. CASE Commit(w)
    BY <1>0, <1>4, <2>3 DEF Commit
  <2>7. CASE \E o \in Output : MoveElement(w, o)
    <3>1. stack' = Raised(stack, w)
      BY <2>7 DEF MoveElement, MapElement
    <3>2. QED BY <1>0, <1>3, <3>1
  <2>4. CASE ClickFocus(w) \/ IpcFocusWindow(w) \/ RequestActivation(w)
    BY <1>0, <1>3, <2>4 DEF ClickFocus, FocusWindow, IpcFocusWindow, RequestActivation
  <2>5. CASE DragStart(w)
    BY <1>0, <1>3, <1>4, <2>5 DEF DragStart
  <2>6. QED BY <1>0, <1>2, <2>1, <2>2, <2>3, <2>4, <2>5, <2>7
<1>7. ASSUME NEW o \in Output, NEW t \in Workspace, SwitchWorkspace(o, t)
      PROVE  stack' \in Seq(Window) /\ Distinct(stack')
  <2>1. OnWorkspace(o, t) # <<>> => Head(OnWorkspace(o, t)) \in Window
    BY HeadOnWorkspace
  <2>2. QED BY <1>3, <1>4, <1>7, <2>1 DEF SwitchWorkspace
<1>8. ASSUME NEW o \in Output, FocusNext(o) \/ FocusPrev(o)
      PROVE  stack' \in Seq(Window) /\ Distinct(stack')
  <2>1. PICK w \in Window : FocusWindow(w)
    BY <1>8, Cycled
  <2>2. QED BY <1>3, <2>1 DEF FocusWindow
<1>9. CASE DragStep
  <2>1. ASSUME NEW o \in Output, DragMotion(o)
        PROVE  stack' \in Seq(Window) /\ Distinct(stack')
    BY <1>3, <2>1 DEF DragMotion, MapElement
  <2>2. CASE DragCancelled
    BY <1>0, <1>4, <2>2 DEF DragCancelled
  <2>3. QED BY <1>0, <1>5, <1>9, <2>1, <2>2 DEF DragStep
<1>10. CASE ToggleFloating \/ ToggleMaximize \/ UNCHANGED vars
  BY <1>0, <1>4, <1>10 DEF ToggleFloating, ToggleMaximize, vars
<1>11. QED BY <1>0, <1>6, <1>7, <1>8, <1>9, <1>10 DEF Next, SwitchKey

\* The types hold at first.
LEMMA InitTypes == Init => TypeOK
<1> SUFFICES ASSUME Init PROVE TypeOK
  OBVIOUS
<1>1. stack = <<>> /\ <<>> \in Seq(Window) /\ Len(<<>>) = 0
  BY DEF Init
<1>2. (CHOOSE o \in Output : TRUE) \in Output /\ 0 \in Workspace
  BY WorkspacesAssumption DEF Workspace
<1>3. /\ on \in [Window -> Output] /\ active \in [Output -> Workspace]
      /\ workspace \in [Window -> Workspace]
  BY <1>2 DEF Init
<1>4. Mapped = {}
  BY <1>1 DEF Mapped
<1>5. cycle \in [dir : {-1, 0, 1}, seen : SUBSET Window]
  BY DEF Init, NoCycle
<1>6. QED BY <1>1, <1>3, <1>4, <1>5 DEF Init, TypeOK

\* The mapped windows after a step that maps or forgets one, or only moves some.
LEMMA MappedAfter ==
  ASSUME TypeOK
  PROVE  /\ \A w \in Window : NewWindow(w) => Mapped' = Mapped \cup {w}
         /\ \A w \in Window : Destroyed(w) => Mapped' = Mapped \ {w}
         /\ \A w \in Mapped : stack' = Raised(stack, w) => Mapped' = Mapped
         /\ UNCHANGED stack => Mapped' = Mapped
         /\ \A o \in Output, t \in Workspace : SwitchWorkspace(o, t) => Mapped' = Mapped
         /\ \A k \in 0..Cardinality(Window) : DragRelease(k) => Mapped' = Mapped
         /\ \A o \in Output : FocusNext(o) \/ FocusPrev(o) => Mapped' = Mapped
<1>0. Mapped' = Members(stack')
  BY DEF Mapped, Members
<1>1. ASSUME NEW w \in Window, NewWindow(w) PROVE Mapped' = Mapped \cup {w}
  BY <1>0, <1>1, State, AppendMembers DEF NewWindow
<1>2. ASSUME NEW w \in Window, Destroyed(w) PROVE Mapped' = Mapped \ {w}
  <2>1. Members(Without(stack, w)) = Members(stack) \cap (Window \ {w})
    BY State, FilterProperties DEF Without
  <2>2. QED BY <1>0, <1>2, <2>1, State DEF Destroyed
<1>3. ASSUME NEW w \in Mapped, stack' = Raised(stack, w) PROVE Mapped' = Mapped
  <2>1. w \in Window /\ stack \in Seq(Window) /\ Mapped = Members(stack)
    BY State
  <2>2. Members(Raised(stack, w)) = Mapped \cup {w}
    BY <2>1, RaisedProperties
  <2>3. QED BY <1>0, <1>3, <2>2
<1>4. UNCHANGED stack => Mapped' = Mapped
  BY DEF Mapped
<1>5. ASSUME NEW o \in Output, NEW t \in Workspace, SwitchWorkspace(o, t)
      PROVE  Mapped' = Mapped
  <2>1. CASE OnWorkspace(o, t) = <<>>
    BY <1>4, <1>5, <2>1 DEF SwitchWorkspace
  <2>2. CASE OnWorkspace(o, t) # <<>>
    <3>1. Head(OnWorkspace(o, t)) \in Mapped
      BY <2>2, HeadOnWorkspace
    <3>2. QED BY <1>3, <1>5, <2>2, <3>1 DEF SwitchWorkspace
  <2>3. QED BY <2>1, <2>2
<1>6. ASSUME NEW k \in 0..Cardinality(Window), DragRelease(k) PROVE Mapped' = Mapped
  <2>1. drag \in Mapped /\ k \in 0..Len(Others(drag)) /\ stack' = Reordered(drag, k)
    BY <1>6 DEF DragRelease
  <2>2. QED BY <1>0, <2>1, ReorderedProperties
<1>7. ASSUME NEW o \in Output, FocusNext(o) \/ FocusPrev(o) PROVE Mapped' = Mapped
  <2>1. PICK w \in Mapped : FocusWindow(w)
    BY <1>7, Cycled
  <2>2. QED BY <1>3, <2>1 DEF FocusWindow
<1>8. QED BY <1>1, <1>2, <1>3, <1>4, <1>5, <1>6, <1>7

\* Every step keeps the types.
LEMMA NextTypes == TypeOK /\ [Next]_vars => TypeOK'
<1> SUFFICES ASSUME TypeOK, [Next]_vars PROVE TypeOK'
  OBVIOUS
<1> USE DEF membership, focusing
<1>0. /\ stack' \in Seq(Window)
      /\ \A i, j \in 1..Len(stack') : stack'[i] = stack'[j] => i = j
      /\ Mapped' \subseteq Window /\ Mapped \subseteq Window
  <2>1. stack' \in Seq(Window) /\ Distinct(stack') /\ Mapped' = Members(stack')
    BY StackAfter
  <2>2. Members(stack') \subseteq Window
    BY <2>1, ElementOfSeq DEF Members
  <2>3. QED BY <2>1, <2>2, State DEF Distinct
<1>1. /\ Arranged \subseteq Window
      /\ UNION {Planned(Elements(stack', on, o), Untiled, full) : o \in Output} \subseteq Window
      /\ UNION {Planned(Elements(stack, on, o), Untiled', full) : o \in Output} \subseteq Window
  BY <1>0, State, ArrangedAreWindows
<1>2. NoCycle \in [dir : {-1, 0, 1}, seen : SUBSET Window]
  BY DEF NoCycle
<1>3. ASSUME NEW w \in Window, NewToplevel(w) \/ MapX11(w)
      PROVE  TypeOK'
  <2>1. NewWindow(w) /\ Mapped' = Mapped \cup {w}
    BY <1>3, MappedAfter DEF NewToplevel, MapX11
  <2>2. on' \in [Window -> Output] /\ workspace' \in [Window -> Workspace]
    BY <2>1 DEF NewWindow, Assigned, TypeOK
  <2>3. centering' \subseteq Mapped'
    BY <1>3, <2>1 DEF NewToplevel, MapX11, TypeOK
  <2>4. slotted' \subseteq Window
    BY <1>1, <1>3 DEF NewToplevel, MapX11, ArrangeLayout, TypeOK
  <2>5. QED
    BY <1>0, <1>2, <2>1, <2>2, <2>3, <2>4 DEF NewWindow, FocusOn, TypeOK
<1>4. ASSUME NEW w \in Window, Commit(w)
      PROVE  TypeOK'
  <2>1. Mapped' = Mapped
    BY <1>4, MappedAfter DEF Commit
  <2>2. PICK o \in Output : MovesTo(w, o) /\ cycle' = IF o = on[w] THEN cycle ELSE NoCycle
    BY <1>4 DEF Commit
  <2>3. on' \in [Window -> Output] /\ strayed' \subseteq Mapped'
    BY <1>4, <2>1, <2>2 DEF Commit, MovesTo, TypeOK
  <2>4. QED BY <1>0, <1>1, <1>2, <1>4, <2>1, <2>2, <2>3 DEF Commit, TypeOK
<1>5. ASSUME NEW w \in Window, Destroyed(w)
      PROVE  TypeOK'
  <2>1. Mapped' = Mapped \ {w}
    BY <1>5, MappedAfter
  <2>2. workspace' \in [Window -> Workspace]
    BY <1>5, WorkspacesAssumption DEF Destroyed, TypeOK, Workspace
  <2>3. QED BY <1>0, <1>1, <1>2, <1>5, <2>1, <2>2 DEF Destroyed, ArrangeLayout, TypeOK
<1>6. ASSUME NEW w \in Window, ClickFocus(w) \/ IpcFocusWindow(w) \/ RequestActivation(w)
      PROVE  TypeOK'
  <2>1. w \in Mapped /\ stack' = Raised(stack, w)
    BY <1>6 DEF ClickFocus, FocusWindow, IpcFocusWindow, RequestActivation
  <2>2. Mapped' = Mapped
    BY <2>1, MappedAfter
  <2>3. slotted' \subseteq Window
    BY <1>1, <1>6
       DEF ClickFocus, FocusWindow, IpcFocusWindow, RequestActivation, ArrangeLayout, TypeOK
  <2>4. QED
    BY <1>0, <1>2, <1>6, <2>2, <2>3
       DEF ClickFocus, FocusWindow, IpcFocusWindow, RequestActivation, TypeOK
<1>7. ASSUME NEW w \in Window, DragStart(w)
      PROVE  TypeOK'
  <2>1. Mapped' = Mapped
    <3>1. CASE w \in hidden
      BY <1>7, <3>1, MappedAfter DEF DragStart
    <3>2. CASE w \notin hidden
      BY <1>7, <3>2, MappedAfter DEF DragStart
    <3>3. QED BY <3>1, <3>2
  <2>2. slotted' \subseteq Window
    BY <1>1, <1>7 DEF DragStart, TypeOK
  <2>3. focus' \in Window \cup {NoWindow} /\ forced' \in Window \cup {NoWindow}
    BY <1>7 DEF DragStart, FocusOn, TypeOK
  <2>4. cycle' \in [dir : {-1, 0, 1}, seen : SUBSET Window]
    BY <1>2, <1>7 DEF DragStart, FocusOn, TypeOK
  <2>5. QED BY <1>0, <1>7, <2>1, <2>2, <2>3, <2>4 DEF DragStart, TypeOK
<1>8. ASSUME NEW o \in Output, NEW t \in Workspace, SwitchWorkspace(o, t)
      PROVE  TypeOK'
  <2>1. Mapped' = Mapped
    BY <1>8, MappedAfter
  <2>2. active' \in [Output -> Workspace]
    BY <1>8 DEF SwitchWorkspace, TypeOK
  <2>3. focus' \in Window \cup {NoWindow}
    BY <1>0, <1>8, HeadOnWorkspace DEF SwitchWorkspace, FocusAfterSwitch
  <2>4. forced' \in Window \cup {NoWindow}
    BY <1>8 DEF SwitchWorkspace, TypeOK
  <2>5. hidden' \subseteq Mapped' /\ slotted' \subseteq Window
    BY <1>1, <1>8, <2>1 DEF SwitchWorkspace, ArrangeLayout, TypeOK
  <2>6. QED
    BY <1>0, <1>2, <1>8, <2>1, <2>2, <2>3, <2>4, <2>5 DEF SwitchWorkspace, TypeOK
<1>9. ASSUME NEW o \in Output, FocusNext(o) \/ FocusPrev(o)
      PROVE  TypeOK'
  <2>1. Mapped' = Mapped
    BY <1>9, MappedAfter
  <2>2. PICK w \in Members(Windows(o)) :
          /\ FocusWindow(w)
          /\ \E dir \in {-1, 1} :
               cycle' \in {NoCycle, [dir |-> dir, seen |-> cycle.seen \cup {w}]}
                         \cup {[dir |-> dir, seen |-> {v, w}] : v \in {focus} \cap Mapped}
    BY <1>9, Cycled
  <2>3. w \in Mapped /\ w \in Window
    BY <1>0, <1>9, Cycled
  <2>4. cycle.seen \in SUBSET Window
    BY DEF TypeOK
  <2>5. cycle' \in [dir : {-1, 0, 1}, seen : SUBSET Window]
    BY <1>0, <1>2, <2>2, <2>3, <2>4
  <2>6. slotted' \subseteq Window
    BY <1>1, <2>2 DEF FocusWindow, ArrangeLayout, TypeOK
  <2>7. QED BY <1>0, <2>1, <2>2, <2>3, <2>5, <2>6 DEF FocusWindow, TypeOK
<1>10. CASE ToggleFloating \/ ToggleMaximize
  <2>1. Mapped' = Mapped
    BY <1>10, MappedAfter DEF ToggleFloating, ToggleMaximize
  <2>2. floating' \subseteq Window
    BY <1>10 DEF ToggleFloating, ToggleMaximize, TypeOK
  <2>3. full' \subseteq Mapped'
    BY <1>10, <2>1, WorkspacesAssumption
       DEF ToggleFloating, ToggleMaximize, FocusedWindow, TypeOK
  <2>4. slotted' \subseteq Window
    BY <1>1, <1>10 DEF ToggleFloating, ToggleMaximize, ArrangeLayout, TypeOK
  <2>5. QED
    BY <1>0, <1>2, <1>10, <2>1, <2>2, <2>3, <2>4 DEF ToggleFloating, ToggleMaximize, TypeOK
<1>11. ASSUME NEW w \in Mapped, NEW o \in Output, MapElement(w, o)
       PROVE  TypeOK'
  <2>1. Mapped' = Mapped
    BY <1>11, MappedAfter DEF MapElement
  <2>2. on' \in [Window -> Output] /\ strayed' \subseteq Mapped'
    BY <1>11, <2>1 DEF MapElement, MovesTo, TypeOK
  <2>3. QED BY <1>0, <1>2, <1>11, <2>1, <2>2 DEF MapElement, TypeOK
<1>12. ASSUME NEW k \in 0..Cardinality(Window), DragRelease(k)
       PROVE  TypeOK'
  <2>1. Mapped' = Mapped
    BY <1>12, MappedAfter
  <2>2. QED BY <1>0, <1>1, <1>2, <1>12, <2>1 DEF DragRelease, TypeOK
<1>13. CASE DragCancelled
  <2>1. Mapped' = Mapped
    BY <1>13, MappedAfter DEF DragCancelled
  <2>2. QED BY <1>0, <1>2, <1>13, <2>1 DEF DragCancelled, TypeOK
<1>14. CASE UNCHANGED vars
  <2>1. Mapped' = Mapped
    BY <1>14, MappedAfter DEF vars
  <2>2. QED BY <1>0, <1>14, <2>1 DEF vars, TypeOK
<1>15. QED
  BY <1>3, <1>4, <1>5, <1>6, <1>7, <1>8, <1>9, <1>10, <1>11, <1>12, <1>13, <1>14
     DEF Next, WindowStep, SwitchKey, DragStep, DragMotion, MoveElement

\* Every variable keeps its type, and no window is in the space twice.
THEOREM TypesHold == Spec => []TypeOK
<1>1. QED BY InitTypes, NextTypes, PTL DEF Spec

-----------------------------------------------------------------------------
(* Hidden windows.                                                         *)

\* A step that leaves the windows on their outputs and workspaces, and hidden or
\* not, keeps the tie between the two.
LEMMA HiddenKept ==
  ASSUME HiddenMatchesWorkspace, UNCHANGED <<on, active, workspace, hidden>>,
         Mapped' \subseteq Mapped, strayed \subseteq strayed'
  PROVE  HiddenMatchesWorkspace'
BY DEF HiddenMatchesWorkspace

\* HiddenMatchesWorkspace is inductive on top of the types.  Two steps matter: a
\* switch decides anew about every window of its output and about no other, and a
\* move to another output is the one way to change `on` without deciding.
LEMMA NextHidden == TypeOK /\ HiddenMatchesWorkspace /\ [Next]_vars => HiddenMatchesWorkspace'
<1> SUFFICES ASSUME TypeOK, HiddenMatchesWorkspace, [Next]_vars
             PROVE  HiddenMatchesWorkspace'
  OBVIOUS
<1> USE DEF membership, focusing
<1>0. Mapped \subseteq Window
  BY State
<1>1. ASSUME NEW w \in Window, NewToplevel(w) \/ MapX11(w)
      PROVE  HiddenMatchesWorkspace'
  <2>1. NewWindow(w) /\ Mapped' = Mapped \cup {w}
    BY <1>1, MappedAfter DEF NewToplevel, MapX11
  <2>2. PICK o \in Output : on' = [on EXCEPT ![w] = o] /\ Assigned(w, o)
    BY <2>1 DEF NewWindow
  <2>3. /\ on'[w] = o /\ workspace'[w] = active[o] /\ active' = active
        /\ w \notin hidden' /\ strayed' = strayed
    BY <2>1, <2>2 DEF NewWindow, Assigned, TypeOK
  <2>4. \A v \in Mapped \ {w} :
          on'[v] = on[v] /\ workspace'[v] = workspace[v] /\ (v \in hidden' <=> v \in hidden)
    BY <1>0, <2>1, <2>2 DEF NewWindow, Assigned, TypeOK
  <2>5. QED BY <2>1, <2>3, <2>4 DEF HiddenMatchesWorkspace
<1>2. ASSUME NEW w \in Window, Destroyed(w)
      PROVE  HiddenMatchesWorkspace'
  <2>1. Mapped' = Mapped \ {w}
    BY <1>2, MappedAfter
  <2>2. \A v \in Mapped' :
          on'[v] = on[v] /\ workspace'[v] = workspace[v] /\ (v \in hidden' <=> v \in hidden)
    BY <1>0, <1>2, <2>1 DEF Destroyed, TypeOK
  <2>3. active' = active /\ strayed' = strayed \ {w}
    BY <1>2 DEF Destroyed
  <2>4. QED BY <2>1, <2>2, <2>3 DEF HiddenMatchesWorkspace
<1>3. ASSUME NEW w \in Window,
             ClickFocus(w) \/ IpcFocusWindow(w) \/ RequestActivation(w)
      PROVE  HiddenMatchesWorkspace'
  <2>1. UNCHANGED <<on, active, workspace, hidden, strayed>>
    BY <1>3 DEF ClickFocus, FocusWindow, IpcFocusWindow, RequestActivation
  <2>2. Mapped' = Mapped
    BY <1>3, MappedAfter
       DEF ClickFocus, FocusWindow, IpcFocusWindow, RequestActivation
  <2>3. QED BY <2>1, <2>2, HiddenKept
<1>4. ASSUME NEW w \in Window, DragStart(w)
      PROVE  HiddenMatchesWorkspace'
  <2>1. Mapped' = Mapped
    <3>1. CASE w \in hidden
      BY <1>4, <3>1, MappedAfter DEF DragStart
    <3>2. CASE w \notin hidden
      BY <1>4, <3>2, MappedAfter DEF DragStart
    <3>3. QED BY <3>1, <3>2
  <2>2. QED BY <1>4, <2>1, HiddenKept DEF DragStart
<1>5. ASSUME NEW o \in Output, NEW t \in Workspace, SwitchWorkspace(o, t)
      PROVE  HiddenMatchesWorkspace'
  <2>1. /\ Mapped' = Mapped /\ UNCHANGED <<on, workspace>>
        /\ active' = [active EXCEPT ![o] = t]
        /\ hidden' = (hidden \ {w \in Mapped : on[w] = o})
                       \cup {w \in {v \in Mapped : on[v] = o} : workspace[w] # t}
        /\ strayed' = strayed \ {w \in Mapped : on[w] = o}
    BY <1>5, MappedAfter DEF SwitchWorkspace
  <2>2. ASSUME NEW w \in Mapped, on[w] = o
        PROVE  w \in hidden' <=> workspace'[w] # active'[on'[w]]
    BY <1>0, <2>1, <2>2 DEF TypeOK
  <2>3. ASSUME NEW w \in Mapped \ strayed, on[w] # o
        PROVE  w \in hidden' <=> workspace'[w] # active'[on'[w]]
    BY <1>0, <2>1, <2>3 DEF HiddenMatchesWorkspace, TypeOK
  <2>4. QED BY <2>1, <2>2, <2>3 DEF HiddenMatchesWorkspace
<1>6. ASSUME NEW o \in Output, FocusNext(o) \/ FocusPrev(o)
      PROVE  HiddenMatchesWorkspace'
  <2>1. PICK w : FocusWindow(w)
    BY <1>6, Cycled
  <2>2. QED BY <1>6, <2>1, MappedAfter, HiddenKept DEF FocusWindow
<1>7. CASE ToggleFloating \/ ToggleMaximize
  BY <1>7, MappedAfter, HiddenKept DEF ToggleFloating, ToggleMaximize
<1>8. ASSUME NEW w \in Window, NEW o \in Output,
             \/ Commit(w) /\ MovesTo(w, o)
             \/ w \in Mapped /\ MapElement(w, o)
      PROVE  HiddenMatchesWorkspace'
  <2>1. MovesTo(w, o) /\ Mapped' = Mapped /\ UNCHANGED <<active, workspace, hidden>>
    BY <1>8, MappedAfter DEF Commit, MapElement
  <2>2. \A v \in Mapped \ strayed' : on'[v] = on[v] /\ v \notin strayed
    BY <1>0, <2>1 DEF MovesTo, TypeOK
  <2>3. QED BY <2>1, <2>2 DEF HiddenMatchesWorkspace
<1>9. ASSUME NEW k \in 0..Cardinality(Window), DragRelease(k)
      PROVE  HiddenMatchesWorkspace'
  BY <1>9, MappedAfter, HiddenKept DEF DragRelease
<1>10. CASE DragCancelled \/ UNCHANGED vars
  BY <1>10, MappedAfter, HiddenKept DEF DragCancelled, vars
<1>11. ASSUME NEW w \in Window, Commit(w)
       PROVE  \E o \in Output : MovesTo(w, o)
  BY <1>11 DEF Commit
<1>12. QED
  BY <1>0, <1>1, <1>2, <1>3, <1>4, <1>5, <1>6, <1>7, <1>8, <1>9, <1>10, <1>11
     DEF Next, WindowStep, SwitchKey, DragStep, DragMotion, MoveElement

\* A window is hidden exactly when its workspace is not the active one of its
\* output, whatever raises, focuses, drags, floats or closes windows between two
\* switches (state.rs:1507-1561).
THEOREM HiddenHolds == Spec => []HiddenMatchesWorkspace
<1>1. Init => HiddenMatchesWorkspace
  <2> SUFFICES ASSUME Init PROVE HiddenMatchesWorkspace
    OBVIOUS
  <2>1. stack = <<>>
    BY DEF Init
  <2>2. Mapped = {}
    BY <2>1 DEF Mapped
  <2>3. QED BY <2>2 DEF HiddenMatchesWorkspace
<1>2. QED BY <1>1, InitTypes, NextTypes, NextHidden, PTL DEF Spec

-----------------------------------------------------------------------------
(* The keyboard focus.                                                     *)

\* A step that moves no focus, and hides and maps nothing, keeps it visible.
LEMMA FocusKept ==
  ASSUME FocusVisible, UNCHANGED <<focus, forced>>, Mapped' \subseteq Mapped,
         hidden' \subseteq hidden
  PROVE  FocusVisible'
BY DEF FocusVisible

\* Every step keeps the focus where it can be seen.  A dead window keeps the focus,
\* which does no harm: were it mapped again, it would come up focused and visible.
LEMMA NextFocus == TypeOK /\ FocusVisible /\ [Next]_vars => FocusVisible'
<1> SUFFICES ASSUME TypeOK, FocusVisible, [Next]_vars PROVE FocusVisible'
  OBVIOUS
<1> USE DEF membership, focusing
<1>0. Mapped \subseteq Window /\ NoWindow \notin Mapped
  BY State, WorkspacesAssumption
<1>1. ASSUME NEW w \in Window, NewToplevel(w) \/ MapX11(w)
      PROVE  FocusVisible'
  BY <1>1 DEF NewToplevel, MapX11, NewWindow, FocusOn, FocusVisible
<1>2. ASSUME NEW w \in Window, Destroyed(w)
      PROVE  FocusVisible'
  BY <1>2, MappedAfter, FocusKept DEF Destroyed
<1>3. ASSUME NEW w \in Window, Commit(w) \/ RequestActivation(w)
      PROVE  FocusVisible'
  BY <1>3, MappedAfter, FocusKept DEF Commit, RequestActivation
<1>4. ASSUME NEW w \in Window, ClickFocus(w) \/ IpcFocusWindow(w)
      PROVE  FocusVisible'
  BY <1>4 DEF ClickFocus, FocusWindow, IpcFocusWindow, FocusVisible
<1>5. ASSUME NEW w \in Window, DragStart(w)
      PROVE  FocusVisible'
  <2>1. CASE w \in hidden
    BY <1>5, <2>1, MappedAfter, FocusKept DEF DragStart
  <2>2. CASE w \notin hidden
    BY <1>5, <2>2 DEF DragStart, FocusOn, FocusVisible
  <2>3. QED BY <2>1, <2>2
<1>6. ASSUME NEW o \in Output, NEW t \in Workspace, SwitchWorkspace(o, t)
      PROVE  FocusVisible'
  <2>1. Mapped' = Mapped
    BY <1>6, MappedAfter
  <2>2. CASE OnWorkspace(o, t) = <<>>
    <3>1. focus' = NoWindow
      BY <1>6, <2>2 DEF SwitchWorkspace, FocusAfterSwitch
    <3>2. QED BY <1>0, <2>1, <3>1 DEF FocusVisible
  <2>3. CASE OnWorkspace(o, t) # <<>>
    <3>1. focus' \in {w \in Mapped : on[w] = o /\ workspace[w] = t}
      BY <1>6, <2>3, HeadOnWorkspace DEF SwitchWorkspace, FocusAfterSwitch
    <3>2. focus' \notin hidden'
      BY <1>6, <3>1 DEF SwitchWorkspace
    <3>3. QED BY <3>2 DEF FocusVisible
  <2>4. QED BY <2>2, <2>3
<1>7. ASSUME NEW o \in Output, FocusNext(o) \/ FocusPrev(o)
      PROVE  FocusVisible'
  <2>1. PICK w \in Members(Windows(o)) : FocusWindow(w)
    BY <1>7, Cycled
  <2>2. w \notin hidden
    BY <1>7, Cycled DEF Cyclable, Orderable
  <2>3. QED BY <2>1, <2>2 DEF FocusWindow, FocusVisible
<1>8. CASE ToggleFloating \/ ToggleMaximize
  BY <1>8, MappedAfter, FocusKept DEF ToggleFloating, ToggleMaximize
<1>9. ASSUME NEW w \in Mapped, NEW o \in Output, MapElement(w, o)
      PROVE  FocusVisible'
  BY <1>9, MappedAfter, FocusKept DEF MapElement
<1>10. ASSUME NEW k \in 0..Cardinality(Window), DragRelease(k)
       PROVE  FocusVisible'
  BY <1>10, MappedAfter, FocusKept DEF DragRelease
<1>11. CASE DragCancelled \/ UNCHANGED vars
  BY <1>11, MappedAfter, FocusKept DEF DragCancelled, vars
<1>12. QED
  BY <1>1, <1>2, <1>3, <1>4, <1>5, <1>6, <1>7, <1>8, <1>9, <1>10, <1>11
     DEF Next, WindowStep, SwitchKey, DragStep, DragMotion, MoveElement

\* Keys never go to a mapped window nobody can see, unless the IPC socket focused
\* it (state.rs:1507-1604, input_handler.rs:485).
THEOREM FocusHolds == Spec => []FocusVisible
<1>1. Init => FocusVisible
  <2> SUFFICES ASSUME Init PROVE FocusVisible
    OBVIOUS
  <2>1. hidden = {}
    BY DEF Init
  <2>2. QED BY <2>1 DEF FocusVisible
<1>2. QED BY <1>1, InitTypes, NextTypes, NextFocus, PTL DEF Spec

-----------------------------------------------------------------------------
(* The focus cycle.                                                        *)

\* f lists windows of q in the order they have there.
InOrder(f, q) ==
  \A n, m \in 1..Len(f) : \A i, j \in 1..Len(q) :
    n < m /\ q[i] = f[n] /\ q[j] = f[m] => i < j

\* Filtering keeps the order.
LEMMA FilterInOrder ==
  ASSUME NEW A, NEW q \in Seq(A), NEW S, Distinct(q)
  PROVE  InOrder(Filter(q, S), q)
<1>1. PICK e, N : Enumerates(Filter(q, S), e, N, q, S)
  BY FilterEnumerates, Zenon
<1> DEFINE f == Filter(q, S)
<1>2. f \in Seq(A) /\ f = [n \in 1..N |-> q[e[n]]] /\ N \in Nat
  BY <1>1, FilterProperties DEF Enumerates
<1> HIDE DEF f
<1>3. Len(f) = N
  BY <1>2
<1>4. ASSUME NEW n \in 1..Len(f), NEW m \in 1..Len(f), NEW a \in 1..Len(q), NEW b \in 1..Len(q),
             n < m, q[a] = f[n], q[b] = f[m]
      PROVE  a < b
  <2>1. e[n] \in 1..Len(q) /\ e[m] \in 1..Len(q) /\ e[n] < e[m]
    BY <1>1, <1>3, <1>4 DEF Enumerates
  <2>2. f[n] = q[e[n]] /\ f[m] = q[e[m]]
    BY <1>2, <1>3
  <2>3. a = e[n] /\ b = e[m]
    BY <1>4, <2>1, <2>2 DEF Distinct
  <2>4. QED BY <2>1, <2>3
<1>5. QED BY <1>4 DEF InOrder, f

\* The windows that a cycle on an output goes through.
Cycling(o) == {w \in Mapped : on[w] = o} \cap Cyclable(o)

\* The list of the cycle has each of them once, as they are stacked.
LEMMA WindowsInOrder ==
  ASSUME TypeOK, NEW o
  PROVE  /\ Windows(o) \in Seq(Window) /\ Distinct(Windows(o))
         /\ Members(Windows(o)) = Cycling(o)
         /\ InOrder(Windows(o), stack)
<1> DEFINE p == ElementsOn(o)
           q == Windows(o)
<1>1. /\ p \in Seq(Window) /\ Members(p) = {w \in Mapped : on[w] = o} /\ Distinct(p)
      /\ InOrder(p, stack)
  <2>1. stack \in Seq(Window) /\ Distinct(stack) /\ Members(stack) = Mapped
    BY State
  <2>2. p \in Seq(Window) /\ Members(p) = {w \in Mapped : on[w] = o} /\ Distinct(p)
    <3>1. /\ Elements(stack, on, o) \in Seq(Window)
          /\ Members(Elements(stack, on, o)) = {w \in Members(stack) : on[w] = o}
          /\ Distinct(Elements(stack, on, o))
      BY <2>1, ElementsProperties
    <3>2. QED BY <2>1, <3>1 DEF ElementsOn
  <2>3. InOrder(Filter(stack, {w \in Window : on[w] = o}), stack)
    BY <2>1, FilterInOrder, Zenon
  <2>4. QED BY <2>2, <2>3 DEF ElementsOn, Elements
<1> HIDE DEF p
<1>2. /\ q \in Seq(Window) /\ Members(q) = Members(p) \cap Cyclable(o) /\ Distinct(q)
      /\ InOrder(q, p)
  BY <1>1, FilterProperties, FilterInOrder DEF Windows, p
<1> HIDE DEF q
<1>3. ASSUME NEW n \in 1..Len(q), NEW m \in 1..Len(q),
             NEW i \in 1..Len(stack), NEW j \in 1..Len(stack),
             n < m, stack[i] = q[n], stack[j] = q[m]
      PROVE  i < j
  <2>1. q[n] \in Members(p) /\ q[m] \in Members(p)
    BY <1>2 DEF Members
  <2>2. PICK a \in 1..Len(p), b \in 1..Len(p) : p[a] = q[n] /\ p[b] = q[m]
    BY <2>1 DEF Members
  <2>3. a < b
    BY <1>2, <1>3, <2>2 DEF InOrder
  <2>4. QED BY <1>1, <1>3, <2>2, <2>3 DEF InOrder
<1>4. QED BY <1>1, <1>2, <1>3 DEF InOrder, Cycling, q

\* Raising a window puts it last and keeps the order of the others.
LEMMA RaisedOrder ==
  ASSUME NEW q \in Seq(Window), Distinct(q), NEW w \in Members(q), NEW r, r = Raised(q, w),
         NEW i \in 1..Len(r), NEW j \in 1..Len(r), i < j
  PROVE  /\ r[i] # w /\ r[i] \in Members(q) /\ r[j] \in Members(q)
         /\ \A a, b \in 1..Len(q) : r[j] # w /\ q[a] = r[i] /\ q[b] = r[j] => a < b
<1> DEFINE f == Without(q, w)
<1>1. /\ f \in Seq(Window) /\ Members(f) = Members(q) \cap (Window \ {w}) /\ InOrder(f, q)
  BY FilterProperties, FilterInOrder DEF Without
<1>2. r = Append(f, w) /\ w \in Window
  BY ElementOfSeq DEF Raised, Members
<1> HIDE DEF f
<1>3. /\ Len(r) = Len(f) + 1 /\ Len(f) \in Nat /\ r[Len(f) + 1] = w
      /\ \A n \in 1..Len(f) : r[n] = f[n]
  BY <1>1, <1>2, AppendProperties, LenProperties
<1>4. i \in 1..Len(f) /\ r[i] = f[i] /\ r[i] \in Members(f)
  BY <1>3 DEF Members
<1>5. r[j] = w \/ (j \in 1..Len(f) /\ r[j] = f[j] /\ r[j] \in Members(f))
  BY <1>3 DEF Members
<1>6. \A a, b \in 1..Len(q) : r[j] # w /\ q[a] = r[i] /\ q[b] = r[j] => a < b
  BY <1>1, <1>4, <1>5 DEF InOrder
<1>7. QED BY <1>1, <1>4, <1>5, <1>6

\* In a run of "focus next" the focused window is the topmost of those the cycle
\* goes through, and the ones it has visited lie above the others.  So the first of
\* the list, which is the next, is new as long as there is a new one.
CycleInv ==
  cycle.dir = 1 =>
    /\ focus \in Cycling(on[focus])
    /\ \A i, j \in 1..Len(stack) :
         i < j /\ stack[i] \in Cycling(on[focus]) /\ stack[j] \in Cycling(on[focus]) =>
           stack[i] # focus /\ (stack[i] \in cycle.seen => stack[j] \in cycle.seen)

\* The window that "focus next" focuses from the topmost is the lowest.
LEMMA NextFromTop ==
  ASSUME TypeOK, NEW o \in Output, FocusNext(o), focus \in Cycling(o),
         \A i, j \in 1..Len(stack) :
           i < j /\ stack[i] \in Cycling(o) /\ stack[j] \in Cycling(o) => stack[i] # focus
  PROVE  \E w \in Cycling(o) :
           /\ FocusWindow(w)
           /\ cycle' = IF cycle.dir = 1 THEN [dir |-> 1, seen |-> cycle.seen \cup {w}]
                       ELSE [dir |-> 1, seen |-> {focus, w}]
           /\ \A i, j \in 1..Len(stack) : stack[i] = w /\ stack[j] \in Cycling(o) => i <= j
<1> DEFINE q == Windows(o)
           at == {i \in 1..Len(q) : q[i] = FocusedWindow}
           here == IF at = {} THEN 1 ELSE CHOOSE i \in at : TRUE
           n == NextIndex(q, here, 1)
<1>1. /\ q # <<>> /\ FocusWindow(q[n])
      /\ cycle' = IF cycle.dir = 1
                    THEN [dir |-> 1, seen |-> cycle.seen \cup {q[n]}]
                    ELSE IF at = {Len(q)} THEN [dir |-> 1, seen |-> {focus, q[n]}]
                    ELSE NoCycle
  BY DEF FocusNext, FocusCycle
<1>2. /\ q \in Seq(Window) /\ Distinct(q) /\ Members(q) = Cycling(o) /\ InOrder(q, stack)
  BY WindowsInOrder
<1>3. FocusedWindow = focus
  BY DEF FocusedWindow, Cycling
<1> HIDE DEF q
<1>4. Len(q) \in Nat \ {0} /\ Len(stack) \in Nat
  BY <1>1, <1>2, EmptySeq, LenProperties, State
<1>5. ASSUME NEW k \in 1..Len(q)
      PROVE  \E i \in 1..Len(stack) : stack[i] = q[k]
  <2>1. q[k] \in Mapped
    BY <1>2 DEF Members, Cycling
  <2>2. QED BY <2>1 DEF Mapped
<1>6. PICK k \in 1..Len(q) : q[k] = focus
  BY <1>2 DEF Members
<1>7. k = Len(q)
  <2>1. SUFFICES ASSUME k # Len(q) PROVE FALSE
    OBVIOUS
  <2>2. Len(q) \in 1..Len(q) /\ k < Len(q)
    BY <1>4, <2>1
  <2>3. PICK i \in 1..Len(stack), j \in 1..Len(stack) : stack[i] = q[k] /\ stack[j] = q[Len(q)]
    BY <1>5, <2>2
  <2>4. i < j
    BY <1>2, <2>2, <2>3 DEF InOrder
  <2>5. q[k] \in Cycling(o) /\ q[Len(q)] \in Cycling(o)
    BY <1>2, <2>2 DEF Members
  <2>6. QED BY <1>6, <2>3, <2>4, <2>5
<1>8. at = {Len(q)}
  BY <1>2, <1>3, <1>6, <1>7 DEF Distinct
<1> HIDE DEF at
<1>9. here = Len(q)
  BY <1>8
<1>10. n = 1
  <2>1. NextIndex(q, Len(q), 1) = 1
    BY <1>4 DEF NextIndex
  <2>2. QED BY <1>9, <2>1
<1> HIDE DEF n
<1>11. q[1] \in Cycling(o)
  BY <1>2, <1>4 DEF Members
<1>12. ASSUME NEW i \in 1..Len(stack), NEW j \in 1..Len(stack),
              stack[i] = q[1], stack[j] \in Cycling(o)
       PROVE  i <= j
  <2>1. PICK m \in 1..Len(q) : q[m] = stack[j]
    BY <1>2, <1>12 DEF Members
  <2>2. CASE m = 1
    BY <1>12, <2>1, <2>2, State DEF Distinct
  <2>3. CASE m # 1
    <3>1. 1 \in 1..Len(q) /\ 1 < m
      BY <1>4, <2>3
    <3>2. i < j
      BY <1>2, <1>12, <2>1, <3>1 DEF InOrder
    <3>3. QED BY <1>4, <3>2
  <2>4. QED BY <2>2, <2>3
<1>13. QED BY <1>1, <1>8, <1>10, <1>11, <1>12

\* A run of "focus next" goes on, or begins, with its invariant.
LEMMA NextKeepsCycle ==
  ASSUME TypeOK, CycleInv, NEW o \in Output, FocusNext(o)
  PROVE  CycleInv'
<1> SUFFICES ASSUME cycle'.dir = 1 PROVE CycleInv'
  BY DEF CycleInv
<1>1. focus \in Cycling(o) /\
      \A i, j \in 1..Len(stack) :
        i < j /\ stack[i] \in Cycling(o) /\ stack[j] \in Cycling(o) =>
          /\ stack[i] # focus
          /\ cycle.dir = 1 /\ stack[i] \in cycle.seen => stack[j] \in cycle.seen
  <2>1. CASE cycle.dir = 1
    <3>1. focus \in Cycling(on[focus]) /\ focus \in Mapped
      BY <2>1 DEF CycleInv, Cycling
    <3>2. on[focus] = o
      BY <3>1, State, WorkspacesAssumption
         DEF FocusNext, FocusCycle, FocusedOutput, FocusedWindow
    <3>3. QED BY <2>1, <3>1, <3>2 DEF CycleInv
  <2>2. CASE cycle.dir # 1
    <3> DEFINE q == Windows(o)
    <3>1. {i \in 1..Len(q) : q[i] = FocusedWindow} = {Len(q)}
      BY <2>2 DEF FocusNext, FocusCycle, NoCycle
    <3>2. /\ q \in Seq(Window) /\ Distinct(q) /\ Members(q) = Cycling(o) /\ InOrder(q, stack)
      BY WindowsInOrder
    <3> HIDE DEF q
    <3>3. Len(q) \in 1..Len(q) /\ q[Len(q)] = FocusedWindow
      BY <3>1
    <3>4. q[Len(q)] \in Cycling(o) /\ q[Len(q)] \in Mapped
      BY <3>2, <3>3 DEF Members, Cycling
    <3>5. q[Len(q)] = focus
      BY <3>3, <3>4, State, WorkspacesAssumption DEF FocusedWindow
    <3>6. ASSUME NEW i \in 1..Len(stack), NEW j \in 1..Len(stack), i < j,
                 stack[i] = focus, stack[j] \in Cycling(o)
          PROVE  FALSE
      <4>1. PICK m \in 1..Len(q) : q[m] = stack[j]
        BY <3>2, <3>6 DEF Members
      <4>2. Len(q) \in Nat /\ Len(stack) \in Nat
        BY <3>2, LenProperties, State
      <4>3. CASE m = Len(q)
        <5>1. i = j
          BY <3>5, <3>6, <4>1, <4>3, State DEF Distinct
        <5>2. QED BY <3>6, <4>2, <5>1
      <4>4. CASE m # Len(q)
        <5>1. m < Len(q)
          BY <4>2, <4>4
        <5>2. j < i
          BY <3>2, <3>3, <3>5, <3>6, <4>1, <5>1 DEF InOrder
        <5>3. QED BY <3>6, <4>2, <5>2
      <4>5. QED BY <4>3, <4>4
    <3>7. QED BY <2>2, <3>4, <3>5, <3>6
  <2>3. QED BY <2>1, <2>2
<1>2. PICK w \in Cycling(o) :
        /\ FocusWindow(w)
        /\ cycle' = IF cycle.dir = 1 THEN [dir |-> 1, seen |-> cycle.seen \cup {w}]
                    ELSE [dir |-> 1, seen |-> {focus, w}]
  BY <1>1, NextFromTop
<1>3. /\ focus' = w /\ stack' = Raised(stack, w) /\ Mapped' = Mapped
      /\ UNCHANGED <<on, active, workspace, hidden, floating>>
  BY <1>2, MappedAfter DEF FocusWindow, membership
<1>4. on'[focus'] = o /\ Cycling(o)' = Cycling(o)
  BY <1>2, <1>3 DEF Cycling, Cyclable, Orderable
<1>5. /\ cycle'.dir = 1 /\ w \in cycle'.seen
      /\ cycle.dir = 1 => cycle'.seen = cycle.seen \cup {w}
      /\ cycle.dir # 1 => cycle'.seen = {focus, w}
  BY <1>2
<1>6. w \in Members(stack)
  BY State DEF Cycling
<1>7. ASSUME NEW i \in 1..Len(stack'), NEW j \in 1..Len(stack'), i < j,
             stack'[i] \in Cycling(o), stack'[j] \in Cycling(o)
      PROVE  stack'[i] # focus' /\ (stack'[i] \in cycle'.seen => stack'[j] \in cycle'.seen)
  <2>1. /\ stack'[i] # w /\ stack'[i] \in Members(stack) /\ stack'[j] \in Members(stack)
        /\ \A a, b \in 1..Len(stack) :
             stack'[j] # w /\ stack[a] = stack'[i] /\ stack[b] = stack'[j] => a < b
    BY <1>3, <1>6, <1>7, RaisedOrder, State
  <2>2. PICK a \in 1..Len(stack), b \in 1..Len(stack) :
          stack[a] = stack'[i] /\ stack[b] = stack'[j]
    BY <2>1 DEF Members
  <2>3. CASE stack'[j] = w
    BY <1>3, <1>5, <2>1, <2>3
  <2>4. CASE stack'[j] # w
    <3>1. a < b
      BY <2>1, <2>2, <2>4
    <3>2. /\ stack'[i] # focus
          /\ cycle.dir = 1 /\ stack'[i] \in cycle.seen => stack'[j] \in cycle.seen
      BY <1>1, <1>7, <2>2, <3>1
    <3>3. QED BY <1>3, <1>5, <2>1, <3>2
  <2>5. QED BY <2>3, <2>4
<1>8. QED BY <1>2, <1>3, <1>4, <1>7 DEF CycleInv

\* A step that ends a run, or begins none, keeps the invariant.
LEMMA CycleEnds ==
  ASSUME cycle'.dir # 1
  PROVE  CycleInv'
BY DEF CycleInv

\* Every step keeps the invariant of the run of "focus next", if one goes on.
LEMMA NextCycle == TypeOK /\ CycleInv /\ [Next]_vars => CycleInv'
<1> SUFFICES ASSUME TypeOK, CycleInv, [Next]_vars PROVE CycleInv'
  OBVIOUS
<1> USE DEF membership, focusing
<1>1. ASSUME NEW w \in Window, \/ NewToplevel(w) \/ MapX11(w) \/ Destroyed(w)
                              \/ ClickFocus(w) \/ IpcFocusWindow(w) \/ RequestActivation(w)
      PROVE  CycleInv'
  <2>1. cycle' = NoCycle
    BY <1>1 DEF NewToplevel, MapX11, NewWindow, FocusOn, Destroyed, ClickFocus,
                IpcFocusWindow, RequestActivation
  <2>2. QED BY <2>1, CycleEnds DEF NoCycle
<1>2. ASSUME NEW w \in Window, Commit(w)
      PROVE  CycleInv'
  <2>1. PICK o \in Output : MovesTo(w, o) /\ cycle' = IF o = on[w] THEN cycle ELSE NoCycle
    BY <1>2 DEF Commit
  <2>2. CASE o # on[w]
    BY <2>1, <2>2, CycleEnds DEF NoCycle
  <2>3. CASE o = on[w]
    <3>1. UNCHANGED <<stack, on, active, workspace, hidden, floating, focus, cycle>>
      BY <1>2, <2>1, <2>3 DEF Commit, MovesTo, TypeOK
    <3>2. Cycling(on[focus])' = Cycling(on[focus])
      BY <3>1 DEF Cycling, Cyclable, Orderable, Mapped
    <3>3. QED BY <3>1, <3>2 DEF CycleInv
  <2>4. QED BY <2>2, <2>3
<1>3. ASSUME NEW w \in Window, DragStart(w)
      PROVE  CycleInv'
  <2>1. CASE w \in hidden
    <3>1. /\ UNCHANGED <<stack, on, active, workspace, hidden, focus, cycle>>
          /\ floating' = floating \cup {w}
      BY <1>3, <2>1 DEF DragStart
    <3>2. Cycling(on[focus])' = Cycling(on[focus])
      BY <2>1, <3>1 DEF Cycling, Cyclable, Orderable, Mapped
    <3>3. QED BY <3>1, <3>2 DEF CycleInv
  <2>2. CASE w \notin hidden
    <3>1. cycle' = NoCycle
      BY <1>3, <2>2 DEF DragStart, FocusOn
    <3>2. QED BY <3>1, CycleEnds DEF NoCycle
  <2>3. QED BY <2>1, <2>2
<1>4. ASSUME NEW o \in Output, FocusNext(o)
      PROVE  CycleInv'
  BY <1>4, NextKeepsCycle
<1>5. ASSUME NEW o \in Output, FocusPrev(o)
      PROVE  CycleInv'
  <2>1. cycle'.dir # 1
    <3>1. \/ cycle' = NoCycle
          \/ \E s : cycle' = [dir |-> -1, seen |-> s]
      BY <1>5 DEF FocusPrev, FocusCycle
    <3>2. QED BY <3>1 DEF NoCycle
  <2>2. QED BY <2>1, CycleEnds
<1>6. ASSUME NEW o \in Output, NEW t \in Workspace, SwitchWorkspace(o, t)
      PROVE  CycleInv'
  BY <1>6, CycleEnds DEF SwitchWorkspace, NoCycle
<1>7. CASE ToggleFloating \/ ToggleMaximize \/ DragCancelled
  BY <1>7, CycleEnds DEF ToggleFloating, ToggleMaximize, DragCancelled, NoCycle
<1>8. ASSUME NEW w \in Mapped, NEW o \in Output, MapElement(w, o)
      PROVE  CycleInv'
  BY <1>8, CycleEnds DEF MapElement, NoCycle
<1>9. ASSUME NEW k \in 0..Cardinality(Window), DragRelease(k)
      PROVE  CycleInv'
  BY <1>9, CycleEnds DEF DragRelease, NoCycle
<1>10. CASE UNCHANGED vars
  <2>1. UNCHANGED <<stack, on, active, workspace, hidden, floating, focus, cycle>>
    BY <1>10 DEF vars
  <2>2. Cycling(on[focus])' = Cycling(on[focus])
    BY <2>1 DEF Cycling, Cyclable, Orderable, Mapped
  <2>3. QED BY <2>1, <2>2 DEF CycleInv
<1>11. QED
  BY <1>1, <1>2, <1>3, <1>4, <1>5, <1>6, <1>7, <1>8, <1>9, <1>10
     DEF Next, WindowStep, SwitchKey, DragStep, DragMotion, MoveElement

\* Within a run, "focus next" comes back to a window only after all of them.
LEMMA NextVisits ==
  ASSUME TypeOK, CycleInv, NEW o \in Output, cycle.dir = 1, FocusNext(o)
  PROVE  focus' \notin cycle.seen \/ Range(Windows(o)) \subseteq cycle.seen
<1>1. focus \in Cycling(on[focus]) /\ focus \in Mapped
  BY DEF CycleInv, Cycling
<1>2. on[focus] = o
  BY <1>1, State, WorkspacesAssumption
     DEF FocusNext, FocusCycle, FocusedOutput, FocusedWindow
<1>3. \A i, j \in 1..Len(stack) :
        i < j /\ stack[i] \in Cycling(o) /\ stack[j] \in Cycling(o) =>
          stack[i] # focus /\ (stack[i] \in cycle.seen => stack[j] \in cycle.seen)
  BY <1>2 DEF CycleInv
<1>4. PICK w \in Cycling(o) :
        /\ FocusWindow(w)
        /\ \A i, j \in 1..Len(stack) : stack[i] = w /\ stack[j] \in Cycling(o) => i <= j
  BY <1>1, <1>2, <1>3, NextFromTop
<1>5. ASSUME w \in cycle.seen, NEW v \in Cycling(o)
      PROVE  v \in cycle.seen
  <2>1. PICK i \in 1..Len(stack), j \in 1..Len(stack) : stack[i] = w /\ stack[j] = v
    BY <1>4, <1>5 DEF Cycling, Mapped
  <2>2. i <= j /\ i \in Int /\ j \in Int
    BY <1>4, <2>1
  <2>3. CASE i = j
    BY <1>5, <2>1, <2>3
  <2>4. CASE i < j
    BY <1>3, <1>4, <1>5, <2>1, <2>4
  <2>5. QED BY <2>2, <2>3, <2>4
<1>6. Range(Windows(o)) = Cycling(o)
  <2>1. Windows(o) \in Seq(Window) /\ Members(Windows(o)) = Cycling(o)
    BY WindowsInOrder
  <2>2. QED BY <2>1 DEF Range, Members
<1>7. focus' = w
  BY <1>4 DEF FocusWindow
<1>8. QED BY <1>5, <1>6, <1>7

\* Repeating "focus next" visits every window of the workspace before it comes back
\* to one, although each call reorders the list that the next one walks
\* (state.rs:1580-1604).
THEOREM FocusNextHolds == Spec => FocusNextVisitsAll
<1>1. Init => CycleInv
  <2> SUFFICES ASSUME Init PROVE CycleInv
    OBVIOUS
  <2>1. cycle = NoCycle
    BY DEF Init
  <2>2. QED BY <2>1 DEF CycleInv, NoCycle
<1>2. TypeOK /\ CycleInv /\ [Next]_vars =>
        [\A o \in Output : (cycle.dir = 1 /\ FocusNext(o)) =>
           (focus' \notin cycle.seen \/ Range(Windows(o)) \subseteq cycle.seen)]_vars
  BY NextVisits
<1>3. QED
  BY <1>1, <1>2, InitTypes, NextTypes, NextCycle, PTL DEF Spec, FocusNextVisitsAll

-----------------------------------------------------------------------------
(* Where a dragged window is dropped.                                      *)

\* A set of natural numbers has a least element.
LEMMA SmallestNat ==
  ASSUME NEW T \in SUBSET Nat, T # {}
  PROVE  \E n \in T : \A m \in T : n <= m
<1>1. PICK n \in T : \A m \in T : ~ (<<m, n>> \in OpToRel(<, Nat))
  BY NatLessThanWellFounded, WFMin
<1>2. \A m \in T : ~(m < n)
  BY <1>1 DEF OpToRel
<1>3. QED BY <1>2

\* Two lists of the same windows in the order of a third are equal: where they
\* first differed, each would have the other's window later.
LEMMA SamePrefix ==
  ASSUME NEW A, NEW p \in Seq(A), NEW r \in Seq(A), NEW q \in Seq(A),
         Distinct(p), Distinct(r), Members(p) = Members(r), Members(p) \subseteq Members(q),
         InOrder(p, q), InOrder(r, q)
  PROVE  \A i \in 1..Len(p) : i <= Len(r) /\ p[i] = r[i]
<1> DEFINE T == {i \in 1..Len(p) : ~(i <= Len(r) /\ p[i] = r[i])}
<1>0. Len(p) \in Nat /\ Len(r) \in Nat /\ Len(q) \in Nat
  BY LenProperties
<1>1. SUFFICES ASSUME T # {} PROVE FALSE
  OBVIOUS
<1>2. PICK i \in T : \A j \in T : i <= j
  <2>1. T \in SUBSET Nat
    OBVIOUS
  <2> HIDE DEF T
  <2>2. QED BY <1>1, <2>1, SmallestNat
<1>3. i \in 1..Len(p) /\ ~(i <= Len(r) /\ p[i] = r[i])
  BY <1>2
<1>4. \A j \in 1..Len(p) : j < i => j <= Len(r) /\ p[j] = r[j]
  BY <1>0, <1>2
<1> HIDE DEF T
<1>5. PICK j \in 1..Len(r) : r[j] = p[i]
  BY <1>3 DEF Members
<1>6. ~(j < i)
  BY <1>0, <1>3, <1>4, <1>5 DEF Distinct
<1>7. i \in 1..Len(r) /\ i < j
  BY <1>0, <1>3, <1>5, <1>6
<1>8. PICK m \in 1..Len(p) : p[m] = r[i]
  BY <1>7 DEF Members
<1>9. ~(m < i)
  BY <1>0, <1>4, <1>7, <1>8 DEF Distinct
<1>10. i < m
  BY <1>0, <1>3, <1>7, <1>8, <1>9
<1>11. PICK a \in 1..Len(q) : q[a] = p[i]
  BY <1>3 DEF Members
<1>12. PICK b \in 1..Len(q) : q[b] = p[m]
  BY <1>8 DEF Members
<1>13. a < b
  BY <1>3, <1>8, <1>10, <1>11, <1>12 DEF InOrder
<1>14. b < a
  BY <1>5, <1>7, <1>8, <1>11, <1>12 DEF InOrder
<1>15. QED BY <1>13, <1>14

LEMMA SameOrder ==
  ASSUME NEW A, NEW p \in Seq(A), NEW r \in Seq(A), NEW q \in Seq(A),
         Distinct(p), Distinct(r), Members(p) = Members(r), Members(p) \subseteq Members(q),
         InOrder(p, q), InOrder(r, q)
  PROVE  p = r
<1>1. \A i \in 1..Len(p) : i <= Len(r) /\ p[i] = r[i]
  BY SamePrefix
<1>2. \A i \in 1..Len(r) : i <= Len(p) /\ r[i] = p[i]
  BY SamePrefix
<1>3. Len(p) \in Nat /\ Len(r) \in Nat
  BY LenProperties
<1>4. Len(p) = Len(r)
  <2>1. Len(p) # 0 => Len(p) \in 1..Len(p)
    BY <1>3
  <2>2. Len(r) # 0 => Len(r) \in 1..Len(r)
    BY <1>3
  <2>3. Len(p) # 0 => Len(p) <= Len(r)
    BY <1>1, <2>1
  <2>4. Len(r) # 0 => Len(r) <= Len(p)
    BY <1>2, <2>2
  <2>5. QED BY <1>3, <2>3, <2>4
<1>5. QED BY <1>1, <1>4, SeqEqual

\* The order of a part of a part.
LEMMA OrderOfPart ==
  ASSUME NEW f, NEW p, NEW q, Members(f) \subseteq Members(p), InOrder(f, p), InOrder(p, q)
  PROVE  InOrder(f, q)
<1>1. SUFFICES ASSUME NEW n \in 1..Len(f), NEW m \in 1..Len(f),
                      NEW i \in 1..Len(q), NEW j \in 1..Len(q),
                      n < m, q[i] = f[n], q[j] = f[m]
               PROVE  i < j
  BY DEF InOrder
<1>2. PICK a \in 1..Len(p) : p[a] = f[n]
  BY DEF Members
<1>3. PICK b \in 1..Len(p) : p[b] = f[m]
  BY DEF Members
<1>4. a < b
  BY <1>1, <1>2, <1>3 DEF InOrder
<1>5. QED BY <1>1, <1>2, <1>3, <1>4 DEF InOrder

LEMMA ReverseIs ==
  ASSUME NEW A, NEW q \in Seq(A)
  PROVE  /\ Reverse(q) \in Seq(A) /\ Len(Reverse(q)) = Len(q)
         /\ \A i \in 1..Len(q) : Len(q) - i + 1 \in 1..Len(q) /\ Reverse(q)[i] = q[Len(q) - i + 1]
         /\ Members(Reverse(q)) = Members(q)
         /\ Distinct(q) => Distinct(Reverse(q))
<1>1. Len(q) \in Nat /\ \A i \in 1..Len(q) : q[i] \in A
  BY ElementOfSeq, LenProperties
<1>2. Reverse(q) = [i \in 1..Len(q) |-> q[Len(q) - i + 1]]
  BY DEF Reverse
<1>3. \A i \in 1..Len(q) : Len(q) - i + 1 \in 1..Len(q) /\ Len(q) - (Len(q) - i + 1) + 1 = i
  BY <1>1
<1>4. /\ Reverse(q) \in Seq(A) /\ Len(Reverse(q)) = Len(q)
      /\ \A i \in 1..Len(q) : Reverse(q)[i] = q[Len(q) - i + 1]
  BY <1>1, <1>2, <1>3, IsASeq
<1>5. Members(Reverse(q)) = Members(q)
  <2>1. ASSUME NEW i \in 1..Len(q)
        PROVE  Reverse(q)[i] \in Members(q) /\ q[i] \in Members(Reverse(q))
    <3>1. Reverse(q)[Len(q) - i + 1] = q[i]
      BY <1>3, <1>4
    <3>2. QED BY <1>3, <1>4, <3>1 DEF Members
  <2>2. QED BY <1>4, <2>1 DEF Members
<1>6. Distinct(q) => Distinct(Reverse(q))
  <2>1. SUFFICES ASSUME Distinct(q), NEW i \in 1..Len(q), NEW j \in 1..Len(q),
                        Reverse(q)[i] = Reverse(q)[j]
                 PROVE  i = j
    BY <1>4 DEF Distinct
  <2>2. Len(q) - i + 1 = Len(q) - j + 1
    BY <1>3, <1>4, <2>1 DEF Distinct
  <2>3. QED BY <1>1, <2>2
<1>7. QED BY <1>3, <1>4, <1>5, <1>6

LEMMA ReverseOrder ==
  ASSUME NEW A, NEW f \in Seq(A), NEW q \in Seq(A), InOrder(f, q)
  PROVE  InOrder(Reverse(f), Reverse(q))
<1>0. Len(f) \in Nat /\ Len(q) \in Nat
  BY LenProperties
<1>1. SUFFICES ASSUME NEW n \in 1..Len(f), NEW m \in 1..Len(f),
                      NEW i \in 1..Len(q), NEW j \in 1..Len(q),
                      n < m, Reverse(q)[i] = Reverse(f)[n], Reverse(q)[j] = Reverse(f)[m]
               PROVE  i < j
  BY ReverseIs DEF InOrder
<1>2. /\ Len(f) - n + 1 \in 1..Len(f) /\ Len(f) - m + 1 \in 1..Len(f)
      /\ Reverse(f)[n] = f[Len(f) - n + 1] /\ Reverse(f)[m] = f[Len(f) - m + 1]
  BY ReverseIs
<1>3. /\ Len(q) - i + 1 \in 1..Len(q) /\ Len(q) - j + 1 \in 1..Len(q)
      /\ Reverse(q)[i] = q[Len(q) - i + 1] /\ Reverse(q)[j] = q[Len(q) - j + 1]
  BY ReverseIs
<1>4. Len(f) - m + 1 < Len(f) - n + 1
  BY <1>0, <1>1
<1>5. Len(q) - j + 1 < Len(q) - i + 1
  BY <1>1, <1>2, <1>3, <1>4 DEF InOrder
<1>6. QED BY <1>0, <1>5

\* p is q with w inserted at i.
Inserted(p, A, q, i, w) ==
  /\ p \in Seq(A) /\ Len(p) = Len(q) + 1
  /\ \A j \in 1..(Len(q) + 1) : p[j] = IF j < i THEN q[j] ELSE IF j = i THEN w ELSE q[j - 1]

\* What is inserted, and what moves up for it.
LEMMA InsertAtIs ==
  ASSUME NEW A, NEW q \in Seq(A), NEW i \in 1..(Len(q) + 1), NEW w \in A
  PROVE  Inserted(InsertAt(q, i, w), A, q, i, w)
<1> DEFINE a == SubSeq(q, 1, i - 1)
           b == SubSeq(q, i, Len(q))
           c == a \o <<w>>
<1>1. Len(q) \in Nat /\ i \in Int /\ \A j \in 1..Len(q) : q[j] \in A
  BY LenProperties, ElementOfSeq
<1>2. /\ a \in Seq(A) /\ Len(a) = i - 1
      /\ \A j \in 1..(i - 1) : a[j] = q[j]
  <2>1. \A j \in 1..(i - 1) : q[j] \in A
    BY <1>1
  <2>2. /\ SubSeq(q, 1, i - 1) \in Seq(A)
        /\ Len(SubSeq(q, 1, i - 1)) = IF 1 <= i - 1 THEN i - 1 - 1 + 1 ELSE 0
        /\ \A j \in 1..(i - 1 - 1 + 1) : SubSeq(q, 1, i - 1)[j] = q[1 + j - 1]
    BY <1>1, <2>1, SubSeqProperties
  <2>3. QED BY <1>1, <2>2
<1>3. /\ b \in Seq(A) /\ Len(b) = Len(q) - i + 1
      /\ \A j \in 1..(Len(q) - i + 1) : b[j] = q[i + j - 1]
  <2>1. \A j \in i..Len(q) : q[j] \in A
    BY <1>1
  <2>2. /\ SubSeq(q, i, Len(q)) \in Seq(A)
        /\ Len(SubSeq(q, i, Len(q))) = IF i <= Len(q) THEN Len(q) - i + 1 ELSE 0
        /\ \A j \in 1..(Len(q) - i + 1) : SubSeq(q, i, Len(q))[j] = q[i + j - 1]
    BY <1>1, <2>1, SubSeqProperties
  <2>3. QED BY <1>1, <2>2
<1>4. InsertAt(q, i, w) = c \o b
  BY DEF InsertAt
<1> HIDE DEF a, b
<1>5. /\ c \in Seq(A) /\ Len(c) = i
      /\ \A j \in 1..i : c[j] = IF j < i THEN q[j] ELSE w
  <2>1. <<w>> \in Seq(A) /\ Len(<<w>>) = 1 /\ <<w>>[1] = w
    OBVIOUS
  <2>2. /\ c \in Seq(A) /\ Len(c) = Len(a) + Len(<<w>>)
        /\ \A j \in 1..(Len(a) + Len(<<w>>)) :
             c[j] = IF j <= Len(a) THEN a[j] ELSE <<w>>[j - Len(a)]
    BY <1>2, <2>1, ConcatProperties
  <2> HIDE DEF c
  <2>3. Len(c) = i
    BY <1>1, <1>2, <2>1, <2>2
  <2>4. ASSUME NEW j \in 1..i PROVE c[j] = IF j < i THEN q[j] ELSE w
    <3>1. c[j] = IF j <= i - 1 THEN a[j] ELSE <<w>>[j - (i - 1)]
      BY <1>1, <1>2, <2>1, <2>2, <2>4
    <3>2. CASE j < i
      BY <1>1, <1>2, <3>1, <3>2
    <3>3. CASE ~(j < i)
      <4>1. j = i /\ ~(j <= i - 1) /\ j - (i - 1) = 1
        BY <1>1, <2>4, <3>3
      <4>2. c[j] = <<w>>[1]
        BY <3>1, <4>1
      <4>3. QED BY <2>1, <3>3, <4>2
    <3>4. QED BY <3>2, <3>3
  <2>5. QED BY <2>2, <2>3, <2>4
<1> HIDE DEF c
<1>6. /\ c \o b \in Seq(A) /\ Len(c \o b) = Len(c) + Len(b)
      /\ \A j \in 1..(Len(c) + Len(b)) :
           (c \o b)[j] = IF j <= Len(c) THEN c[j] ELSE b[j - Len(c)]
  BY <1>3, <1>5, ConcatProperties
<1>7. Len(c) + Len(b) = Len(q) + 1
  BY <1>1, <1>3, <1>5
<1>8. ASSUME NEW j \in 1..(Len(q) + 1)
      PROVE  (c \o b)[j] = IF j < i THEN q[j] ELSE IF j = i THEN w ELSE q[j - 1]
  <2>1. (c \o b)[j] = IF j <= i THEN c[j] ELSE b[j - i]
    BY <1>5, <1>6, <1>7
  <2>2. CASE j <= i
    BY <1>1, <1>5, <2>1, <2>2
  <2>3. CASE i < j
    <3>1. j - i \in 1..(Len(q) - i + 1) /\ i + (j - i) - 1 = j - 1
      BY <1>1, <2>3
    <3>2. b[j - i] = q[j - 1]
      BY <1>3, <3>1
    <3>3. QED BY <1>1, <2>1, <2>3, <3>2
  <2>4. j <= i \/ i < j
    BY <1>1
  <2>5. QED BY <2>2, <2>3, <2>4
<1>9. QED BY <1>4, <1>6, <1>7, <1>8 DEF Inserted

\* Inserting from the one end is inserting from the other into the reverse.
LEMMA ReverseInsert ==
  ASSUME NEW A, NEW q \in Seq(A), NEW w \in A, NEW k \in 0..Len(q)
  PROVE  Reverse(InsertAt(q, Len(q) - k + 1, w)) = InsertAt(Reverse(q), k + 1, w)
<1> DEFINE L == Len(q)
<1>1. L \in Nat /\ k \in Nat /\ k <= L
  BY LenProperties
<1>2. PICK n \in 1..(Len(q) + 1) : n = L - k + 1
  BY <1>1
<1>3. PICK c \in Seq(A) :
        c = Reverse(q) /\ Len(c) = L /\ \A i \in 1..L : c[i] = q[L - i + 1]
  BY ReverseIs
<1>4. PICK m \in 1..(Len(c) + 1) : m = k + 1
  BY <1>1, <1>3
<1> DEFINE p == InsertAt(q, n, w)
           r == InsertAt(c, m, w)
<1>5. /\ p \in Seq(A) /\ Len(p) = L + 1
      /\ \A j \in 1..(L + 1) : p[j] = IF j < n THEN q[j] ELSE IF j = n THEN w ELSE q[j - 1]
      /\ r \in Seq(A) /\ Len(r) = L + 1
      /\ \A j \in 1..(L + 1) : r[j] = IF j < k + 1 THEN c[j] ELSE IF j = k + 1 THEN w ELSE c[j - 1]
  <2>1. /\ p \in Seq(A) /\ Len(p) = Len(q) + 1
        /\ \A j \in 1..(Len(q) + 1) :
             p[j] = IF j < n THEN q[j] ELSE IF j = n THEN w ELSE q[j - 1]
    <3>1. q \in Seq(A) /\ n \in 1..(Len(q) + 1) /\ w \in A
      OBVIOUS
    <3> HIDE DEF p, r, L
    <3>2. Inserted(InsertAt(q, n, w), A, q, n, w)
      BY <3>1, InsertAtIs, Zenon
    <3>3. QED BY <3>2 DEF p, Inserted
  <2>2. /\ r \in Seq(A) /\ Len(r) = Len(c) + 1
        /\ \A j \in 1..(Len(c) + 1) :
             r[j] = IF j < m THEN c[j] ELSE IF j = m THEN w ELSE c[j - 1]
    <3>1. c \in Seq(A) /\ m \in 1..(Len(c) + 1) /\ w \in A
      OBVIOUS
    <3> HIDE DEF p, r, L
    <3>2. Inserted(InsertAt(c, m, w), A, c, m, w)
      BY <3>1, InsertAtIs, Zenon
    <3>3. QED BY <3>2 DEF r, Inserted
  <2>3. QED BY <1>3, <1>4, <2>1, <2>2
<1> HIDE DEF p, r, L
<1>6. /\ Reverse(p) \in Seq(A) /\ Len(Reverse(p)) = L + 1
      /\ \A j \in 1..(L + 1) : Reverse(p)[j] = p[(L + 1) - j + 1]
  <2>1. p \in Seq(A) /\ Len(p) = L + 1
    BY <1>5
  <2>2. /\ Reverse(p) \in Seq(A) /\ Len(Reverse(p)) = Len(p)
        /\ \A j \in 1..Len(p) : Reverse(p)[j] = p[Len(p) - j + 1]
    BY <2>1, ReverseIs
  <2>3. QED BY <2>1, <2>2
<1>7. ASSUME NEW j \in 1..(L + 1) PROVE Reverse(p)[j] = r[j]
  <2>1. (L + 1) - j + 1 \in 1..(L + 1) /\ Reverse(p)[j] = p[(L + 1) - j + 1]
    BY <1>1, <1>6
  <2>2. CASE j < k + 1
    <3>1. ~((L + 1) - j + 1 < n) /\ (L + 1) - j + 1 # n /\ (L + 1) - j + 1 - 1 = L - j + 1
      BY <1>1, <1>2, <2>2
    <3>2. p[(L + 1) - j + 1] = q[L - j + 1]
      BY <1>5, <2>1, <3>1
    <3>3. j \in 1..L /\ r[j] = c[j]
      BY <1>1, <1>5, <2>2
    <3>4. QED BY <1>3, <2>1, <3>2, <3>3
  <2>3. CASE j = k + 1
    <3>1. (L + 1) - j + 1 = n /\ ~(n < n)
      BY <1>1, <1>2, <2>3
    <3>2. p[(L + 1) - j + 1] = w
      BY <1>5, <2>1, <3>1
    <3>3. ~(j < k + 1)
      BY <1>1, <2>3
    <3>4. r[j] = w
      BY <1>5, <2>3, <3>3
    <3>5. QED BY <2>1, <3>2, <3>4
  <2>4. CASE k + 1 < j
    <3>1. (L + 1) - j + 1 < n /\ (L + 1) - j + 1 = L - (j - 1) + 1
      BY <1>1, <1>2, <2>4
    <3>2. p[(L + 1) - j + 1] = q[L - (j - 1) + 1]
      BY <1>5, <2>1, <3>1
    <3>3. j - 1 \in 1..L /\ ~(j < k + 1) /\ j # k + 1
      BY <1>1, <2>4
    <3>4. r[j] = c[j - 1]
      BY <1>5, <3>3
    <3>5. QED BY <1>3, <2>1, <3>2, <3>3, <3>4
  <2>5. j < k + 1 \/ j = k + 1 \/ k + 1 < j
    BY <1>1
  <2>6. QED BY <2>2, <2>3, <2>4, <2>5
<1>8. Reverse(p) = r
  BY <1>5, <1>6, <1>7, SeqEqual
<1>9. QED BY <1>2, <1>3, <1>4, <1>8 DEF p, r, L

\* What is inserted into keeps its order, and so does what is put behind.
LEMMA InsertOrder ==
  ASSUME NEW A, NEW q \in Seq(A), NEW i \in 1..(Len(q) + 1), NEW w \in A, Distinct(q),
         w \notin Members(q)
  PROVE  InOrder(q, InsertAt(q, i, w))
<1> DEFINE p == InsertAt(q, i, w)
           L == Len(q)
           up(n) == IF n < i THEN n ELSE n + 1
<1>1. L \in Nat /\ i \in 1..(L + 1)
  BY LenProperties
<1>2. /\ Len(p) = L + 1 /\ Distinct(p)
      /\ \A j \in 1..(L + 1) : p[j] = IF j < i THEN q[j] ELSE IF j = i THEN w ELSE q[j - 1]
  BY InsertAtIs, InsertAtProperties DEF Inserted
<1> HIDE DEF p, L
<1>3. ASSUME NEW n \in 1..L PROVE up(n) \in 1..(L + 1) /\ p[up(n)] = q[n]
  <2>1. CASE n < i
    BY <1>1, <1>2, <2>1
  <2>2. CASE ~(n < i)
    <3>1. n + 1 \in 1..(L + 1) /\ ~(n + 1 < i) /\ n + 1 # i /\ n + 1 - 1 = n
      BY <1>1, <2>2
    <3>2. p[n + 1] = q[n]
      BY <1>2, <3>1
    <3>3. QED BY <2>2, <3>1, <3>2
  <2>3. QED BY <2>1, <2>2
<1>4. SUFFICES ASSUME NEW n \in 1..L, NEW m \in 1..L, NEW a \in 1..(L + 1), NEW b \in 1..(L + 1),
                      n < m, p[a] = q[n], p[b] = q[m]
               PROVE  a < b
  BY <1>2 DEF InOrder, p, L
<1>5. a = up(n) /\ b = up(m)
  <2>1. up(n) \in 1..(L + 1) /\ p[up(n)] = p[a] /\ up(m) \in 1..(L + 1) /\ p[up(m)] = p[b]
    BY <1>3, <1>4
  <2> HIDE DEF up
  <2>2. \A x, y \in 1..(L + 1) : p[x] = p[y] => x = y
    BY <1>2 DEF Distinct
  <2>3. QED BY <1>4, <2>1, <2>2
<1>6. QED BY <1>1, <1>4, <1>5

LEMMA TailOrder ==
  ASSUME NEW A, NEW p \in Seq(A), NEW q \in Seq(A), Distinct(p \o q)
  PROVE  InOrder(q, p \o q)
<1> DEFINE c == p \o q
<1>1. Len(p) \in Nat /\ Len(q) \in Nat
  BY LenProperties
<1>2. /\ Len(c) = Len(p) + Len(q)
      /\ \A i \in 1..(Len(p) + Len(q)) : c[i] = IF i <= Len(p) THEN p[i] ELSE q[i - Len(p)]
  BY ConcatProperties
<1> HIDE DEF c
<1>3. ASSUME NEW n \in 1..Len(q) PROVE Len(p) + n \in 1..Len(c) /\ c[Len(p) + n] = q[n]
  <2>1. /\ Len(p) + n \in 1..(Len(p) + Len(q)) /\ ~(Len(p) + n <= Len(p))
        /\ Len(p) + n - Len(p) = n
    BY <1>1
  <2>2. QED BY <1>2, <2>1
<1>4. SUFFICES ASSUME NEW n \in 1..Len(q), NEW m \in 1..Len(q), NEW a \in 1..Len(c),
                      NEW b \in 1..Len(c), n < m, c[a] = q[n], c[b] = q[m]
               PROVE  a < b
  BY DEF InOrder, c
<1>5. Distinct(c)
  BY DEF c
<1>6. a = Len(p) + n /\ b = Len(p) + m
  BY <1>3, <1>4, <1>5 DEF Distinct
<1>7. QED BY <1>1, <1>4, <1>6

LEMMA ElementsOrder ==
  ASSUME NEW q \in Seq(Window), Distinct(q), NEW f, NEW o
  PROVE  InOrder(Elements(q, f, o), q)
<1>1. InOrder(Filter(q, {w \in Window : f[w] = o}), q)
  BY FilterInOrder, Zenon
<1>2. QED BY <1>1 DEF Elements

\* After a drop the tiled windows of the output, from the top, are the others with
\* the dropped one at its index.
LEMMA DropTakesSlot ==
  ASSUME TypeOK, NEW k \in 0..Cardinality(Window), DragRelease(k)
  PROVE  Filter(Reverse(Elements(stack', on, on[drag])), Orderable') =
           (IF drag \in hidden THEN Others(drag) ELSE InsertAt(Others(drag), k + 1, drag))
<1> DEFINE o == on[drag]
           elements == ElementsOn(o)
           others == Filter(elements, Orderable \ {drag})
           ordered == InsertAt(others, Len(others) - k + 1, drag)
           moved == {ordered[i] : i \in 1..Len(ordered)}
           rest == Filter(stack, Window \ moved)
           s == rest \o ordered
           e == Elements(s, on, o)
           tiled == Window \ ((floating \ {drag}) \cup hidden)
           a == Filter(Reverse(e), tiled)
<1>1. /\ drag \in Mapped /\ k \in 0..Len(Others(drag)) /\ stack' = Reordered(drag, k)
      /\ floating' = floating \ {drag} /\ hidden' = hidden
  BY DEF DragRelease
<1>2. stack \in Seq(Window) /\ Distinct(stack) /\ Mapped = Members(stack) /\ Mapped \subseteq Window
  BY State
<1>3. stack' = s /\ Orderable' = tiled
  BY <1>1 DEF Reordered, Orderable
<1>4. s \in Seq(Window) /\ Distinct(s) /\ Members(s) = Mapped
  BY <1>1, <1>3, ReorderedProperties
<1>5. /\ elements \in Seq(Window) /\ Distinct(elements)
      /\ Members(elements) = {w \in Mapped : on[w] = o}
  <2>1. /\ Elements(stack, on, o) \in Seq(Window) /\ Distinct(Elements(stack, on, o))
        /\ Members(Elements(stack, on, o)) = {w \in Members(stack) : on[w] = o}
    BY <1>2, ElementsProperties
  <2>2. QED BY <1>2, <2>1 DEF ElementsOn
<1>6. Others(drag) = Filter(Reverse(elements), Orderable \ {drag})
  BY DEF Others
<1> HIDE DEF elements
<1>7. /\ others \in Seq(Window) /\ Distinct(others) /\ InOrder(others, elements)
      /\ Members(others) = {w \in Mapped : on[w] = o} \cap (Orderable \ {drag})
  BY <1>5, FilterProperties, FilterInOrder
<1>8. Others(drag) = Reverse(others)
  <2>1. /\ Reverse(elements) \in Seq(Window) /\ Distinct(Reverse(elements))
        /\ Members(Reverse(elements)) = Members(elements)
    BY <1>5, ReverseIs
  <2>2. /\ Others(drag) \in Seq(Window) /\ Distinct(Others(drag))
        /\ Members(Others(drag)) = Members(elements) \cap (Orderable \ {drag})
        /\ InOrder(Others(drag), Reverse(elements))
    <3> DEFINE r == Reverse(elements)
    <3>1. r \in Seq(Window) /\ Distinct(r) /\ Members(r) = Members(elements)
      BY <2>1
    <3> HIDE DEF r
    <3>2. /\ Filter(r, Orderable \ {drag}) \in Seq(Window)
          /\ Distinct(Filter(r, Orderable \ {drag}))
          /\ Members(Filter(r, Orderable \ {drag})) = Members(r) \cap (Orderable \ {drag})
          /\ InOrder(Filter(r, Orderable \ {drag}), r)
      BY <3>1, FilterProperties, FilterInOrder
    <3>3. QED BY <1>6, <3>1, <3>2 DEF r
  <2> HIDE DEF others
  <2>3. /\ Reverse(others) \in Seq(Window) /\ Distinct(Reverse(others))
        /\ Members(Reverse(others)) = Members(others)
        /\ InOrder(Reverse(others), Reverse(elements))
    BY <1>5, <1>7, ReverseIs, ReverseOrder
  <2>4. QED BY <1>5, <1>7, <2>1, <2>2, <2>3, SameOrder
<1> HIDE DEF others
<1>9. Len(Others(drag)) = Len(others) /\ Len(others) \in Nat
  BY <1>7, <1>8, ReverseIs, LenProperties
<1>10. k \in 0..Len(others) /\ drag \in Window /\ drag \notin Members(others)
  BY <1>1, <1>2, <1>7, <1>9
<1>11. /\ ordered \in Seq(Window) /\ Distinct(ordered) /\ InOrder(others, ordered)
       /\ Members(ordered) = Members(others) \cup {drag}
  <2> DEFINE n == Len(others) - k + 1
  <2>1. n \in 1..(Len(others) + 1)
    BY <1>9, <1>10
  <2> HIDE DEF n
  <2>2. /\ InsertAt(others, n, drag) \in Seq(Window) /\ Distinct(InsertAt(others, n, drag))
        /\ InOrder(others, InsertAt(others, n, drag))
        /\ Members(InsertAt(others, n, drag)) = Members(others) \cup {drag}
    BY <1>7, <1>10, <2>1, InsertAtProperties, InsertOrder
  <2>3. QED BY <2>2 DEF n
<1>12. Reverse(ordered) = InsertAt(Others(drag), k + 1, drag)
  BY <1>7, <1>8, <1>10, ReverseInsert
<1> HIDE DEF ordered
<1>13. InOrder(ordered, s) /\ Members(ordered) \subseteq Members(s)
  <2>1. rest \in Seq(Window)
    BY <1>2, FilterProperties
  <2> HIDE DEF rest
  <2>2. InOrder(ordered, s)
    BY <1>4, <1>11, <2>1, TailOrder
  <2>3. QED BY <1>1, <1>4, <1>7, <1>11, <2>2
<1> HIDE DEF rest, s
<1>14. /\ e \in Seq(Window) /\ Distinct(e) /\ InOrder(e, s)
       /\ Members(e) = {w \in Mapped : on[w] = o}
  <2>1. /\ Elements(s, on, o) \in Seq(Window) /\ Distinct(Elements(s, on, o))
        /\ Members(Elements(s, on, o)) = {w \in Members(s) : on[w] = o}
        /\ InOrder(Elements(s, on, o), s)
    BY <1>4, ElementsProperties, ElementsOrder
  <2>2. QED BY <1>4, <2>1
<1>15. a = Filter(Reverse(Elements(stack', on, on[drag])), Orderable')
  BY <1>3
<1> HIDE DEF e
<1>16. /\ Reverse(e) \in Seq(Window) /\ Distinct(Reverse(e))
       /\ Members(Reverse(e)) = Members(e) /\ InOrder(Reverse(e), Reverse(s))
  BY <1>4, <1>14, ReverseIs, ReverseOrder
<1>17. /\ Reverse(s) \in Seq(Window) /\ Members(Reverse(s)) = Mapped
  BY <1>4, ReverseIs
<1>18. /\ a \in Seq(Window) /\ Distinct(a) /\ InOrder(a, Reverse(e))
       /\ Members(a) = {w \in Mapped : on[w] = o} \cap tiled
  <2> DEFINE r == Reverse(e)
  <2>1. r \in Seq(Window) /\ Distinct(r) /\ Members(r) = {w \in Mapped : on[w] = o}
    BY <1>14, <1>16
  <2> HIDE DEF r
  <2>2. /\ Filter(r, tiled) \in Seq(Window) /\ Distinct(Filter(r, tiled))
        /\ Members(Filter(r, tiled)) = Members(r) \cap tiled
        /\ InOrder(Filter(r, tiled), r)
    BY <2>1, FilterProperties, FilterInOrder
  <2>3. QED BY <2>1, <2>2 DEF r
<1> HIDE DEF a
<1>19. InOrder(a, Reverse(s))
  BY <1>14, <1>16, <1>18, OrderOfPart
<1>20. ASSUME NEW g \in Seq(Window), Distinct(g), InOrder(g, s), Members(a) = Members(g)
       PROVE  a = Reverse(g)
  <2>1. /\ Reverse(g) \in Seq(Window) /\ Distinct(Reverse(g))
        /\ Members(Reverse(g)) = Members(g) /\ InOrder(Reverse(g), Reverse(s))
    BY <1>4, <1>20, ReverseIs, ReverseOrder
  <2>2. Members(a) \subseteq Members(Reverse(s))
    BY <1>17, <1>18
  <2>3. QED BY <1>17, <1>18, <1>19, <1>20, <2>1, <2>2, SameOrder
<1>21. CASE drag \in hidden
  <2>1. Members(a) = Members(others)
    BY <1>7, <1>18, <1>21 DEF Orderable
  <2>2. InOrder(others, s)
    BY <1>11, <1>13, OrderOfPart
  <2>3. a = Reverse(others)
    BY <1>7, <1>20, <2>1, <2>2
  <2>4. QED BY <1>8, <1>15, <1>21, <2>3
<1>22. CASE drag \notin hidden
  <2>1. Members(a) = Members(ordered)
    BY <1>1, <1>7, <1>10, <1>11, <1>18, <1>22 DEF Orderable
  <2>2. a = Reverse(ordered)
    BY <1>11, <1>13, <1>20, <2>1
  <2>3. QED BY <1>12, <1>15, <1>22, <2>2
<1>23. QED BY <1>21, <1>22

\* A dropped window goes to the index that its position selected, counted from the
\* top, and the others keep their order, although reorder_layout_window filters,
\* reverses, inserts and raises one by one (layout.rs:644-718).
THEOREM ReorderHolds == Spec => ReorderTakesSlot
<1>1. TypeOK /\ [Next]_vars =>
        [\A k \in 0..Cardinality(Window) : (drag' = NoWindow /\ DragRelease(k)) =>
           Filter(Reverse(Elements(stack', on, on[drag])), Orderable') =
             (IF drag \in hidden THEN Others(drag)
              ELSE InsertAt(Others(drag), k + 1, drag))]_vars
  BY DropTakesSlot
<1>2. QED BY <1>1, InitTypes, NextTypes, PTL DEF Spec, ReorderTakesSlot
=============================================================================
