--------------------------- MODULE SequenceLemmas ---------------------------
(***************************************************************************)
(* What the proofs about lists rest on: induction, stated for sets instead *)
(* of predicates, the fold from the right and the flattening of a list of  *)
(* lists.  The folds of the community modules are recursive functions, of  *)
(* which nothing is known before it is shown that there is one.            *)
(***************************************************************************)
EXTENDS SequencesExt, FiniteSetTheorems, SequenceTheorems, WellFoundedInduction, TLAPS

(* Every set of natural numbers with an element has a least one.           *)
LEMMA LeastElement ==
    ASSUME NEW S \in SUBSET Nat, S # {}
    PROVE  \E m \in S : \A k \in S : m <= k
<1> DEFINE Initial == {1..m : m \in S}
<1>1. Initial \subseteq FiniteSubsetsOf(Nat)
    BY FS_Interval DEF FiniteSubsetsOf
<1>2. Initial # {}
    OBVIOUS
<1>3. PICK x \in Initial : \A y \in Initial : <<y, x>> \notin StrictSubsetOrdering(Nat)
    <2> HIDE DEF Initial
    <2> QED BY <1>1, <1>2, WFMin, FS_StrictSubsetOrderingWellFounded
<1>4. PICK m \in S : x = 1..m
    OBVIOUS
<1>5. ASSUME NEW k \in S, k < m
      PROVE  FALSE
    <2>1. 1..k \in Initial /\ 1..k \subseteq 1..m
        BY <1>5
    <2>2. m \in 1..m /\ m \notin 1..k
        BY <1>5
    <2>3. <<1..k, 1..m>> \in StrictSubsetOrdering(Nat)
        BY <2>1, <2>2 DEF StrictSubsetOrdering
    <2> QED BY <1>3, <1>4, <2>1, <2>3
<1> QED BY <1>5

(* Induction: a set that has 0, and with each number the next one, has     *)
(* every number.                                                           *)
LEMMA Induction ==
    ASSUME NEW S, 0 \in S, \A n \in Nat : n \in S => n + 1 \in S
    PROVE  \A n \in Nat : n \in S
<1>1. SUFFICES ASSUME Nat \ S # {}
               PROVE  FALSE
    OBVIOUS
<1>2. PICK m \in Nat \ S : \A k \in Nat \ S : m <= k
    BY <1>1, LeastElement
<1>3. m - 1 \in Nat
    BY <1>2
<1>4. m - 1 \in S
    BY <1>2, <1>3
<1> QED BY <1>2, <1>3, <1>4

(* From the last place of a list to the first.                             *)
LEMMA FromTheEnd ==
    ASSUME NEW n \in Nat, NEW S, n + 1 \in S, \A k \in 1..n : k + 1 \in S => k \in S
    PROVE  \A k \in 1..(n + 1) : k \in S
<1> DEFINE T == {m \in Nat : m <= n => n + 1 - m \in S}
<1>1. 0 \in T
    OBVIOUS
<1>2. ASSUME NEW m \in Nat, m \in T
      PROVE  m + 1 \in T
    <2>1. CASE m + 1 <= n
        <3>1. n - m \in 1..n /\ n + 1 - m \in S /\ (n - m) + 1 = n + 1 - m
            BY <1>2, <2>1
        <3>2. n - m \in S
            BY <3>1
        <3>3. n + 1 - (m + 1) = n - m
            OBVIOUS
        <3> QED BY <3>2, <3>3
    <2>2. CASE ~(m + 1 <= n)
        BY <2>2
    <2> QED BY <2>1, <2>2
<1>3. \A m \in Nat : m \in T
    <2> HIDE DEF T
    <2> QED BY <1>1, <1>2, Induction
<1>4. ASSUME NEW k \in 1..(n + 1)
      PROVE  k \in S
    <2>1. n + 1 - k \in T
        BY <1>3
    <2>2. n + 1 - k <= n /\ n + 1 - (n + 1 - k) = k
        OBVIOUS
    <2> QED BY <2>1, <2>2
<1> QED BY <1>4

-----------------------------------------------------------------------------
(* MapThenFoldSet takes the elements out of a finite set one after the     *)
(* other, c[s] first, and combines what they map to.  Folding(f, X, base,  *)
(* G, c): f does so for every subset of X.                                 *)
Folding(f, X, base, G, c) ==
    f = [s \in SUBSET X |-> IF s = {} THEN base ELSE G[c[s]][f[s \ {c[s]}]]]

(* Two such functions agree where both are defined.                        *)
LEMMA FoldingUnique ==
    ASSUME NEW X, IsFiniteSet(X), NEW Y \in SUBSET X, NEW base, NEW G, NEW c,
           \A s \in SUBSET X : s # {} => c[s] \in s,
           NEW f, Folding(f, X, base, G, c),
           NEW g, Folding(g, Y, base, G, c)
    PROVE  \A s \in SUBSET Y : f[s] = g[s]
<1> DEFINE Bad == {s \in SUBSET Y : f[s] # g[s]}
<1>1. SUFFICES ASSUME Bad # {}
               PROVE  FALSE
    OBVIOUS
<1>2. Bad \subseteq FiniteSubsetsOf(X)
    BY FS_Subset DEF FiniteSubsetsOf
<1>3. PICK s \in Bad : \A t \in Bad : <<t, s>> \notin StrictSubsetOrdering(X)
    <2> HIDE DEF Bad
    <2> QED BY <1>1, <1>2, WFMin, FS_StrictSubsetOrderingWellFounded
<1>4. s # {}
    <2>1. f[{}] = base
        BY DEF Folding
    <2>2. g[{}] = base
        BY DEF Folding
    <2> QED BY <2>1, <2>2
<1> DEFINE t == s \ {c[s]}
<1>5. t \in SUBSET Y /\ t # s /\ t \subseteq s
    BY <1>4
<1>6. f[t] = g[t]
    <2>1. <<t, s>> \in StrictSubsetOrdering(X)
        BY <1>5 DEF StrictSubsetOrdering
    <2> QED BY <2>1, <1>3, <1>5
<1>7. f[s] = G[c[s]][f[t]]
    BY <1>4 DEF Folding
<1>8. g[s] = G[c[s]][g[t]]
    BY <1>4 DEF Folding
<1> QED BY <1>6, <1>7, <1>8

(* There is one for every finite set.                                      *)
LEMMA FoldingExists ==
    ASSUME NEW X, IsFiniteSet(X), NEW base, NEW G, NEW c,
           \A s \in SUBSET X : s # {} => c[s] \in s
    PROVE  \E f : Folding(f, X, base, G, c)
<1> DEFINE Bad == {Y \in SUBSET X : ~\E f : Folding(f, Y, base, G, c)}
<1>1. SUFFICES ASSUME Bad # {}
               PROVE  FALSE
    OBVIOUS
<1>2. Bad \subseteq FiniteSubsetsOf(X)
    BY FS_Subset DEF FiniteSubsetsOf
<1>3. PICK Y \in Bad : \A Z \in Bad : <<Z, Y>> \notin StrictSubsetOrdering(X)
    <2> HIDE DEF Bad
    <2> QED BY <1>1, <1>2, WFMin, FS_StrictSubsetOrderingWellFounded
<1> DEFINE Of(Z) == CHOOSE f : Folding(f, Z, base, G, c)
<1>4. ASSUME NEW Z \in SUBSET Y, Z # Y
      PROVE  Folding(Of(Z), Z, base, G, c)
    <2>1. <<Z, Y>> \in StrictSubsetOrdering(X)
        BY <1>4 DEF StrictSubsetOrdering
    <2>2. \E f : Folding(f, Z, base, G, c)
        BY <2>1, <1>3, <1>4
    <2> QED BY <2>2
<1> DEFINE lower == [Z \in SUBSET Y |-> Of(Z)[Z]]
           h == [Z \in SUBSET Y |->
                    IF Z = Y THEN IF Y = {} THEN base ELSE G[c[Y]][lower[Y \ {c[Y]}]]
                    ELSE lower[Z]]
<1>5. ASSUME NEW Z \in SUBSET Y
      PROVE  h[Z] = IF Z = {} THEN base ELSE G[c[Z]][h[Z \ {c[Z]}]]
    <2>1. CASE Z = {}
        <3>1. CASE Z = Y
            BY <3>1, <2>1
        <3>2. CASE Z # Y
            <4>1. Folding(Of(Z), Z, base, G, c)
                BY <3>2, <1>4
            <4>2. Of(Z)[Z] = base
                <5> HIDE DEF Of
                <5> QED BY <4>1, <2>1 DEF Folding
            <4> QED BY <4>2, <3>2, <2>1
        <3> QED BY <3>1, <3>2
    <2>2. CASE Z # {}
        <3> DEFINE W == Z \ {c[Z]}
        <3>1. W \in SUBSET Y /\ W # Y /\ W # Z /\ W \subseteq Z
            BY <2>2
        <3>2. h[W] = Of(W)[W]
            <4> HIDE DEF Of
            <4> QED BY <3>1
        <3>3. CASE Z = Y
            <4> HIDE DEF Of
            <4> QED BY <3>1, <3>2, <3>3, <2>2
        <3>4. CASE Z # Y
            <4>1. Folding(Of(Z), Z, base, G, c) /\ Folding(Of(W), W, base, G, c)
                <5> HIDE DEF Of, W
                <5> QED BY <1>4, <3>1, <3>4
            <4>2. IsFiniteSet(Z) /\ \A s \in SUBSET Z : s # {} => c[s] \in s
                BY FS_Subset
            <4>3. Of(Z)[W] = Of(W)[W]
                <5> HIDE DEF Of, W
                <5> QED BY <4>1, <4>2, <3>1, FoldingUnique
            <4>4. Of(Z)[Z] = G[c[Z]][Of(Z)[W]]
                <5> HIDE DEF Of
                <5> QED BY <4>1, <2>2 DEF Folding
            <4>5. h[Z] = Of(Z)[Z]
                <5> HIDE DEF Of
                <5> QED BY <3>4
            <4> HIDE DEF Of, h
            <4> QED BY <4>3, <4>4, <4>5, <3>2, <2>2
        <3> QED BY <3>3, <3>4
    <2> QED BY <2>1, <2>2
<1>6. Folding(h, Y, base, G, c)
    <2>1. h = [Z \in SUBSET Y |-> h[Z]]
        OBVIOUS
    <2> HIDE DEF h
    <2>2. [Z \in SUBSET Y |-> h[Z]]
            = [Z \in SUBSET Y |-> IF Z = {} THEN base ELSE G[c[Z]][h[Z \ {c[Z]}]]]
        BY <1>5
    <2> QED BY <2>1, <2>2 DEF Folding
<1> QED BY <1>6

(* Its values stay in a set that base is in and G does not leave.          *)
LEMMA FoldingType ==
    ASSUME NEW X, IsFiniteSet(X), NEW V, NEW base \in V,
           NEW G, \A i \in X : G[i] \in [V -> V],
           NEW c, \A s \in SUBSET X : s # {} => c[s] \in s,
           NEW f, Folding(f, X, base, G, c)
    PROVE  f \in [SUBSET X -> V]
<1> DEFINE Bad == {s \in SUBSET X : f[s] \notin V}
<1>1. f = [s \in SUBSET X |-> f[s]]
    BY DEF Folding
<1>2. SUFFICES ASSUME Bad # {}
               PROVE  FALSE
    BY <1>1
<1>3. Bad \subseteq FiniteSubsetsOf(X)
    BY FS_Subset DEF FiniteSubsetsOf
<1>4. PICK s \in Bad : \A t \in Bad : <<t, s>> \notin StrictSubsetOrdering(X)
    <2> HIDE DEF Bad
    <2> QED BY <1>2, <1>3, WFMin, FS_StrictSubsetOrderingWellFounded
<1>5. s # {}
    BY DEF Folding
<1> DEFINE t == s \ {c[s]}
<1>6. t \in SUBSET X /\ t # s /\ t \subseteq s /\ c[s] \in X
    BY <1>5
<1>7. f[t] \in V
    <2>1. <<t, s>> \in StrictSubsetOrdering(X)
        BY <1>6 DEF StrictSubsetOrdering
    <2> QED BY <2>1, <1>4, <1>6
<1>8. f[s] = G[c[s]][f[t]]
    BY <1>5 DEF Folding
<1> QED BY <1>6, <1>7, <1>8

LEMMA LeastOf ==
    ASSUME NEW n \in Nat, NEW s \in SUBSET (1..n), s # {}
    PROVE  Min(s) \in s /\ \A k \in s : Min(s) <= k
<1>1. \E m \in s : \A k \in s : m <= k
    BY LeastElement
<1> QED BY <1>1 DEF Min

LEMMA GreatestOf ==
    ASSUME NEW n \in Nat, NEW s \in SUBSET (1..n), s # {}
    PROVE  Max(s) \in s /\ \A k \in s : k <= Max(s)
<1> DEFINE T == {n - k : k \in s}
<1>1. T \in SUBSET Nat /\ T # {}
    <2>1. \A k \in s : k \in 1..n /\ n - k \in Nat
        OBVIOUS
    <2> QED BY <2>1
<1>2. PICK m \in T : \A k \in T : m <= k
    <2> HIDE DEF T
    <2> QED BY <1>1, LeastElement
<1>3. PICK k \in s : m = n - k
    OBVIOUS
<1>4. ASSUME NEW j \in s
      PROVE  k >= j
    <2>1. n - j \in T
        OBVIOUS
    <2>2. n - k <= n - j
        <3> HIDE DEF T
        <3> QED BY <2>1, <1>2, <1>3
    <2>3. j \in 1..n /\ k \in 1..n
        OBVIOUS
    <2> HIDE DEF T
    <2> QED BY <2>2, <2>3
<1>5. \E x \in s : \A y \in s : x >= y
    BY <1>4
<1>6. Max(s) \in s /\ \A k2 \in s : Max(s) >= k2
    BY <1>5 DEF Max
<1> QED BY <1>6

Leftmost(n) == [s \in SUBSET (1..n) |-> Min(s)]
Rightmost(n) == [s \in SUBSET (1..n) |-> Max(s)]

LEMMA OutermostAreIn ==
    ASSUME NEW n \in Nat, NEW s \in SUBSET (1..n), s # {}
    PROVE  Leftmost(n)[s] \in s /\ Rightmost(n)[s] \in s
BY LeastOf, GreatestOf DEF Leftmost, Rightmost

(* A fold from the right goes through the ends of the list: f[k..n] is the *)
(* fold of what starts at k.                                               *)
LEMMA FromTheRight ==
    ASSUME NEW n \in Nat, NEW base, NEW G,
           NEW f, Folding(f, 1..n, base, G, Leftmost(n))
    PROVE  /\ f[(n + 1)..n] = base
           /\ \A k \in 1..n : f[k..n] = G[k][f[(k + 1)..n]]
<1>1. f[(n + 1)..n] = base
    BY DEF Folding
<1>2. ASSUME NEW k \in 1..n
      PROVE  f[k..n] = G[k][f[(k + 1)..n]]
    <2>1. k..n \in SUBSET (1..n) /\ k \in k..n /\ (k..n) \ {k} = (k + 1)..n
        OBVIOUS
    <2>2. Min(k..n) = k
        <3>1. Min(k..n) \in k..n /\ \A j \in k..n : Min(k..n) <= j
            BY <2>1, LeastOf
        <3> QED BY <2>1, <3>1
    <2>3. k..n # {} /\ Leftmost(n)[k..n] = k
        BY <2>1, <2>2 DEF Leftmost
    <2>4. f[k..n] = G[k][f[(k..n) \ {k}]]
        BY <2>1, <2>3 DEF Folding
    <2> QED BY <2>1, <2>4
<1> QED BY <1>1, <1>2

(* A fold from the left goes through the beginnings of the list.           *)
LEMMA FromTheLeft ==
    ASSUME NEW n \in Nat, NEW base, NEW G,
           NEW f, Folding(f, 1..n, base, G, Rightmost(n))
    PROVE  /\ f[1..0] = base
           /\ \A k \in 1..n : f[1..k] = G[k][f[1..(k - 1)]]
<1>1. f[1..0] = base
    BY DEF Folding
<1>2. ASSUME NEW k \in 1..n
      PROVE  f[1..k] = G[k][f[1..(k - 1)]]
    <2>1. 1..k \in SUBSET (1..n) /\ k \in 1..k /\ (1..k) \ {k} = 1..(k - 1)
        OBVIOUS
    <2>2. Max(1..k) = k
        <3>1. Max(1..k) \in 1..k /\ \A j \in 1..k : j <= Max(1..k)
            BY <2>1, GreatestOf
        <3> QED BY <2>1, <3>1
    <2>3. 1..k # {} /\ Rightmost(n)[1..k] = k
        BY <2>1, <2>2 DEF Rightmost
    <2>4. f[1..k] = G[k][f[(1..k) \ {k}]]
        BY <2>1, <2>3 DEF Folding
    <2> QED BY <2>1, <2>4
<1> QED BY <1>1, <1>2

-----------------------------------------------------------------------------
(* FlattenSeq appends one list after the other.                            *)
LEMMA FlattenSteps ==
    ASSUME NEW X, NEW seqs \in Seq(Seq(X))
    PROVE  \E acc \in [0..Len(seqs) -> Seq(X)] :
               /\ acc[0] = << >>
               /\ \A k \in 1..Len(seqs) : acc[k] = acc[k - 1] \o seqs[k]
               /\ FlattenSeq(seqs) = acc[Len(seqs)]
<1> DEFINE n == Len(seqs)
           V == Seq(X)
<1>1. /\ n \in Nat /\ n = Len(seqs) /\ V = Seq(X)
      /\ seqs \in [1..n -> V]
      /\ << >> \in V
      /\ \A u, v \in V : u \o v \in V
      /\ \A v \in V : << >> \o v = v
    OBVIOUS
<1> HIDE DEF n, V
<1> DEFINE G == [i \in 1..n |-> [v \in V |-> v \o seqs[i]]]
<1>2. \A i \in 1..n : G[i] \in [V -> V]
    BY <1>1
<1>3. \A i \in 1..n : \A v \in V : G[i][v] = v \o seqs[i]
    OBVIOUS
<1> HIDE DEF G
<1>4. IsFiniteSet(1..n) /\ \A s \in SUBSET (1..n) : s # {} => Rightmost(n)[s] \in s
    <2>1. IsFiniteSet(1..n)
        BY <1>1, FS_Interval
    <2>2. \A s \in SUBSET (1..n) : s # {} => Rightmost(n)[s] \in s
        BY <1>1, OutermostAreIn
    <2> QED BY <2>1, <2>2
<1>5. PICK g : Folding(g, 1..n, << >>, G, Rightmost(n))
    BY <1>4, FoldingExists
<1>6. g \in [SUBSET (1..n) -> V]
    BY <1>1, <1>2, <1>4, <1>5, FoldingType
<1>7. g[1..0] = << >> /\ \A k \in 1..n : g[1..k] = G[k][g[1..(k - 1)]]
    BY <1>1, <1>5, FromTheLeft
<1>8. \A k \in 0..n : 1..k \in SUBSET (1..n) /\ g[1..k] \in V
    BY <1>1, <1>6
<1> DEFINE acc == [k \in 0..n |-> g[1..k]]
<1>9. acc \in [0..n -> V] /\ acc[0] = << >>
    BY <1>1, <1>7, <1>8
<1>10. ASSUME NEW k \in 1..n
       PROVE  acc[k] = acc[k - 1] \o seqs[k]
    <2>1. k - 1 \in 0..n /\ k \in 0..n
        BY <1>1
    <2>2. acc[k] = g[1..k] /\ acc[k - 1] = g[1..(k - 1)] /\ acc[k - 1] \in V
        BY <2>1, <1>8
    <2> HIDE DEF acc
    <2> QED BY <2>2, <1>3, <1>7
<1> HIDE DEF acc
<1>11. n # 0 => acc[1] = seqs[1]
    <2>1. n # 0 => 1 \in 1..n
        BY <1>1
    <2>2. n # 0 => acc[1] = acc[0] \o seqs[1] /\ seqs[1] \in V
        BY <2>1, <1>1, <1>10
    <2> QED BY <2>2, <1>1, <1>9
<1>12. FlattenSeq(seqs) = acc[n]
    <2>1. CASE n = 0
        <3>1. FlattenSeq(seqs) = seqs
            BY <1>1, <2>1 DEF FlattenSeq
        <3>2. seqs = << >>
            BY <1>1, <2>1
        <3> QED BY <3>1, <3>2, <2>1, <1>9
    <2>2. CASE n # 0
        <3> DEFINE Is(f) == f = [i \in 1..n |-> IF i = 1 THEN seqs[i] ELSE f[i - 1] \o seqs[i]]
        <3>1. FlattenSeq(seqs) = (CHOOSE f : Is(f))[n]
            BY <1>1, <2>2 DEF FlattenSeq
        <3> DEFINE h == [i \in 1..n |-> acc[i]]
        <3>2. ASSUME NEW i \in 1..n
              PROVE  h[i] = IF i = 1 THEN seqs[i] ELSE h[i - 1] \o seqs[i]
            <4>1. i # 1 => i - 1 \in 1..n
                BY <1>1
            <4> QED BY <4>1, <1>10, <1>11, <2>2
        <3>3. Is(h)
            <4>1. h = [i \in 1..n |-> h[i]]
                OBVIOUS
            <4> HIDE DEF h
            <4>2. [i \in 1..n |-> h[i]]
                    = [i \in 1..n |-> IF i = 1 THEN seqs[i] ELSE h[i - 1] \o seqs[i]]
                BY <3>2
            <4> QED BY <4>1, <4>2
        <3>4. PICK f : Is(f) /\ f = CHOOSE e : Is(e)
            <4> HIDE DEF Is
            <4> QED BY <3>3
        <3>5. 1 \in 1..n /\ f[1] = seqs[1]
            <4>1. 1 \in 1..n
                BY <1>1, <2>2
            <4> QED BY <3>4, <4>1
        <3>6. \A i \in 1..n : i # 1 => f[i] = f[i - 1] \o seqs[i]
            BY <3>4
        <3> HIDE DEF Is, h
        <3> DEFINE T == {i \in Nat : i \in 1..n => f[i] = acc[i]}
        <3>7. 0 \in T
            OBVIOUS
        <3>8. ASSUME NEW i \in Nat, i \in T, i + 1 \in 1..n
              PROVE  f[i + 1] = acc[i + 1]
            <4>1. CASE i = 0
                BY <4>1, <3>5, <1>11, <2>2
            <4>2. CASE i # 0
                <5>1. i + 1 # 1 /\ (i + 1) - 1 = i /\ i \in 1..n
                    BY <4>2, <3>8, <1>1
                <5>2. f[i] = acc[i]
                    BY <3>8, <5>1
                <5> QED BY <5>1, <5>2, <3>6, <3>8, <1>10
            <4> QED BY <4>1, <4>2
        <3>9. \A i \in Nat : i \in T => i + 1 \in T
            BY <3>8
        <3>10. \A i \in Nat : i \in T
            <4> HIDE DEF T
            <4> QED BY <3>7, <3>9, Induction
        <3>11. f[n] = acc[n]
            <4>1. n \in T /\ n \in 1..n
                BY <3>10, <1>1, <2>2
            <4> QED BY <4>1
        <3> QED BY <3>1, <3>4, <3>11
    <2> QED BY <2>1, <2>2
<1> QED BY <1>1, <1>9, <1>10, <1>12

(* What it makes of lists is a list of their elements.                     *)
LEMMA FlattenType ==
    ASSUME NEW X, NEW seqs \in Seq(Seq(X))
    PROVE  FlattenSeq(seqs) \in Seq(X)
<1>1. PICK acc \in [0..Len(seqs) -> Seq(X)] : FlattenSeq(seqs) = acc[Len(seqs)]
    BY FlattenSteps
<1>2. Len(seqs) \in 0..Len(seqs)
    OBVIOUS
<1> QED BY <1>1, <1>2

-----------------------------------------------------------------------------
LEMMA ConcatPlaces ==
    ASSUME NEW X, NEW u \in Seq(X), NEW v \in Seq(X)
    PROVE  /\ Len(u \o v) = Len(u) + Len(v)
           /\ \A j \in 1..Len(u) : (u \o v)[j] = u[j]
           /\ \A a \in 1..Len(v) : (u \o v)[Len(u) + a] = v[a]
<1>1. Len(u) \in Nat /\ Len(v) \in Nat
    OBVIOUS
<1>2. \A j \in 1..(Len(u) + Len(v)) : (u \o v)[j] = IF j <= Len(u) THEN u[j] ELSE v[j - Len(u)]
    OBVIOUS
<1>3. Len(u \o v) = Len(u) + Len(v)
    OBVIOUS
<1>4. ASSUME NEW a \in 1..Len(v)
      PROVE  (u \o v)[Len(u) + a] = v[a]
    <2>1. Len(u) + a \in 1..(Len(u) + Len(v)) /\ ~(Len(u) + a <= Len(u)) /\ (Len(u) + a) - Len(u) = a
        BY <1>1
    <2> QED BY <1>2, <2>1
<1>5. ASSUME NEW j \in 1..Len(u)
      PROVE  (u \o v)[j] = u[j]
    <2>1. j \in 1..(Len(u) + Len(v)) /\ j <= Len(u)
        BY <1>1
    <2> QED BY <1>2, <2>1
<1> QED BY <1>3, <1>4, <1>5

(* Where the elements of the lists are in the flattened one: pos takes     *)
(* each place of a list to one of its own, and leaves none out.            *)
PlacesOf(seqs) == {p \in (DOMAIN seqs) \X Nat : p[2] \in DOMAIN seqs[p[1]]}

LEMMA FlattenPlaces ==
    ASSUME NEW X, NEW seqs \in Seq(Seq(X))
    PROVE  \E pos \in [PlacesOf(seqs) -> DOMAIN FlattenSeq(seqs)] :
               /\ \A p \in PlacesOf(seqs) : FlattenSeq(seqs)[pos[p]] = seqs[p[1]][p[2]]
               /\ \A p, q \in PlacesOf(seqs) : pos[p] = pos[q] => p = q
               /\ \A k \in DOMAIN FlattenSeq(seqs) : \E p \in PlacesOf(seqs) : pos[p] = k
<1>1. PICK acc \in [0..Len(seqs) -> Seq(X)] :
               /\ acc[0] = << >>
               /\ \A k \in 1..Len(seqs) : acc[k] = acc[k - 1] \o seqs[k]
               /\ FlattenSeq(seqs) = acc[Len(seqs)]
    BY FlattenSteps
<1> DEFINE n == Len(seqs)
           L == [k \in 0..n |-> Len(acc[k])]
<1>2. n \in Nat /\ n = Len(seqs) /\ 0 \in 0..n /\ n \in 0..n
      /\ DOMAIN seqs = 1..n /\ \A i \in 1..n : i \in 0..n /\ i - 1 \in 0..n
    OBVIOUS
<1>3. \A i \in 1..n : seqs[i] \in Seq(X) /\ DOMAIN seqs[i] = 1..Len(seqs[i]) /\ Len(seqs[i]) \in Nat
    OBVIOUS
<1>4. L[0] = 0 /\ \A k \in 0..n : L[k] \in Nat /\ DOMAIN acc[k] = 1..L[k]
    <2>1. \A k \in 0..n : acc[k] \in Seq(X) /\ L[k] = Len(acc[k])
        BY <1>1
    <2> QED BY <1>1, <1>2, <2>1
<1>5. ASSUME NEW k \in 1..n
      PROVE  /\ L[k] = L[k - 1] + Len(seqs[k])
             /\ \A j \in 1..L[k - 1] : acc[k][j] = acc[k - 1][j]
             /\ \A a \in 1..Len(seqs[k]) : acc[k][L[k - 1] + a] = seqs[k][a]
    <2>1. acc[k - 1] \in Seq(X) /\ seqs[k] \in Seq(X)
        BY <1>1, <1>2, <1>3
    <2>2. acc[k] = acc[k - 1] \o seqs[k]
        BY <1>1, <1>2
    <2>3. L[k] = Len(acc[k]) /\ L[k - 1] = Len(acc[k - 1])
        BY <1>2
    <2> HIDE DEF L
    <2>4. /\ Len(acc[k - 1] \o seqs[k]) = Len(acc[k - 1]) + Len(seqs[k])
          /\ \A j \in 1..Len(acc[k - 1]) : (acc[k - 1] \o seqs[k])[j] = acc[k - 1][j]
          /\ \A a \in 1..Len(seqs[k]) :
                 (acc[k - 1] \o seqs[k])[Len(acc[k - 1]) + a] = seqs[k][a]
        <3> DEFINE u == acc[k - 1]
                   v == seqs[k]
        <3>1. u \in Seq(X) /\ v \in Seq(X)
            BY <2>1
        <3> HIDE DEF u, v
        <3>2. /\ Len(u \o v) = Len(u) + Len(v)
              /\ \A j \in 1..Len(u) : (u \o v)[j] = u[j]
              /\ \A a \in 1..Len(v) : (u \o v)[Len(u) + a] = v[a]
            BY <3>1, ConcatPlaces
        <3> QED BY <3>2 DEF u, v
    <2> QED BY <2>2, <2>3, <2>4
<1> HIDE DEF L
<1>6. ASSUME NEW i \in 0..n, NEW k \in i..n
      PROVE  L[i] <= L[k] /\ \A j \in 1..L[i] : acc[k][j] = acc[i][j]
    <2> DEFINE S == {m \in Nat : m \in i..n =>
                        L[i] <= L[m] /\ \A j \in 1..L[i] : acc[m][j] = acc[i][j]}
    <2>1. 0 \in S
        <3>1. 0 \in i..n => i = 0
            OBVIOUS
        <3> QED BY <3>1, <1>4
    <2>2. ASSUME NEW m \in Nat, m \in S, m + 1 \in i..n
          PROVE  /\ L[i] <= L[m + 1]
                 /\ \A j \in 1..L[i] : acc[m + 1][j] = acc[i][j]
        <3>1. CASE m + 1 = i
            BY <3>1, <1>4
        <3>2. CASE m + 1 # i
            <4>1. m \in i..n /\ m + 1 \in 1..n /\ (m + 1) - 1 = m /\ m \in 0..n /\ m + 1 \in 0..n
                BY <2>2, <3>2, <1>2
            <4>2. L[i] <= L[m] /\ \A j \in 1..L[i] : acc[m][j] = acc[i][j]
                BY <2>2, <4>1
            <4>3. L[i] \in Nat /\ L[m] \in Nat /\ Len(seqs[m + 1]) \in Nat
                BY <1>3, <1>4, <4>1
            <4>4. L[m + 1] = L[m] + Len(seqs[m + 1])
                BY <1>5, <4>1
            <4>5. \A j \in 1..L[i] : j \in 1..L[m]
                BY <4>2, <4>3
            <4>6. \A j \in 1..L[m] : acc[m + 1][j] = acc[m][j]
                BY <1>5, <4>1
            <4>7. L[i] <= L[m + 1]
                BY <4>2, <4>3, <4>4
            <4>8. \A j \in 1..L[i] : acc[m + 1][j] = acc[i][j]
                BY <4>2, <4>5, <4>6
            <4> QED BY <4>7, <4>8
        <3> QED BY <3>1, <3>2
    <2>3. ASSUME NEW m \in Nat, m \in S
          PROVE  m + 1 \in S
        <3>1. m + 1 \in i..n => /\ L[i] <= L[m + 1]
                                /\ \A j \in 1..L[i] : acc[m + 1][j] = acc[i][j]
            <4> HIDE DEF S
            <4> QED BY <2>2, <2>3
        <3> QED BY <3>1
    <2>4. k \in Nat
        BY <1>2
    <2>5. \A m \in Nat : m \in S
        <3> HIDE DEF S
        <3> QED BY <2>1, <2>3, Induction
    <2> QED BY <2>4, <2>5
<1> DEFINE F == FlattenSeq(seqs)
           P == PlacesOf(seqs)
           pos == [p \in P |-> L[p[1] - 1] + p[2]]
<1>7. F = acc[n] /\ DOMAIN F = 1..L[n]
    BY <1>1, <1>2, <1>4
<1>8. ASSUME NEW p \in P
      PROVE  p = <<p[1], p[2]>> /\ p[1] \in 1..n /\ p[2] \in 1..Len(seqs[p[1]])
    <2>1. p \in (DOMAIN seqs) \X Nat /\ p[2] \in DOMAIN seqs[p[1]]
        BY DEF PlacesOf
    <2> DEFINE D == DOMAIN seqs
    <2>2. p \in D \X Nat
        BY <2>1
    <2>3. D = 1..n
        BY <1>2
    <2> HIDE DEF D
    <2>4. p = <<p[1], p[2]>> /\ p[1] \in D
        BY <2>2
    <2> QED BY <1>3, <2>1, <2>3, <2>4
<1>9. ASSUME NEW i \in 1..n, NEW a \in 1..Len(seqs[i])
      PROVE  <<i, a>> \in P
    <2> DEFINE D == DOMAIN seqs
    <2>1. a \in Nat /\ i \in D /\ a \in DOMAIN seqs[i]
        BY <1>2, <1>3
    <2>2. P = {p \in D \X Nat : p[2] \in DOMAIN seqs[p[1]]}
        BY DEF PlacesOf, P
    <2> HIDE DEF D
    <2> QED BY <2>1, <2>2
<1> HIDE DEF F, P
<1>10. ASSUME NEW p \in P
       PROVE  /\ pos[p] \in DOMAIN F /\ F[pos[p]] = seqs[p[1]][p[2]]
              /\ L[p[1] - 1] < pos[p] /\ pos[p] <= L[p[1]]
    <2> DEFINE i == p[1]
               a == p[2]
    <2>1. i \in 1..n /\ a \in 1..Len(seqs[i]) /\ i \in 0..n /\ i - 1 \in 0..n
          /\ n \in i..n /\ Len(seqs[i]) \in Nat
        BY <1>2, <1>3, <1>8
    <2>2. pos[p] = L[i - 1] + a
        OBVIOUS
    <2> HIDE DEF i, a
    <2>3. L[i] \in Nat /\ L[i - 1] \in Nat /\ L[n] \in Nat /\ L[i] = L[i - 1] + Len(seqs[i])
        BY <1>2, <1>4, <1>5, <2>1
    <2>4. acc[i][L[i - 1] + a] = seqs[i][a]
        BY <1>5, <2>1
    <2>5. L[i] <= L[n] /\ \A j \in 1..L[i] : acc[n][j] = acc[i][j]
        BY <1>6, <2>1
    <2>6. pos[p] \in 1..L[i] /\ pos[p] \in 1..L[n] /\ L[i - 1] < pos[p] /\ pos[p] <= L[i]
        <3>1. a \in Nat /\ a >= 1 /\ a <= Len(seqs[i])
            BY <2>1
        <3>2. L[i] <= L[n]
            BY <2>5
        <3> DEFINE k == L[i - 1]
        <3>3. k \in Nat /\ L[i] = k + Len(seqs[i]) /\ pos[p] = k + a
            BY <2>2, <2>3
        <3> HIDE DEF pos, k
        <3>4. k + a \in 1..L[i] /\ k + a \in 1..L[n] /\ k < k + a /\ k + a <= L[i]
            BY <2>1, <2>3, <3>1, <3>2, <3>3
        <3> QED BY <3>3, <3>4 DEF k
    <2> HIDE DEF pos
    <2>7. F[pos[p]] = seqs[i][a]
        BY <1>7, <2>2, <2>4, <2>5, <2>6
    <2> QED BY <1>7, <2>6, <2>7 DEF i, a
<1>11. ASSUME NEW p \in P, NEW q \in P, pos[p] = pos[q], p[1] < q[1]
       PROVE  FALSE
    <2>1. p[1] \in 0..n /\ q[1] - 1 \in p[1]..n /\ q[1] - 1 \in 0..n
        BY <1>2, <1>8, <1>11
    <2>2. L[p[1]] <= L[q[1] - 1]
        BY <1>6, <2>1
    <2>3. pos[p] <= L[p[1]] /\ L[q[1] - 1] < pos[q]
        BY <1>10
    <2>4. pos[p] \in Nat /\ L[p[1]] \in Nat /\ L[q[1] - 1] \in Nat
        <3>1. DOMAIN F \subseteq Nat
            BY <1>2, <1>4, <1>7
        <3> QED BY <1>4, <1>10, <2>1, <3>1
    <2> HIDE DEF pos
    <2> QED BY <1>11, <2>2, <2>3, <2>4
<1>12. ASSUME NEW p \in P, NEW q \in P, pos[p] = pos[q]
       PROVE  p = q
    <2>1. p[1] \in 1..n /\ q[1] \in 1..n
        BY <1>8
    <2>2. p[1] = q[1]
        <3> HIDE DEF pos
        <3> QED BY <1>2, <1>11, <1>12, <2>1
    <2>3. p[2] = q[2]
        <3>1. L[p[1] - 1] \in Nat /\ p[2] \in Nat /\ q[2] \in Nat
            BY <1>2, <1>3, <1>4, <1>8, <2>1
        <3>2. L[p[1] - 1] + p[2] = L[p[1] - 1] + q[2]
            BY <1>12, <2>2
        <3> QED BY <3>1, <3>2
    <2> QED BY <1>8, <2>2, <2>3
<1>13. ASSUME NEW k \in DOMAIN F
       PROVE  \E p \in P : pos[p] = k
    <2> DEFINE T == {i \in 0..n : k <= L[i]}
    <2>1. n \in T /\ T \subseteq Nat /\ k \in Nat /\ k >= 1
        BY <1>2, <1>4, <1>7
    <2>2. PICK m \in T : \A i \in T : m <= i
        <3> HIDE DEF T
        <3> QED BY <2>1, LeastElement
    <2>3. m # 0 /\ m \in 0..n
        BY <1>4, <2>1
    <2>4. m \in 1..n /\ m - 1 \in 0..n
        BY <1>2, <2>3
    <2>5. ~(k <= L[m - 1])
        BY <2>2, <2>4, <1>2
    <2>6. L[m - 1] \in Nat /\ L[m] \in Nat /\ k <= L[m] /\ L[m] = L[m - 1] + Len(seqs[m]) /\ Len(seqs[m]) \in Nat
        BY <1>3, <1>4, <1>5, <2>3, <2>4
    <2>7. k - L[m - 1] \in 1..Len(seqs[m]) /\ L[m - 1] + (k - L[m - 1]) = k
        BY <2>1, <2>5, <2>6
    <2>8. <<m, k - L[m - 1]>> \in P
        BY <1>9, <2>4, <2>7
    <2>9. pos[<<m, k - L[m - 1]>>] = k
        BY <2>7, <2>8
    <2> QED BY <2>8, <2>9
<1>14. pos \in [P -> DOMAIN F]
    BY <1>10
<1> QED BY <1>10, <1>12, <1>13, <1>14 DEF P, F

(* What is flattened is the elements of the lists, and no others.         *)
LEMMA FlattenIn ==
    ASSUME NEW X, NEW seqs \in Seq(Seq(X))
    PROVE  /\ \A k \in DOMAIN FlattenSeq(seqs) : \E i \in DOMAIN seqs : \E j \in DOMAIN seqs[i] :
                  FlattenSeq(seqs)[k] = seqs[i][j]
           /\ \A i \in DOMAIN seqs : \A j \in DOMAIN seqs[i] : \E k \in DOMAIN FlattenSeq(seqs) :
                  FlattenSeq(seqs)[k] = seqs[i][j]
<1> DEFINE F == FlattenSeq(seqs)
           P == PlacesOf(seqs)
<1>1. PICK pos \in [P -> DOMAIN F] :
          /\ \A p \in P : F[pos[p]] = seqs[p[1]][p[2]]
          /\ \A p, q \in P : pos[p] = pos[q] => p = q
          /\ \A k \in DOMAIN F : \E p \in P : pos[p] = k
    BY FlattenPlaces
<1>2. \A p \in P : p[1] \in DOMAIN seqs /\ p[2] \in DOMAIN seqs[p[1]]
    BY DEF PlacesOf
<1>3. ASSUME NEW i \in DOMAIN seqs, NEW j \in DOMAIN seqs[i]
      PROVE  <<i, j>> \in P
    <2>1. seqs[i] \in Seq(X)
        OBVIOUS
    <2>2. DOMAIN seqs[i] \subseteq Nat
        BY <2>1
    <2> QED BY <2>2 DEF PlacesOf
<1> HIDE DEF F, P
<1>4. \A k \in DOMAIN F : \E i \in DOMAIN seqs : \E j \in DOMAIN seqs[i] : F[k] = seqs[i][j]
    BY <1>1, <1>2
<1>5. \A i \in DOMAIN seqs : \A j \in DOMAIN seqs[i] : \E k \in DOMAIN F : F[k] = seqs[i][j]
    <2>1. \A i \in DOMAIN seqs : \A j \in DOMAIN seqs[i] :
              pos[<<i, j>>] \in DOMAIN F /\ F[pos[<<i, j>>]] = seqs[i][j]
        BY <1>1, <1>3
    <2> QED BY <2>1
<1> QED BY <1>4, <1>5 DEF F

(* Each place of s has one of its own in t with the same element: t is     *)
(* made of what s is made of, in whatever order, and maybe of more.        *)
Embeds(s, t) ==
    \E f \in [DOMAIN s -> DOMAIN t] :
        /\ \A i \in DOMAIN s : s[i] = t[f[i]]
        /\ \A i, j \in DOMAIN s : f[i] = f[j] => i = j

LEMMA FlattenEmbeds ==
    ASSUME NEW X, NEW s \in Seq(Seq(X)), NEW t \in Seq(Seq(X)), Embeds(s, t)
    PROVE  Embeds(FlattenSeq(s), FlattenSeq(t))
<1> DEFINE Fs == FlattenSeq(s)
           Ft == FlattenSeq(t)
           Ps == PlacesOf(s)
           Pt == PlacesOf(t)
<1>1. PICK f \in [DOMAIN s -> DOMAIN t] :
          /\ \A i \in DOMAIN s : s[i] = t[f[i]]
          /\ \A i, j \in DOMAIN s : f[i] = f[j] => i = j
    BY DEF Embeds
<1>2. PICK p \in [Ps -> DOMAIN Fs] :
          /\ \A x \in Ps : Fs[p[x]] = s[x[1]][x[2]]
          /\ \A x, y \in Ps : p[x] = p[y] => x = y
          /\ \A k \in DOMAIN Fs : \E x \in Ps : p[x] = k
    BY FlattenPlaces
<1>3. PICK q \in [Pt -> DOMAIN Ft] :
          /\ \A x \in Pt : Ft[q[x]] = t[x[1]][x[2]]
          /\ \A x, y \in Pt : q[x] = q[y] => x = y
    BY FlattenPlaces
<1>4. ASSUME NEW x \in Ps
      PROVE  /\ x = <<x[1], x[2]>> /\ x[1] \in DOMAIN s
             /\ <<f[x[1]], x[2]>> \in Pt /\ t[f[x[1]]][x[2]] = s[x[1]][x[2]]
    <2>1. x = <<x[1], x[2]>> /\ x[1] \in DOMAIN s /\ x[2] \in Nat /\ x[2] \in DOMAIN s[x[1]]
        BY DEF PlacesOf
    <2>2. f[x[1]] \in DOMAIN t /\ s[x[1]] = t[f[x[1]]]
        BY <1>1, <2>1
    <2> QED BY <2>1, <2>2 DEF PlacesOf
<1> HIDE DEF Fs, Ft, Ps, Pt
<1> DEFINE at == [k \in DOMAIN Fs |-> CHOOSE x \in Ps : p[x] = k]
<1>5. \A k \in DOMAIN Fs : at[k] \in Ps /\ p[at[k]] = k
    BY <1>2
<1> HIDE DEF at
<1> DEFINE to(x) == <<f[x[1]], x[2]>>
           g == [k \in DOMAIN Fs |-> q[to(at[k])]]
<1>6. g \in [DOMAIN Fs -> DOMAIN Ft]
    BY <1>3, <1>4, <1>5
<1>7. ASSUME NEW k \in DOMAIN Fs
      PROVE  Fs[k] = Ft[g[k]]
    <2>1. Fs[k] = s[at[k][1]][at[k][2]]
        BY <1>2, <1>5
    <2>2. to(at[k]) \in Pt /\ to(at[k])[1] = f[at[k][1]] /\ to(at[k])[2] = at[k][2]
        BY <1>4, <1>5
    <2>3. Ft[q[to(at[k])]] = t[f[at[k][1]]][at[k][2]]
        <3> HIDE DEF to
        <3> QED BY <1>3, <2>2
    <2>4. g[k] = q[to(at[k])]
        OBVIOUS
    <2> QED BY <1>4, <1>5, <2>1, <2>3, <2>4
<1>8. ASSUME NEW k \in DOMAIN Fs, NEW j \in DOMAIN Fs, g[k] = g[j]
      PROVE  k = j
    <2>1. to(at[k]) \in Pt /\ to(at[j]) \in Pt /\ q[to(at[k])] = q[to(at[j])]
        BY <1>4, <1>5, <1>8
    <2>2. to(at[k]) = to(at[j])
        <3> HIDE DEF to
        <3> QED BY <1>3, <2>1
    <2>3. f[at[k][1]] = f[at[j][1]] /\ at[k][2] = at[j][2]
        BY <2>2
    <2>4. at[k][1] = at[j][1]
        BY <1>1, <1>4, <1>5, <2>3
    <2>5. at[k] = at[j]
        <3>1. /\ at[k] = <<at[k][1], at[k][2]>>
              /\ at[j] = <<at[j][1], at[j][2]>>
            BY <1>4, <1>5
        <3> QED BY <2>3, <2>4, <3>1
    <2> QED BY <1>5, <2>5
<1> HIDE DEF g
<1> QED BY <1>6, <1>7, <1>8 DEF Embeds, Fs, Ft

LEMMA ConcatEmbeds ==
    ASSUME NEW X, NEW s1 \in Seq(X), NEW s2 \in Seq(X), NEW t1 \in Seq(X), NEW t2 \in Seq(X),
           Embeds(s1, t1), Embeds(s2, t2)
    PROVE  Embeds(s1 \o s2, t1 \o t2)
<1>1. PICK f \in [DOMAIN s1 -> DOMAIN t1] :
          /\ \A i \in DOMAIN s1 : s1[i] = t1[f[i]]
          /\ \A i, j \in DOMAIN s1 : f[i] = f[j] => i = j
    BY DEF Embeds
<1>2. PICK h \in [DOMAIN s2 -> DOMAIN t2] :
          /\ \A i \in DOMAIN s2 : s2[i] = t2[h[i]]
          /\ \A i, j \in DOMAIN s2 : h[i] = h[j] => i = j
    BY DEF Embeds
<1> DEFINE m == Len(s1)
           n == Len(t1)
           s == s1 \o s2
           t == t1 \o t2
<1>3. /\ m \in Nat /\ n \in Nat /\ Len(s2) \in Nat /\ Len(t2) \in Nat
      /\ DOMAIN s1 = 1..m /\ DOMAIN t1 = 1..n
      /\ DOMAIN s2 = 1..Len(s2) /\ DOMAIN t2 = 1..Len(t2)
      /\ DOMAIN s = 1..(m + Len(s2)) /\ DOMAIN t = 1..(n + Len(t2))
    OBVIOUS
<1>4. /\ \A i \in 1..m : s[i] = s1[i]
      /\ \A a \in 1..Len(s2) : s[m + a] = s2[a]
    BY ConcatPlaces
<1>5. /\ \A i \in 1..n : t[i] = t1[i]
      /\ \A a \in 1..Len(t2) : t[n + a] = t2[a]
    BY ConcatPlaces
<1> HIDE DEF m, n, s, t
<1>6. \A i \in DOMAIN s : i \in 1..m \/ (i - m \in 1..Len(s2) /\ m + (i - m) = i /\ ~(i <= m))
    BY <1>3
<1> DEFINE g == [i \in DOMAIN s |-> IF i <= m THEN f[i] ELSE n + h[i - m]]
<1>7. \A i \in 1..m : f[i] \in 1..n
    BY <1>1, <1>3
<1>8. \A i \in 1..Len(s2) : h[i] \in 1..Len(t2)
    BY <1>2, <1>3
<1>9. ASSUME NEW i \in DOMAIN s
      PROVE  g[i] \in DOMAIN t /\ s[i] = t[g[i]]
    <2>1. CASE i \in 1..m
        <3>1. g[i] = f[i] /\ f[i] \in 1..n
            BY <1>3, <1>7, <2>1
        <3> HIDE DEF g
        <3>2. g[i] \in DOMAIN t
            BY <1>3, <3>1
        <3> QED BY <1>1, <1>3, <1>4, <1>5, <2>1, <3>1, <3>2
    <2>2. CASE i \notin 1..m
        <3>1. i - m \in 1..Len(s2) /\ m + (i - m) = i /\ ~(i <= m)
            BY <1>6, <2>2
        <3>2. g[i] = n + h[i - m] /\ h[i - m] \in 1..Len(t2)
            BY <1>8, <3>1
        <3> HIDE DEF g
        <3>3. g[i] \in DOMAIN t
            BY <1>3, <3>2
        <3>4. s[i] = s2[i - m] /\ t[g[i]] = t2[h[i - m]]
            BY <1>4, <1>5, <3>1, <3>2
        <3> QED BY <1>2, <1>3, <3>1, <3>3, <3>4
    <2> QED BY <2>1, <2>2
<1>10. ASSUME NEW i \in DOMAIN s, NEW j \in DOMAIN s, g[i] = g[j], i <= j
       PROVE  i = j
    <2>1. CASE j \in 1..m
        <3>1. i \in 1..m /\ g[i] = f[i] /\ g[j] = f[j]
            BY <1>3, <1>10, <2>1
        <3> QED BY <1>1, <1>3, <1>10, <2>1, <3>1
    <2>2. CASE i \in 1..m /\ j \notin 1..m
        <3>1. g[i] = f[i] /\ g[j] = n + h[j - m] /\ f[i] \in 1..n /\ h[j - m] \in 1..Len(t2)
            BY <1>3, <1>6, <1>7, <1>8, <2>2
        <3>2. f[i] = n + h[j - m]
            BY <1>10, <3>1
        <3> HIDE DEF g
        <3> QED BY <1>3, <3>1, <3>2
    <2>3. CASE i \notin 1..m /\ j \notin 1..m
        <3>1. /\ i - m \in 1..Len(s2) /\ ~(i <= m) /\ m + (i - m) = i
              /\ j - m \in 1..Len(s2) /\ ~(j <= m) /\ m + (j - m) = j
            BY <1>6, <2>3
        <3>2. /\ g[i] = n + h[i - m] /\ h[i - m] \in 1..Len(t2)
              /\ g[j] = n + h[j - m] /\ h[j - m] \in 1..Len(t2)
            BY <1>8, <3>1
        <3>3. n + h[i - m] = n + h[j - m]
            BY <1>10, <3>2
        <3> HIDE DEF g
        <3>5. h[i - m] = h[j - m]
            BY <1>3, <3>2, <3>3
        <3>4. i - m = j - m
            BY <1>2, <1>3, <3>1, <3>5
        <3> QED BY <3>1, <3>4
    <2> QED BY <2>1, <2>2, <2>3
<1>11. \A i, j \in DOMAIN s : g[i] = g[j] => i = j
    <2>1. \A i, j \in DOMAIN s : i <= j \/ j <= i
        BY <1>3
    <2> HIDE DEF g
    <2> QED BY <1>10, <2>1
<1>12. g \in [DOMAIN s -> DOMAIN t]
    BY <1>9
<1> HIDE DEF g
<1> QED BY <1>9, <1>11, <1>12 DEF Embeds, s, t

(* A finite set made a list, each element once.                            *)
LEMMA SetToSeqLists ==
    ASSUME NEW S, IsFiniteSet(S)
    PROVE  /\ SetToSeq(S) \in Seq(S)
           /\ ToSet(SetToSeq(S)) = S
           /\ \A i, j \in DOMAIN SetToSeq(S) : SetToSeq(S)[i] = SetToSeq(S)[j] => i = j
<1> DEFINE n == Cardinality(S)
           s == SetToSeq(S)
<1>1. n \in Nat /\ ExistsBijection(1..n, S)
    BY FS_CardinalityType
<1>2. \E f \in [1..n -> S] : IsInjective(f)
    <2>1. PICK f \in Bijection(1..n, S) : TRUE
        BY <1>1 DEF ExistsBijection
    <2>2. f \in [1..n -> S] /\ IsInjective(f)
        BY <2>1 DEF Bijection, Injection, Surjection, IsInjective
    <2> QED BY <2>2
<1>3. s \in [1..n -> S] /\ IsInjective(s)
    BY <1>2 DEF SetToSeq
<1> HIDE DEF s
<1>4. s \in Injection(1..n, S)
    BY <1>3 DEF Injection, IsInjective
<1>5. Cardinality(1..n) = n /\ IsFiniteSet(1..n)
    BY <1>1, FS_Interval
<1>6. s \in Surjection(1..n, S)
    BY <1>4, <1>5, FS_Injection
<1>7. s \in Seq(S)
    BY <1>1, <1>3
<1>8. ToSet(s) = S
    BY <1>3, <1>6 DEF Surjection, ToSet
<1>9. \A i, j \in DOMAIN s : s[i] = s[j] => i = j
    BY <1>3 DEF IsInjective
<1> QED BY <1>7, <1>8, <1>9 DEF s

-----------------------------------------------------------------------------
(* A list of lists that is two such lists, one after the other.            *)
LEMMA Prepended ==
    ASSUME NEW X, NEW x \in X, NEW u \in Seq(X)
    PROVE  /\ <<x>> \o u \in Seq(X)
           /\ Len(<<x>> \o u) = Len(u) + 1
           /\ (<<x>> \o u)[1] = x
           /\ \A i \in 1..Len(u) : (<<x>> \o u)[i + 1] = u[i]
<1> DEFINE one == <<x>>
<1>1. one \in Seq(X) /\ Len(one) = 1 /\ one[1] = x
    OBVIOUS
<1> HIDE DEF one
<1>2. /\ Len(one \o u) = Len(one) + Len(u)
      /\ \A j \in 1..Len(one) : (one \o u)[j] = one[j]
      /\ \A a \in 1..Len(u) : (one \o u)[Len(one) + a] = u[a]
    BY <1>1, ConcatPlaces
<1>3. one \o u \in Seq(X)
    BY <1>1
<1>4. Len(u) \in Nat /\ 1 + Len(u) = Len(u) + 1 /\ 1 \in 1..1
    OBVIOUS
<1>5. (one \o u)[1] = x /\ Len(one \o u) = Len(u) + 1
    BY <1>1, <1>2, <1>4
<1>6. \A i \in 1..Len(u) : 1 + i = i + 1
    BY <1>4
<1>7. \A i \in 1..Len(u) : (one \o u)[i + 1] = u[i]
    BY <1>1, <1>2, <1>6
<1> QED BY <1>3, <1>5, <1>7 DEF one

LEMMA FlattenNone == FlattenSeq(<< >>) = << >>
<1> DEFINE none == << >>
<1>1. none \in Seq(Seq({})) /\ Len(none) = 0
    OBVIOUS
<1> HIDE DEF none
<1>2. PICK acc \in [0..Len(none) -> Seq({})] :
          acc[0] = << >> /\ FlattenSeq(none) = acc[Len(none)]
    BY <1>1, FlattenSteps
<1>3. FlattenSeq(none) = << >>
    BY <1>1, <1>2
<1> QED BY <1>3 DEF none

LEMMA FlattenOne ==
    ASSUME NEW X, NEW u \in Seq(X)
    PROVE  FlattenSeq(<<u>>) = u
<1>1. <<u>> \in Seq(Seq(X)) /\ Len(<<u>>) = 1 /\ <<u>>[1] = u
    OBVIOUS
<1>2. PICK acc \in [0..1 -> Seq(X)] :
          /\ acc[0] = << >>
          /\ \A k \in 1..1 : acc[k] = acc[k - 1] \o <<u>>[k]
          /\ FlattenSeq(<<u>>) = acc[1]
    BY <1>1, FlattenSteps
<1>3. acc[1] = << >> \o u
    BY <1>1, <1>2
<1> QED BY <1>2, <1>3

LEMMA FlattenConcat ==
    ASSUME NEW X, NEW s \in Seq(Seq(X)), NEW t \in Seq(Seq(X))
    PROVE  FlattenSeq(s \o t) = FlattenSeq(s) \o FlattenSeq(t)
<1> DEFINE m == Len(s)
           n == Len(t)
           r == s \o t
<1>1. /\ m \in Nat /\ n \in Nat /\ m = Len(s) /\ n = Len(t)
      /\ r \in Seq(Seq(X)) /\ Len(r) = m + n
      /\ \A k \in 1..m : r[k] = s[k]
      /\ \A k \in 1..n : r[m + k] = t[k] /\ t[k] \in Seq(X)
    <2>1. r \in Seq(Seq(X)) /\ \A k \in 1..n : t[k] \in Seq(X)
        OBVIOUS
    <2> QED BY <2>1, ConcatPlaces
<1> DEFINE V == Seq(X)
<1>0. /\ \A k \in 1..n : t[k] \in V
      /\ \A v \in V : v \o << >> = v
      /\ \A u, v, w \in V : (u \o v) \o w = u \o (v \o w)
    BY ConcatEmptySeq, ConcatAssociative
<1>7. Len(s) = m /\ Len(t) = n
    OBVIOUS
<1> HIDE DEF m, n, r
<1>2. PICK a \in [0..m -> V] :
          /\ a[0] = << >>
          /\ \A k \in 1..m : a[k] = a[k - 1] \o s[k]
          /\ FlattenSeq(s) = a[m]
    BY <1>7, FlattenSteps DEF m
<1>3. PICK b \in [0..n -> V] :
          /\ b[0] = << >>
          /\ \A k \in 1..n : b[k] = b[k - 1] \o t[k]
          /\ FlattenSeq(t) = b[n]
    BY FlattenSteps DEF n
<1>4. PICK c \in [0..(m + n) -> V] :
          /\ c[0] = << >>
          /\ \A k \in 1..(m + n) : c[k] = c[k - 1] \o r[k]
          /\ FlattenSeq(r) = c[m + n]
    <2>1. \E c \in [0..Len(r) -> Seq(X)] :
              /\ c[0] = << >>
              /\ \A k \in 1..Len(r) : c[k] = c[k - 1] \o r[k]
              /\ FlattenSeq(r) = c[Len(r)]
        BY <1>1, FlattenSteps
    <2>2. Len(r) = m + n
        BY <1>1
    <2> QED BY <2>1, <2>2
<1> HIDE DEF V
<1>5. \A k \in Nat : k \in 0..m => c[k] = a[k]
    <2> DEFINE S == {k \in Nat : k \in 0..m => c[k] = a[k]}
    <2>1. 0 \in S
        BY <1>2, <1>4
    <2>2. ASSUME NEW k \in Nat, k \in S
          PROVE  k + 1 \in S
        <3>1. SUFFICES ASSUME k + 1 \in 0..m
                       PROVE  c[k + 1] = a[k + 1]
            OBVIOUS
        <3>2. k \in 0..m /\ k + 1 \in 1..m /\ k + 1 \in 1..(m + n) /\ (k + 1) - 1 = k
            BY <1>1, <3>1
        <3>3. c[k + 1] = c[k] \o r[k + 1] /\ a[k + 1] = a[k] \o s[k + 1]
            BY <1>2, <1>4, <3>2
        <3>4. c[k] = a[k] /\ r[k + 1] = s[k + 1]
            BY <1>1, <2>2, <3>2
        <3> QED BY <3>3, <3>4
    <2> HIDE DEF S
    <2>3. \A k \in Nat : k \in S
        BY <2>1, <2>2, Induction
    <2> QED BY <2>3 DEF S
<1>6. \A k \in Nat : k \in 0..n => c[m + k] = a[m] \o b[k]
    <2> DEFINE S == {k \in Nat : k \in 0..n => c[m + k] = a[m] \o b[k]}
    <2>0. m \in 0..m /\ a[m] \in V
        <3>1. m \in Nat
            BY <1>1
        <3>2. m \in 0..m
            BY <3>1
        <3> QED BY <3>2
    <2>1. 0 \in S
        <3>1. c[m + 0] = a[m]
            BY <1>1, <1>5, <2>0
        <3>2. a[m] \o << >> = a[m]
            BY <1>0, <2>0
        <3> QED BY <1>3, <3>1, <3>2
    <2>2. ASSUME NEW k \in Nat, k \in S
          PROVE  k + 1 \in S
        <3>1. SUFFICES ASSUME k + 1 \in 0..n
                       PROVE  c[m + (k + 1)] = a[m] \o b[k + 1]
            <4>1. k + 1 \in Nat
                OBVIOUS
            <4> QED BY <4>1
        <3>2. /\ k \in 0..n /\ k + 1 \in 1..n /\ (k + 1) - 1 = k
              /\ m + (k + 1) \in 1..(m + n) /\ (m + (k + 1)) - 1 = m + k
            BY <1>1, <3>1
        <3>3. c[m + (k + 1)] = c[m + k] \o t[k + 1]
            BY <1>1, <1>4, <3>2
        <3>4. b[k + 1] = b[k] \o t[k + 1]
            BY <1>3, <3>2
        <3>5. c[m + k] = a[m] \o b[k]
            BY <2>2, <3>2
        <3>6. b[k] \in V /\ t[k + 1] \in V
            BY <1>0, <1>1, <3>2
        <3>7. (a[m] \o b[k]) \o t[k + 1] = a[m] \o (b[k] \o t[k + 1])
            BY <1>0, <2>0, <3>6
        <3> QED BY <3>3, <3>4, <3>5, <3>7
    <2> HIDE DEF S
    <2>3. \A k \in Nat : k \in S
        BY <2>1, <2>2, Induction
    <2> QED BY <2>3 DEF S
<1>8. c[m + n] = a[m] \o b[n]
    BY <1>1, <1>6
<1> QED BY <1>2, <1>3, <1>4, <1>8 DEF r

(* Three sequences one after the other, whichever two are joined first.    *)
Chained(r, s, t) == (r \o s) \o t = r \o (s \o t)

LEMMA Chain ==
    ASSUME NEW X, NEW r \in Seq(X), NEW s \in Seq(X), NEW t \in Seq(X)
    PROVE  Chained(r, s, t)
BY ConcatAssociative DEF Chained

(* One sequence more at the end.                                           *)
LEMMA FlattenMore ==
    ASSUME NEW X, NEW k \in Nat, NEW m, \A n \in 1..(k + 1) : m[n] \in Seq(X)
    PROVE  FlattenSeq([n \in 1..(k + 1) |-> m[n]]) = FlattenSeq([n \in 1..k |-> m[n]]) \o m[k + 1]
<1> DEFINE V == Seq(X)
           s == [n \in 1..k |-> m[n]]
           t == [n \in 1..(k + 1) |-> m[n]]
           x == m[k + 1]
           one == <<x>>
<1>1. /\ s \in Seq(V) /\ Len(s) = k /\ \A n \in 1..k : s[n] = m[n]
      /\ t \in Seq(V) /\ Len(t) = k + 1 /\ \A n \in 1..(k + 1) : t[n] = m[n]
      /\ x \in V
    <2>1. \A n \in 1..k : n \in 1..(k + 1)
        OBVIOUS
    <2> HIDE DEF V
    <2>2. k + 1 \in 1..(k + 1) /\ \A n \in 1..(k + 1) : m[n] \in V
        BY DEF V
    <2> QED BY <2>1, <2>2
<1>2. one \in Seq(V) /\ Len(one) = 1 /\ one[1] = x
    <2> HIDE DEF V, x
    <2> QED BY <1>1
<1>3. x = m[k + 1]
    OBVIOUS
<1> HIDE DEF s, t, x, one
<1>4. t = s \o one
    <2> DEFINE r == s \o one
    <2> HIDE DEF V
    <2>1. /\ r \in Seq(V) /\ Len(r) = k + 1
          /\ \A n \in 1..k : r[n] = s[n]
          /\ \A a \in 1..1 : r[k + a] = one[a]
        <3>1. s \in Seq(V) /\ one \in Seq(V)
            BY <1>1, <1>2
        <3>2. /\ r \in Seq(V) /\ Len(r) = Len(s) + Len(one)
            BY <3>1, ConcatProperties
        <3>3. /\ \A n \in 1..Len(s) : r[n] = s[n]
              /\ \A a \in 1..Len(one) : r[Len(s) + a] = one[a]
            BY <3>1, ConcatPlaces
        <3> HIDE DEF r
        <3> QED BY <1>1, <1>2, <3>2, <3>3
    <2> HIDE DEF r
    <2>2. ASSUME NEW n \in 1..(k + 1)
          PROVE  t[n] = r[n]
        <3>1. CASE n \in 1..k
            BY <1>1, <2>1, <3>1
        <3>2. CASE n = k + 1
            <4>1. r[k + 1] = one[1]
                BY <2>1
            <4> QED BY <1>1, <1>2, <1>3, <3>2, <4>1
        <3> QED BY <3>1, <3>2
    <2>3. t = r
        BY <1>1, <2>1, <2>2, SeqEqual
    <2> QED BY <2>3 DEF r
<1>5. FlattenSeq(s \o one) = FlattenSeq(s) \o FlattenSeq(one)
    BY <1>1, <1>2, FlattenConcat
<1>6. FlattenSeq(one) = x
    <2>1. x \in Seq(X)
        BY <1>1
    <2> QED BY <2>1, FlattenOne DEF one
<1> QED BY <1>3, <1>4, <1>5, <1>6 DEF s, t

(* The places of two sequences that are joined.                            *)
Joined(u, v) ==
    /\ Len(u \o v) = Len(u) + Len(v)
    /\ \A i \in 1..Len(u) : (u \o v)[i] = u[i]
    /\ \A i \in 1..Len(v) : (u \o v)[Len(u) + i] = v[i]

LEMMA JoinedPlaces ==
    ASSUME NEW X, NEW u \in Seq(X), NEW v \in Seq(X)
    PROVE  Joined(u, v) /\ u \o v \in Seq(X)
<1>1. u \o v \in Seq(X)
    OBVIOUS
<1>2. Joined(u, v)
    BY ConcatPlaces DEF Joined
<1> QED BY <1>1, <1>2

(* Two elements more at the end.                                           *)
Followed(a, b, c) == a \o <<b, c>> = Append(Append(a, b), c)

LEMMA TwoMore ==
    ASSUME NEW X, NEW a \in Seq(X), NEW b \in X, NEW c \in X
    PROVE  Followed(a, b, c)
<1> DEFINE two == <<b, c>>
           s == a \o two
           t == Append(Append(a, b), c)
           n == Len(a)
<1>1. n \in Nat /\ two \in Seq(X) /\ Len(two) = 2 /\ two[1] = b /\ two[2] = c
    OBVIOUS
<1>2. /\ t \in Seq(X) /\ Len(t) = n + 2 /\ t[n + 1] = b /\ t[n + 2] = c
      /\ \A i \in 1..n : t[i] = a[i]
    OBVIOUS
<1> HIDE DEF two, t
<1>3. Joined(a, two) /\ s \in Seq(X)
    BY <1>1, JoinedPlaces
<1>4. /\ Len(s) = n + Len(two)
      /\ \A i \in 1..n : s[i] = a[i]
      /\ \A i \in 1..Len(two) : s[n + i] = two[i]
    BY <1>3 DEF Joined
<1> HIDE DEF s, n
<1>5. ASSUME NEW i \in 1..Len(s)
      PROVE  s[i] = t[i]
    <2>1. i \in 1..n \/ i = n + 1 \/ i = n + 2
        BY <1>1, <1>4
    <2>2. 1 \in 1..Len(two) /\ 2 \in 1..Len(two)
        BY <1>1
    <2>3. s[n + 1] = b /\ s[n + 2] = c
        BY <1>1, <1>4, <2>2
    <2> QED BY <1>2, <1>4, <2>1, <2>3
<1>6. s = t
    <2>1. Len(s) = Len(t)
        BY <1>1, <1>2, <1>4
    <2> QED BY <1>2, <1>3, <1>5, <2>1, SeqEqual
<1> QED BY <1>6 DEF s, t, two, Followed

LEMMA OneMore ==
    ASSUME NEW X, NEW u \in Seq(X), NEW x \in X
    PROVE  Append(u, x) = u \o <<x>> /\ Append(u, x) \in Seq(X)
<1> DEFINE one == <<x>>
           s == u \o one
           t == Append(u, x)
           n == Len(u)
<1>1. n \in Nat /\ one \in Seq(X) /\ Len(one) = 1 /\ one[1] = x
    OBVIOUS
<1>2. t \in Seq(X) /\ Len(t) = n + 1 /\ t[n + 1] = x /\ \A i \in 1..n : t[i] = u[i]
    OBVIOUS
<1> HIDE DEF one, t
<1>3. Joined(u, one) /\ s \in Seq(X)
    BY <1>1, JoinedPlaces
<1>4. /\ Len(s) = n + Len(one)
      /\ \A i \in 1..n : s[i] = u[i]
      /\ \A i \in 1..Len(one) : s[n + i] = one[i]
    BY <1>3 DEF Joined
<1> HIDE DEF s, n
<1>5. ASSUME NEW i \in 1..Len(s)
      PROVE  s[i] = t[i]
    <2>1. i \in 1..n \/ i = n + 1
        BY <1>1, <1>4
    <2>2. s[n + 1] = x
        BY <1>1, <1>4
    <2> QED BY <1>2, <1>4, <2>1, <2>2
<1>6. s = t
    <2>1. Len(s) = Len(t)
        BY <1>1, <1>2, <1>4
    <2> QED BY <1>2, <1>3, <1>5, <2>1, SeqEqual
<1> QED BY <1>2, <1>6 DEF s, t, one
=============================================================================
