---------------------------- MODULE LoaderProofs ----------------------------
(***************************************************************************)
(* What Loader does with definitions of the same name, and which value     *)
(* each parameter of what it generates has, for every list of files and    *)
(* whatever is in them.                                                    *)
(***************************************************************************)
EXTENDS Loader, SequenceLemmas

(* The loop of _remove_duplicates: r[k] is what it kept of the items from  *)
(* the k-th to the last.                                                   *)
LEMMA RemoveDuplicatesSteps ==
    ASSUME NEW X, NEW list \in Seq(X)
    PROVE  \E r \in [1..(Len(list) + 1) -> Seq(X)] :
               /\ r[Len(list) + 1] = << >>
               /\ \A k \in 1..Len(list) :
                      r[k] = IF \E i \in DOMAIN r[k + 1] : r[k + 1][i].name = list[k].name
                             THEN r[k + 1] ELSE <<list[k]>> \o r[k + 1]
               /\ RemoveDuplicates(list) = r[1]
<1> DEFINE n == Len(list)
           V == Seq(X)
<1>1. /\ n \in Nat /\ n = Len(list) /\ V = Seq(X)
      /\ DOMAIN list = 1..n
      /\ \A i \in 1..n : list[i] \in X
      /\ << >> \in V
      /\ \A e \in X, v \in V : <<e>> \o v \in V
    OBVIOUS
<1> HIDE DEF n, V
<1> DEFINE Kept(e, v) == IF \E i \in DOMAIN v : v[i].name = e.name THEN v ELSE <<e>> \o v
           G == [i \in 1..n |-> [v \in V |-> Kept(list[i], v)]]
           Is(f) == f = [s \in SUBSET (1..n) |->
                            IF s = {} THEN << >> ELSE Kept(list[Min(s)], f[s \ {Min(s)}])]
<1>2. \A e \in X, v \in V : Kept(e, v) \in V
    BY <1>1
<1>3. RemoveDuplicates(list) = (CHOOSE f : Is(f))[1..n]
    BY <1>1 DEF RemoveDuplicates, FoldRight, MapThenFoldSet
<1> HIDE DEF Kept
<1>4. \A i \in 1..n : G[i] \in [V -> V]
    BY <1>1, <1>2
<1>5. \A i \in 1..n : \A v \in V : G[i][v] = Kept(list[i], v)
    OBVIOUS
<1> HIDE DEF G
<1>6. IsFiniteSet(1..n)
    BY <1>1, FS_Interval
<1>7. \A s \in SUBSET (1..n) : s # {} => Leftmost(n)[s] \in s
    BY <1>1, OutermostAreIn
<1>8. PICK g : Folding(g, 1..n, << >>, G, Leftmost(n))
    BY <1>6, <1>7, FoldingExists
<1>9. g \in [SUBSET (1..n) -> V]
    BY <1>1, <1>4, <1>6, <1>7, <1>8, FoldingType
<1>10. Is(g)
    <2>1. ASSUME NEW s \in SUBSET (1..n)
          PROVE  g[s] = IF s = {} THEN << >> ELSE Kept(list[Min(s)], g[s \ {Min(s)}])
        <3>1. Leftmost(n)[s] = Min(s)
            BY DEF Leftmost
        <3>2. CASE s # {}
            <4>1. Min(s) \in 1..n
                BY <3>2, <1>1, LeastOf
            <4>2. g[s \ {Min(s)}] \in V
                BY <1>9
            <4>3. g[s] = G[Min(s)][g[s \ {Min(s)}]]
                BY <1>8, <3>1, <3>2 DEF Folding
            <4> QED BY <4>1, <4>2, <4>3, <1>5, <3>2
        <3>3. CASE s = {}
            BY <1>8, <3>3 DEF Folding
        <3> QED BY <3>2, <3>3
    <2>2. g = [s \in SUBSET (1..n) |-> g[s]]
        BY <1>9
    <2>3. [s \in SUBSET (1..n) |-> g[s]]
            = [s \in SUBSET (1..n) |->
                  IF s = {} THEN << >> ELSE Kept(list[Min(s)], g[s \ {Min(s)}])]
        BY <2>1
    <2> QED BY <2>2, <2>3
<1>11. PICK f : Is(f) /\ f = CHOOSE e : Is(e)
    <2> HIDE DEF Is
    <2> QED BY <1>10
<1>12. f[(n + 1)..n] = << >>
    <2>1. (n + 1)..n = {}
        BY <1>1
    <2> QED BY <1>11, <2>1
<1>13. ASSUME NEW k \in 1..n
       PROVE  f[k..n] = Kept(list[k], f[(k + 1)..n])
    <2>1. k..n \in SUBSET (1..n) /\ k \in k..n /\ (k..n) \ {k} = (k + 1)..n
        BY <1>1
    <2>2. Min(k..n) = k
        <3>1. Min(k..n) \in k..n /\ \A j \in k..n : Min(k..n) <= j
            BY <1>1, <2>1, LeastOf
        <3> QED BY <2>1, <3>1
    <2>3. k..n # {}
        BY <2>1
    <2> QED BY <1>11, <2>1, <2>2, <2>3
<1> HIDE DEF Is
<1> DEFINE Good == {k \in 1..(n + 1) : f[k..n] \in V}
<1>14. \A k \in 1..(n + 1) : k \in Good
    <2>1. n + 1 \in Good
        <3>1. n + 1 \in 1..(n + 1)
            BY <1>1
        <3>2. f[(n + 1)..n] \in V
            BY <1>1, <1>12
        <3> QED BY <3>1, <3>2
    <2>2. ASSUME NEW k \in 1..n, k + 1 \in Good
          PROVE  k \in Good
        <3>1. f[(k + 1)..n] \in V /\ list[k] \in X /\ k \in 1..(n + 1)
            BY <1>1, <2>2
        <3>2. f[k..n] \in V
            BY <3>1, <1>2, <1>13
        <3> QED BY <3>1, <3>2
    <2> HIDE DEF Good
    <2> QED BY <1>1, <2>1, <2>2, FromTheEnd
<1> DEFINE r == [k \in 1..(n + 1) |-> f[k..n]]
<1>15. r \in [1..(n + 1) -> V]
    BY <1>14
<1>16. r[n + 1] = << >> /\ r[1] = f[1..n]
    BY <1>1, <1>12
<1>17. ASSUME NEW k \in 1..n
       PROVE  r[k] = Kept(list[k], r[k + 1])
    <2>1. k \in 1..(n + 1) /\ k + 1 \in 1..(n + 1)
        BY <1>1
    <2> QED BY <2>1, <1>13
<1> HIDE DEF r
<1> QED BY <1>1, <1>3, <1>11, <1>15, <1>16, <1>17 DEF Kept

(* The last list of their names from the k-th on.                         *)
LastFrom(list, k) ==
    {i \in k..Len(list) : \A j \in (i + 1)..Len(list) : list[j].name # list[i].name}

(* Every name that occurs from k on has a last occurrence there.           *)
LEMMA LastExists ==
    ASSUME NEW X, NEW list \in Seq(X), NEW k \in 1..Len(list)
    PROVE  \E i \in LastFrom(list, k) : list[i].name = list[k].name
<1> DEFINE Same == {i \in 1..Len(list) : i >= k /\ list[i].name = list[k].name}
<1>1. Len(list) \in Nat
    OBVIOUS
<1>2. Same \in SUBSET (1..Len(list)) /\ k \in Same
    OBVIOUS
<1>3. Max(Same) \in Same /\ \A i \in Same : i <= Max(Same)
    <2> HIDE DEF Same
    <2> QED BY <1>1, <1>2, GreatestOf
<1>4. ASSUME NEW j \in (Max(Same) + 1)..Len(list), list[j].name = list[Max(Same)].name
      PROVE  FALSE
    <2>1. j \in 1..Len(list) /\ j >= k /\ list[j].name = list[k].name /\ j > Max(Same)
        BY <1>1, <1>3, <1>4
    <2>2. j \in Same
        BY <2>1
    <2> HIDE DEF Same
    <2>3. j <= Max(Same)
        BY <1>3, <2>2
    <2>4. Max(Same) \in 1..Len(list)
        BY <1>2, <1>3
    <2> QED BY <2>1, <2>3, <2>4
<1>5. Max(Same) \in LastFrom(list, k)
    BY <1>1, <1>3, <1>4 DEF LastFrom
<1> QED BY <1>3, <1>5

LEMMA LastFromNext ==
    ASSUME NEW X, NEW list \in Seq(X), NEW k \in 1..Len(list)
    PROVE  LastFrom(list, k) =
               IF \E j \in (k + 1)..Len(list) : list[j].name = list[k].name
               THEN LastFrom(list, k + 1) ELSE LastFrom(list, k + 1) \cup {k}
<1>1. k..Len(list) = {k} \cup (k + 1)..Len(list)
    OBVIOUS
<1>2. \A i \in (k + 1)..Len(list) :
          i \in LastFrom(list, k) <=> i \in LastFrom(list, k + 1)
    BY <1>1 DEF LastFrom
<1>3. k \in LastFrom(list, k) <=> ~\E j \in (k + 1)..Len(list) : list[j].name = list[k].name
    BY <1>1 DEF LastFrom
<1>4. LastFrom(list, k) \subseteq k..Len(list) /\ LastFrom(list, k + 1) \subseteq (k + 1)..Len(list)
    BY DEF LastFrom
<1>5. k \notin LastFrom(list, k + 1)
    BY <1>4
<1> DEFINE Again == \E j \in (k + 1)..Len(list) : list[j].name = list[k].name
<1>6. CASE Again
    <2>1. \A i : i \in LastFrom(list, k) <=> i \in LastFrom(list, k + 1)
        BY <1>1, <1>2, <1>3, <1>4, <1>5, <1>6
    <2> QED BY <1>6, <2>1
<1>7. CASE ~Again
    <2>1. \A i : i \in LastFrom(list, k) <=> i \in LastFrom(list, k + 1) \cup {k}
        BY <1>1, <1>2, <1>3, <1>4, <1>5, <1>7
    <2> QED BY <1>7, <2>1
<1> QED BY <1>6, <1>7

(* A list as the loop should keep it, of the items from the k-th on.       *)
Keeps(kept, list, k) ==
    LET last == LastFrom(list, k) IN
    /\ Len(kept) = Cardinality(last)
    /\ \A i \in last : \E n \in DOMAIN kept :
           kept[n] = list[i] /\ n = Cardinality({j \in last : j <= i})
    /\ \A n \in DOMAIN kept : \E i \in last : kept[n] = list[i]

LEMMA KeepsNext ==
    ASSUME NEW X, NEW list \in Seq(X), NEW k \in 1..Len(list),
           NEW rest \in Seq(X), Keeps(rest, list, k + 1)
    PROVE  Keeps(IF \E i \in DOMAIN rest : rest[i].name = list[k].name
                 THEN rest ELSE <<list[k]>> \o rest, list, k)
<1> DEFINE later == LastFrom(list, k + 1)
           Found == \E i \in DOMAIN rest : rest[i].name = list[k].name
           Again == \E j \in (k + 1)..Len(list) : list[j].name = list[k].name
<1>1. later \subseteq (k + 1)..Len(list) /\ Len(list) \in Nat /\ k \in Nat /\ k \notin later
    BY DEF LastFrom
<1>2. IsFiniteSet(later)
    <2>1. IsFiniteSet((k + 1)..Len(list))
        BY <1>1, FS_Interval
    <2> QED BY <1>1, <2>1, FS_Subset
<1>3. Found <=> Again
    <2>1. ASSUME Found
          PROVE  Again
        <3>1. PICK i \in DOMAIN rest : rest[i].name = list[k].name
            BY <2>1
        <3>2. PICK j \in later : rest[i] = list[j]
            BY <3>1 DEF Keeps
        <3> QED BY <3>1, <3>2, <1>1
    <2>2. ASSUME Again
          PROVE  Found
        <3>1. PICK j \in (k + 1)..Len(list) : list[j].name = list[k].name
            BY <2>2
        <3>2. j \in 1..Len(list)
            BY <1>1
        <3>3. PICK i \in LastFrom(list, j) : list[i].name = list[j].name
            BY <3>2, LastExists
        <3>4. i \in later
            BY <1>1, <3>2 DEF LastFrom
        <3>5. PICK n \in DOMAIN rest : rest[n] = list[i]
            BY <3>4 DEF Keeps
        <3> QED BY <3>1, <3>3, <3>5
    <2> QED BY <2>1, <2>2
<1>4. CASE Found
    <2>1. LastFrom(list, k) = later
        BY <1>3, <1>4, LastFromNext
    <2> QED BY <1>4, <2>1 DEF Keeps
<1>5. CASE ~Found
    <2> DEFINE kept == <<list[k]>> \o rest
               last == later \cup {k}
    <2>1. LastFrom(list, k) = last
        BY <1>3, <1>5, LastFromNext
    <2>2. kept \in Seq(X) /\ Len(kept) = Len(rest) + 1 /\ kept[1] = list[k]
          /\ \A n \in 1..Len(rest) : kept[n + 1] = rest[n]
        OBVIOUS
    <2>3. Cardinality(last) = Cardinality(later) + 1
        BY <1>1, <1>2, FS_AddElement
    <2>4. Len(rest) = Cardinality(later)
        BY DEF Keeps
    <2>5. ASSUME NEW i \in later
          PROVE  \E n \in DOMAIN kept :
                     kept[n] = list[i] /\ n = Cardinality({j \in last : j <= i})
        <3>1. PICK n \in DOMAIN rest :
                  rest[n] = list[i] /\ n = Cardinality({j \in later : j <= i})
            BY <2>5 DEF Keeps
        <3>2. {j \in last : j <= i} = {j \in later : j <= i} \cup {k}
            BY <1>1, <2>5
        <3>3. IsFiniteSet({j \in later : j <= i}) /\ k \notin {j \in later : j <= i}
            BY <1>1, <1>2, FS_Subset
        <3>4. Cardinality({j \in last : j <= i}) = n + 1
            BY <3>1, <3>2, <3>3, FS_AddElement
        <3>5. n \in 1..Len(rest) /\ n + 1 \in DOMAIN kept
            BY <3>1, <2>2
        <3> QED BY <3>1, <3>4, <3>5, <2>2
    <2>6. 1 \in DOMAIN kept /\ kept[1] = list[k] /\ 1 = Cardinality({j \in last : j <= k})
        <3>1. {j \in last : j <= k} = {k}
            BY <1>1
        <3>2. 1 \in DOMAIN kept
            BY <2>2
        <3> QED BY <3>1, <3>2, <2>2, FS_Singleton
    <2>7. ASSUME NEW n \in DOMAIN kept
          PROVE  \E i \in last : kept[n] = list[i]
        <3>1. CASE n = 1
            BY <3>1, <2>2
        <3>2. CASE n # 1
            <4>1. n - 1 \in 1..Len(rest) /\ (n - 1) + 1 = n
                BY <2>2, <3>2
            <4>2. PICK i \in later : rest[n - 1] = list[i]
                BY <4>1 DEF Keeps
            <4>3. kept[n] = rest[n - 1]
                BY <4>1, <2>2
            <4> QED BY <4>2, <4>3
        <3> QED BY <3>1, <3>2
    <2>8. \A i \in last : \E n \in DOMAIN kept :
              kept[n] = list[i] /\ n = Cardinality({j \in last : j <= i})
        BY <2>5, <2>6
    <2> HIDE DEF kept, last, later
    <2>9. Keeps(kept, list, k)
        BY <2>1, <2>2, <2>3, <2>4, <2>7, <2>8 DEF Keeps
    <2> QED BY <1>5, <2>9 DEF kept
<1> QED BY <1>4, <1>5

(* _remove_duplicates keeps of each name the last item, in its place, and  *)
(* nothing else.                                                           *)
LEMMA LastOfEachIsKept ==
    ASSUME NEW X, NEW list \in Seq(X)
    PROVE  LastWins(RemoveDuplicates(list), list)
<1>1. PICK r \in [1..(Len(list) + 1) -> Seq(X)] :
          /\ r[Len(list) + 1] = << >>
          /\ \A k \in 1..Len(list) :
                 r[k] = IF \E i \in DOMAIN r[k + 1] : r[k + 1][i].name = list[k].name
                        THEN r[k + 1] ELSE <<list[k]>> \o r[k + 1]
          /\ RemoveDuplicates(list) = r[1]
    BY RemoveDuplicatesSteps
<1> DEFINE n == Len(list)
           Good == {k \in 1..(n + 1) : Keeps(r[k], list, k)}
<1>2. n \in Nat /\ 1 \in 1..(n + 1) /\ n + 1 \in 1..(n + 1)
    OBVIOUS
<1>3. n + 1 \in Good
    <2>1. LastFrom(list, n + 1) = {}
        BY <1>2 DEF LastFrom
    <2>2. Cardinality({}) = 0 /\ Len(r[n + 1]) = 0 /\ DOMAIN r[n + 1] = {}
        BY <1>1, FS_EmptySet
    <2> QED BY <1>2, <2>1, <2>2 DEF Keeps
<1>4. ASSUME NEW k \in 1..n, k + 1 \in Good
      PROVE  k \in Good
    <2>1. k \in 1..(n + 1) /\ k + 1 \in 1..(n + 1) /\ k \in 1..Len(list)
        BY <1>2
    <2>2. r[k + 1] \in Seq(X) /\ Keeps(r[k + 1], list, k + 1)
        BY <1>4, <2>1
    <2> DEFINE rest == r[k + 1]
    <2>3. rest \in Seq(X) /\ Keeps(rest, list, k + 1)
        BY <2>2
    <2>4. r[k] = IF \E i \in DOMAIN rest : rest[i].name = list[k].name
                 THEN rest ELSE <<list[k]>> \o rest
        BY <1>1, <2>1
    <2>5. k \in 1..Len(list)
        BY <2>1
    <2> HIDE DEF rest
    <2>6. Keeps(IF \E i \in DOMAIN rest : rest[i].name = list[k].name
                THEN rest ELSE <<list[k]>> \o rest, list, k)
        BY <2>3, <2>5, KeepsNext
    <2> QED BY <2>1, <2>4, <2>6
<1>5. 1 \in Good
    <2> HIDE DEF Good
    <2> QED BY <1>2, <1>3, <1>4, FromTheEnd
<1>6. Keeps(RemoveDuplicates(list), list, 1)
    BY <1>1, <1>5
<1>7. LastFrom(list, 1)
          = {i \in DOMAIN list : \A j \in (i + 1)..Len(list) : list[j].name # list[i].name}
    BY DEF LastFrom
<1> QED BY <1>6, <1>7 DEF Keeps, LastWins

(* A list without duplicates stays as it is.                               *)
LEMMA NothingToRemove ==
    ASSUME NEW X, NEW list \in Seq(X), ~HasDuplicates(list)
    PROVE  RemoveDuplicates(list) = list
<1>1. PICK r \in [1..(Len(list) + 1) -> Seq(X)] :
          /\ r[Len(list) + 1] = << >>
          /\ \A k \in 1..Len(list) :
                 r[k] = IF \E i \in DOMAIN r[k + 1] : r[k + 1][i].name = list[k].name
                        THEN r[k + 1] ELSE <<list[k]>> \o r[k + 1]
          /\ RemoveDuplicates(list) = r[1]
    BY RemoveDuplicatesSteps
<1> DEFINE n == Len(list)
           Good == {k \in 1..(n + 1) : r[k] = SubSeq(list, k, n)}
<1>2. n \in Nat /\ 1 \in 1..(n + 1) /\ n + 1 \in 1..(n + 1)
    OBVIOUS
<1>3. n + 1 \in Good
    BY <1>1, <1>2
<1>4. ASSUME NEW k \in 1..n, k + 1 \in Good
      PROVE  k \in Good
    <2>1. k \in 1..(n + 1) /\ k + 1 \in 1..(n + 1)
        BY <1>2
    <2>2. r[k + 1] = SubSeq(list, k + 1, n) /\ Len(r[k + 1]) = n - k
          /\ \A i \in 1..(n - k) : r[k + 1][i] = list[k + i]
        BY <1>2, <1>4
    <2>3. ~\E i \in DOMAIN r[k + 1] : r[k + 1][i].name = list[k].name
        <3>1. SUFFICES ASSUME NEW i \in DOMAIN r[k + 1], r[k + 1][i].name = list[k].name
                       PROVE  FALSE
            OBVIOUS
        <3>2. i \in 1..(n - k)
            BY <2>1, <2>2, <1>1
        <3>3. k + i \in DOMAIN list /\ k \in DOMAIN list /\ k + i # k
            BY <3>2, <1>2
        <3>4. list[k + i].name = list[k].name
            BY <2>2, <3>1, <3>2
        <3> QED BY <3>3, <3>4 DEF HasDuplicates
    <2>4. r[k] = <<list[k]>> \o SubSeq(list, k + 1, n)
        BY <1>1, <2>2, <2>3
    <2>5. <<list[k]>> \o SubSeq(list, k + 1, n) = SubSeq(list, k, n)
        BY <1>2
    <2> QED BY <2>1, <2>4, <2>5
<1>5. 1 \in Good
    <2> HIDE DEF Good
    <2> QED BY <1>2, <1>3, <1>4, FromTheEnd
<1>6. RemoveDuplicates(list) = SubSeq(list, 1, n)
    BY <1>1, <1>5
<1> QED BY <1>2, <1>6

-----------------------------------------------------------------------------
(* Lists, without naming what they are lists of.                           *)
LEMMA ListFacts ==
    ASSUME NEW s, IsList(s)
    PROVE  /\ Len(s) \in Nat
           /\ DOMAIN s = 1..Len(s)
           /\ s = [i \in 1..Len(s) |-> s[i]]
BY DEF IsList

LEMMA ListOf ==
    ASSUME NEW X, NEW s \in Seq(X)
    PROVE  IsList(s)
<1>1. \A i \in 1..Len(s) : s[i] \in ToSet(s)
    BY DEF ToSet
<1> QED BY <1>1 DEF IsList

LEMMA ListByPlaces ==
    ASSUME NEW n \in Nat, NEW s, DOMAIN s = 1..n, s = [i \in 1..n |-> s[i]]
    PROVE  IsList(s) /\ Len(s) = n
<1>1. s \in [1..n -> ToSet(s)]
    BY DEF ToSet
<1>2. s \in Seq(ToSet(s))
    BY <1>1
<1> QED BY <1>1, <1>2 DEF IsList

LEMMA SmallLists ==
    /\ IsList(<< >>)
    /\ \A e : IsList(<<e>>)
    /\ \A d, e : IsList(<<d, e>>)
<1>1. << >> \in Seq({})
    OBVIOUS
<1>2. \A e : <<e>> \in Seq({e})
    OBVIOUS
<1>3. \A d, e : <<d, e>> \in Seq({d, e})
    OBVIOUS
<1> QED BY <1>1, <1>2, <1>3, ListOf

LEMMA ConcatLists ==
    ASSUME NEW s, NEW t, IsList(s), IsList(t)
    PROVE  IsList(s \o t)
<1> DEFINE X == ToSet(s) \cup ToSet(t)
<1>1. s \in Seq(X) /\ t \in Seq(X)
    BY DEF IsList
<1>2. s \o t \in Seq(X)
    <2> HIDE DEF X
    <2> QED BY <1>1
<1> QED BY <1>2, ListOf

LEMMA ListsOfLists ==
    ASSUME NEW n \in Nat, NEW seqs, DOMAIN seqs = 1..n, seqs = [i \in 1..n |-> seqs[i]],
           \A i \in 1..n : IsList(seqs[i])
    PROVE  \E X : seqs \in Seq(Seq(X))
<1> DEFINE X == UNION {ToSet(seqs[i]) : i \in 1..n}
<1>1. ASSUME NEW i \in 1..n
      PROVE  seqs[i] \in Seq(X)
    <2>1. ToSet(seqs[i]) \subseteq X
        OBVIOUS
    <2>2. seqs[i] \in Seq(ToSet(seqs[i]))
        BY DEF IsList
    <2> HIDE DEF X
    <2> QED BY <2>1, <2>2
<1> HIDE DEF X
<1>2. seqs \in [1..n -> Seq(X)]
    BY <1>1
<1>3. seqs \in Seq(Seq(X))
    BY <1>2
<1> QED BY <1>3

LEMMA FlattenLists ==
    ASSUME NEW n \in Nat, NEW seqs, DOMAIN seqs = 1..n, seqs = [i \in 1..n |-> seqs[i]],
           \A i \in 1..n : IsList(seqs[i])
    PROVE  IsList(FlattenSeq(seqs))
<1>1. PICK X : seqs \in Seq(Seq(X))
    BY ListsOfLists
<1>2. FlattenSeq(seqs) \in Seq(X)
    BY <1>1, FlattenType
<1> QED BY <1>2, ListOf

(* Merging parameters keeps their values.                                  *)
LEMMA MergeValues ==
    ASSUME NEW low, NEW high, Values(low), Values(high)
    PROVE  Values(Merge(low, high))
BY DEF Values, Merge

LEMMA ScalarValues ==
    ASSUME NEW p, NEW v
    PROVE  Values(Param(p, Scalar(v)))
BY SmallLists DEF Values, Scalar, Param

(* The fold of MergeAll: acc[k] is what the first k dictionaries make.     *)
LEMMA MergeAllSteps ==
    ASSUME NEW n \in Nat, NEW dicts, DOMAIN dicts = 1..n
    PROVE  \E acc : /\ acc[0] = NoParams
                    /\ \A k \in 1..n : acc[k] = Merge(acc[k - 1], dicts[k])
                    /\ MergeAll(dicts) = acc[n]
<1> DEFINE N == UNION {DOMAIN dicts[i] : i \in 1..n}
           W == UNION {{dicts[i][p] : p \in DOMAIN dicts[i]} : i \in 1..n}
           V == UNION {[D -> W] : D \in SUBSET N}
           G == [i \in 1..n |-> [v \in V |-> Merge(v, dicts[i])]]
           Is(f) == f = [s \in SUBSET (1..n) |->
                            IF s = {} THEN NoParams ELSE Merge(f[s \ {Max(s)}], dicts[Max(s)])]
<1>1. MergeAll(dicts) = (CHOOSE f : Is(f))[1..n]
    BY DEF MergeAll, FoldLeft, MapThenFoldSet
<1>2. NoParams \in V
    <2>1. NoParams \in [{} -> W] /\ {} \in SUBSET N
        BY DEF NoParams
    <2> HIDE DEF N, W
    <2> QED BY <2>1
<1>3. ASSUME NEW i \in 1..n, NEW v \in V
      PROVE  Merge(v, dicts[i]) \in V
    <2>1. PICK D \in SUBSET N : v \in [D -> W]
        OBVIOUS
    <2>2. D \cup DOMAIN dicts[i] \in SUBSET N
        OBVIOUS
    <2>3. Merge(v, dicts[i]) \in [D \cup DOMAIN dicts[i] -> W]
        BY <2>1 DEF Merge
    <2> HIDE DEF N, W
    <2> QED BY <2>2, <2>3
<1> HIDE DEF V
<1>4. \A i \in 1..n : G[i] \in [V -> V]
    BY <1>3
<1>5. \A i \in 1..n : \A v \in V : G[i][v] = Merge(v, dicts[i])
    OBVIOUS
<1> HIDE DEF G
<1>6. IsFiniteSet(1..n)
    BY FS_Interval
<1>7. \A s \in SUBSET (1..n) : s # {} => Rightmost(n)[s] \in s
    BY OutermostAreIn
<1>8. PICK g : Folding(g, 1..n, NoParams, G, Rightmost(n))
    BY <1>6, <1>7, FoldingExists
<1>9. g \in [SUBSET (1..n) -> V]
    BY <1>2, <1>4, <1>6, <1>7, <1>8, FoldingType
<1>10. Is(g)
    <2>1. ASSUME NEW s \in SUBSET (1..n)
          PROVE  g[s] = IF s = {} THEN NoParams ELSE Merge(g[s \ {Max(s)}], dicts[Max(s)])
        <3>1. Rightmost(n)[s] = Max(s)
            BY DEF Rightmost
        <3>2. CASE s # {}
            <4>1. Max(s) \in 1..n
                BY <3>2, GreatestOf
            <4>2. g[s \ {Max(s)}] \in V
                BY <1>9
            <4>3. g[s] = G[Max(s)][g[s \ {Max(s)}]]
                BY <1>8, <3>1, <3>2 DEF Folding
            <4> QED BY <4>1, <4>2, <4>3, <1>5, <3>2
        <3>3. CASE s = {}
            BY <1>8, <3>3 DEF Folding
        <3> QED BY <3>2, <3>3
    <2>2. g = [s \in SUBSET (1..n) |-> g[s]]
        BY <1>9
    <2>3. [s \in SUBSET (1..n) |-> g[s]]
            = [s \in SUBSET (1..n) |->
                  IF s = {} THEN NoParams ELSE Merge(g[s \ {Max(s)}], dicts[Max(s)])]
        BY <2>1
    <2> QED BY <2>2, <2>3
<1>11. PICK f : Is(f) /\ f = CHOOSE e : Is(e)
    <2> HIDE DEF Is
    <2> QED BY <1>10
<1> DEFINE acc == [k \in 0..n |-> f[1..k]]
<1>12. acc[0] = NoParams
    <2>1. f[1..0] = NoParams
        BY <1>11
    <2> QED BY <2>1
<1>13. ASSUME NEW k \in 1..n
       PROVE  acc[k] = Merge(acc[k - 1], dicts[k])
    <2> DEFINE s == 1..k
    <2>1. s \in SUBSET (1..n) /\ s \ {k} = 1..(k - 1) /\ k \in s /\ k - 1 \in 0..n /\ k \in 0..n
          /\ \A j \in s : j \in Nat /\ j <= k
        OBVIOUS
    <2> HIDE DEF s
    <2>2. Max(s) = k
        <3>1. Max(s) \in s /\ \A j \in s : j <= Max(s)
            BY <2>1, GreatestOf
        <3> QED BY <2>1, <3>1
    <2>3. f[s] = Merge(f[1..(k - 1)], dicts[k])
        BY <1>11, <2>1, <2>2
    <2> USE DEF s
    <2> QED BY <2>1, <2>3
<1>14. acc[n] = f[1..n]
    OBVIOUS
<1> HIDE DEF acc
<1> QED BY <1>1, <1>11, <1>12, <1>13, <1>14

LEMMA MergeAllValues ==
    ASSUME NEW n \in Nat, NEW dicts, DOMAIN dicts = 1..n, \A i \in 1..n : Values(dicts[i])
    PROVE  Values(MergeAll(dicts))
<1>1. PICK acc : /\ acc[0] = NoParams
                 /\ \A k \in 1..n : acc[k] = Merge(acc[k - 1], dicts[k])
                 /\ MergeAll(dicts) = acc[n]
    BY MergeAllSteps
<1> DEFINE Good == {k \in Nat : k \in 0..n => Values(acc[k])}
<1>2. 0 \in Good
    BY <1>1 DEF Values, NoParams
<1>3. ASSUME NEW k \in Nat, k \in Good
      PROVE  k + 1 \in Good
    <2>1. CASE k + 1 \in 0..n
        <3>1. k \in 0..n /\ k + 1 \in 1..n /\ (k + 1) - 1 = k
            BY <2>1
        <3>2. Values(acc[k + 1])
            BY <1>1, <1>3, <3>1, MergeValues
        <3> QED BY <3>2
    <2>2. CASE k + 1 \notin 0..n
        BY <2>2
    <2> QED BY <2>1, <2>2
<1>4. \A k \in Nat : k \in Good
    <2> HIDE DEF Good
    <2> QED BY <1>2, <1>3, Induction
<1> QED BY <1>1, <1>4

(* Each parameter has the value that one of the dictionaries gives it.     *)
LEMMA MergeAllOf ==
    ASSUME NEW n \in Nat, NEW dicts, DOMAIN dicts = 1..n, NEW p
    PROVE  /\ p \in DOMAIN MergeAll(dicts) <=> \E i \in 1..n : p \in DOMAIN dicts[i]
           /\ p \in DOMAIN MergeAll(dicts) =>
                  \E i \in 1..n : p \in DOMAIN dicts[i] /\ MergeAll(dicts)[p] = dicts[i][p]
<1>1. PICK acc : /\ acc[0] = NoParams
                 /\ \A k \in 1..n : acc[k] = Merge(acc[k - 1], dicts[k])
                 /\ MergeAll(dicts) = acc[n]
    BY MergeAllSteps
<1> DEFINE Of(k) == /\ p \in DOMAIN acc[k] <=> \E i \in 1..k : p \in DOMAIN dicts[i]
                    /\ p \in DOMAIN acc[k] =>
                           \E i \in 1..k : p \in DOMAIN dicts[i] /\ acc[k][p] = dicts[i][p]
           Good == {k \in Nat : k \in 0..n => Of(k)}
<1>2. 0 \in Good
    BY <1>1 DEF NoParams
<1>3. ASSUME NEW k \in Nat, k \in Good
      PROVE  k + 1 \in Good
    <2>1. CASE k + 1 \in 0..n
        <3>1. k \in 0..n /\ k + 1 \in 1..n /\ (k + 1) - 1 = k /\ 1..(k + 1) = 1..k \cup {k + 1}
            BY <2>1
        <3>2. Of(k)
            BY <1>3, <3>1
        <3>3. acc[k + 1] = Merge(acc[k], dicts[k + 1])
            BY <1>1, <3>1
        <3>4. /\ DOMAIN acc[k + 1] = DOMAIN acc[k] \cup DOMAIN dicts[k + 1]
              /\ p \in DOMAIN acc[k + 1] =>
                     acc[k + 1][p] = IF p \in DOMAIN dicts[k + 1] THEN dicts[k + 1][p] ELSE acc[k][p]
            BY <3>3 DEF Merge
        <3>5. Of(k + 1)
            BY <3>1, <3>2, <3>4
        <3> QED BY <3>5
    <2>2. CASE k + 1 \notin 0..n
        BY <2>2
    <2> QED BY <2>1, <2>2
<1>4. \A k \in Nat : k \in Good
    <2> HIDE DEF Good
    <2> QED BY <1>2, <1>3, Induction
<1>5. Of(n)
    BY <1>4
<1> QED BY <1>1, <1>5

(* The points of a product are a list, and each is made of one element of  *)
(* each factor.                                                            *)
LEMMA ProductList ==
    ASSUME NEW n \in Nat, NEW dims, DOMAIN dims = 1..n, \A i \in 1..n : IsList(dims[i])
    PROVE  /\ IsList(Product(dims))
           /\ \A q \in DOMAIN Product(dims) :
                  /\ DOMAIN Product(dims)[q] = 1..n
                  /\ \A i \in 1..n : Product(dims)[q][i] \in ToSet(dims[i])
<1> DEFINE Y == UNION {ToSet(dims[i]) : i \in 1..n}
           V == Seq(Seq(Y))
           Longer(v, dim) == FlattenSeq([i \in DOMAIN v |-> [j \in DOMAIN dim |-> Append(v[i], dim[j])]])
           G == [i \in 1..n |-> [v \in V |-> Longer(v, dims[i])]]
           Is(f) == f = [s \in SUBSET (1..n) |->
                            IF s = {} THEN << << >> >> ELSE Longer(f[s \ {Max(s)}], dims[Max(s)])]
<1>1. Product(dims) = (CHOOSE f : Is(f))[1..n]
    BY DEF Product, FoldLeft, MapThenFoldSet
<1>2. \A i \in 1..n : dims[i] \in Seq(Y)
    <2>1. \A i \in 1..n : ToSet(dims[i]) \subseteq Y /\ dims[i] \in Seq(ToSet(dims[i]))
        BY DEF IsList
    <2> HIDE DEF Y
    <2> QED BY <2>1
<1> HIDE DEF Y
<1>3. << << >> >> \in V
    OBVIOUS
<1>4. ASSUME NEW i \in 1..n, NEW v \in V
      PROVE  /\ Longer(v, dims[i]) \in V
             /\ \A q \in DOMAIN Longer(v, dims[i]) : \E p \in DOMAIN v, j \in DOMAIN dims[i] :
                    Longer(v, dims[i])[q] = Append(v[p], dims[i][j])
    <2> DEFINE row(p) == [j \in DOMAIN dims[i] |-> Append(v[p], dims[i][j])]
               rows == [p \in DOMAIN v |-> row(p)]
    <2>1. dims[i] \in Seq(Y) /\ DOMAIN dims[i] = 1..Len(dims[i]) /\ Len(dims[i]) \in Nat
        <3>1. dims[i] \in Seq(Y)
            BY <1>2
        <3> DEFINE d == dims[i]
        <3> HIDE DEF d
        <3>2. d \in Seq(Y) => DOMAIN d = 1..Len(d) /\ Len(d) \in Nat
            OBVIOUS
        <3> QED BY <3>1, <3>2 DEF d
    <2>2. DOMAIN v = 1..Len(v) /\ Len(v) \in Nat /\ \A p \in DOMAIN v : v[p] \in Seq(Y)
        OBVIOUS
    <2>3. ASSUME NEW p \in DOMAIN v
          PROVE  row(p) \in Seq(Seq(Y))
        <3>1. \A j \in 1..Len(dims[i]) : Append(v[p], dims[i][j]) \in Seq(Y)
            BY <2>1, <2>2
        <3> QED BY <2>1, <3>1
    <2>4. rows \in Seq(Seq(Seq(Y)))
        <3> HIDE DEF row
        <3> QED BY <2>2, <2>3
    <2>5. FlattenSeq(rows) \in Seq(Seq(Y))
        <3> HIDE DEF rows
        <3> QED BY <2>4, FlattenType
    <2>6. \A q \in DOMAIN FlattenSeq(rows) : \E p \in DOMAIN rows : \E j \in DOMAIN rows[p] :
              FlattenSeq(rows)[q] = rows[p][j]
        <3> HIDE DEF rows
        <3> QED BY <2>4, FlattenIn
    <2>7. \A p \in DOMAIN rows : \A j \in DOMAIN rows[p] :
              p \in DOMAIN v /\ j \in DOMAIN dims[i] /\ rows[p][j] = Append(v[p], dims[i][j])
        OBVIOUS
    <2>8. Longer(v, dims[i]) = FlattenSeq(rows)
        OBVIOUS
    <2> HIDE DEF rows, Longer, V
    <2>9. FlattenSeq(rows) \in V
        BY <2>5 DEF V
    <2> QED BY <2>6, <2>7, <2>8, <2>9
<1> HIDE DEF Longer, V
<1>5. \A i \in 1..n : G[i] \in [V -> V]
    BY <1>4
<1>6. \A i \in 1..n : \A v \in V : G[i][v] = Longer(v, dims[i])
    OBVIOUS
<1> HIDE DEF G
<1>7. IsFiniteSet(1..n)
    BY FS_Interval
<1>8. \A s \in SUBSET (1..n) : s # {} => Rightmost(n)[s] \in s
    BY OutermostAreIn
<1>9. PICK g : Folding(g, 1..n, << << >> >>, G, Rightmost(n))
    BY <1>7, <1>8, FoldingExists
<1>10. g \in [SUBSET (1..n) -> V]
    BY <1>3, <1>5, <1>7, <1>8, <1>9, FoldingType
<1>11. Is(g)
    <2>1. ASSUME NEW s \in SUBSET (1..n)
          PROVE  g[s] = IF s = {} THEN << << >> >> ELSE Longer(g[s \ {Max(s)}], dims[Max(s)])
        <3>1. Rightmost(n)[s] = Max(s)
            BY DEF Rightmost
        <3>2. CASE s # {}
            <4>1. Max(s) \in 1..n
                BY <3>2, GreatestOf
            <4>2. g[s \ {Max(s)}] \in V
                BY <1>10
            <4>3. g[s] = G[Max(s)][g[s \ {Max(s)}]]
                BY <1>9, <3>1, <3>2 DEF Folding
            <4> QED BY <4>1, <4>2, <4>3, <1>6, <3>2
        <3>3. CASE s = {}
            BY <1>9, <3>3 DEF Folding
        <3> QED BY <3>2, <3>3
    <2>2. g = [s \in SUBSET (1..n) |-> g[s]]
        BY <1>10
    <2>3. [s \in SUBSET (1..n) |-> g[s]]
            = [s \in SUBSET (1..n) |->
                  IF s = {} THEN << << >> >> ELSE Longer(g[s \ {Max(s)}], dims[Max(s)])]
        BY <2>1
    <2> QED BY <2>2, <2>3
<1>12. PICK f : Is(f) /\ f = CHOOSE e : Is(e)
    <2> HIDE DEF Is
    <2> QED BY <1>11
<1> DEFINE Fits(k) == \A q \in DOMAIN f[1..k] :
                          DOMAIN f[1..k][q] = 1..k /\ \A i \in 1..k : f[1..k][q][i] \in ToSet(dims[i])
           Good == {k \in Nat : k \in 0..n => f[1..k] \in V /\ Fits(k)}
<1>13. 0 \in Good
    <2>1. f[1..0] = << << >> >>
        BY <1>12
    <2> QED BY <2>1, <1>3
<1>14. ASSUME NEW k \in Nat, k \in Good, k + 1 \in 0..n
       PROVE  f[1..(k + 1)] \in V /\ Fits(k + 1)
    <2> DEFINE s == 1..(k + 1)
    <2>1. s \in SUBSET (1..n) /\ s \ {k + 1} = 1..k /\ k + 1 \in 1..n /\ k + 1 \in s
          /\ \A j \in s : j \in Nat /\ j <= k + 1
        BY <1>14
    <2> HIDE DEF s
    <2>2. Max(s) = k + 1
        <3>1. Max(s) \in s /\ \A j \in s : j <= Max(s)
            BY <2>1, GreatestOf
        <3> QED BY <2>1, <3>1
    <2>3. f[s] = Longer(f[1..k], dims[k + 1])
        BY <1>12, <2>1, <2>2
    <2>4. f[1..k] \in V /\ Fits(k)
        BY <1>14
    <2> USE DEF s
    <2> DEFINE low == f[1..k]
               high == f[1..(k + 1)]
               dim == dims[k + 1]
    <2>5. /\ high \in V
          /\ \A q \in DOMAIN high : \E p \in DOMAIN low, j \in DOMAIN dim : high[q] = Append(low[p], dim[j])
        <3>1. low \in V /\ high = Longer(low, dims[k + 1]) /\ k + 1 \in 1..n
            BY <2>1, <2>3, <2>4
        <3> HIDE DEF low, high
        <3> QED BY <3>1, <1>4
    <2>6. \A p \in DOMAIN low : /\ low[p] \in Seq(Y)
                                /\ DOMAIN low[p] = 1..k
                                /\ \A i \in 1..k : low[p][i] \in ToSet(dims[i])
        <3>1. low \in Seq(Seq(Y))
            BY <2>4 DEF V
        <3> HIDE DEF low
        <3>2. \A p \in DOMAIN low : low[p] \in Seq(Y)
            BY <3>1
        <3> QED BY <2>4, <3>2 DEF low
    <2>7. dim \in Seq(Y)
        BY <1>2, <2>1
    <2> HIDE DEF low, high, dim
    <2>8. ASSUME NEW q \in DOMAIN high
          PROVE  DOMAIN high[q] = 1..(k + 1) /\ \A i \in 1..(k + 1) : high[q][i] \in ToSet(dims[i])
        <3>1. PICK p \in DOMAIN low, j \in DOMAIN dim : high[q] = Append(low[p], dim[j])
            BY <2>5
        <3> DEFINE pt == low[p]
        <3>2. pt \in Seq(Y) /\ DOMAIN pt = 1..k /\ \A i \in 1..k : pt[i] \in ToSet(dims[i])
            BY <2>6
        <3>3. dim[j] \in Y /\ dim[j] \in ToSet(dim)
            BY <2>7 DEF ToSet
        <3> HIDE DEF pt
        <3>4. Len(pt) = k
            BY <3>2
        <3>5. /\ DOMAIN Append(pt, dim[j]) = 1..(k + 1)
              /\ \A i \in 1..k : Append(pt, dim[j])[i] = pt[i]
              /\ Append(pt, dim[j])[k + 1] = dim[j]
            BY <3>2, <3>3, <3>4
        <3>6. \A i \in 1..(k + 1) : i \in 1..k \/ i = k + 1
            OBVIOUS
        <3> QED BY <3>1, <3>2, <3>3, <3>5, <3>6 DEF pt, dim
    <2> QED BY <2>5, <2>8 DEF high
<1>15. \A k \in Nat : k \in Good
    <2>1. \A k \in Nat : k \in Good => k + 1 \in Good
        BY <1>14
    <2> HIDE DEF Good
    <2> QED BY <1>13, <2>1, Induction
<1>16. f[1..n] \in V /\ Fits(n)
    BY <1>15
<1>17. f[1..n] \in Seq(Seq(Y))
    BY <1>16 DEF V
<1>18. IsList(f[1..n])
    BY <1>17, ListOf
<1> QED BY <1>1, <1>12, <1>16, <1>18

(* So are the parameters of the points of a template name.                 *)
LEMMA PointsList ==
    ASSUME NEW axes, IsList(axes), NEW params, Values(params), NEW defaults, Values(defaults)
    PROVE  IsList(enum_dimensions_params(axes, params, defaults))
<1> DEFINE valued(a) == a \in DOMAIN params \cup DOMAIN defaults
           value(a) == IF a \in DOMAIN params THEN params[a] ELSE defaults[a]
           chosen == [i \in DOMAIN axes |-> IF valued(axes[i]) THEN <<axes[i]>> ELSE << >>]
           known == FlattenSeq(chosen)
           A == ToSet(axes) \cap (DOMAIN params \cup DOMAIN defaults)
           dims == [i \in DOMAIN known |-> AxisPoints(known[i], value(known[i]))]
           points == Product(dims)
<1>1. DOMAIN axes = 1..Len(axes) /\ Len(axes) \in Nat
    BY ListFacts
<1>2. chosen \in Seq(Seq(A))
    <2>1. ASSUME NEW i \in 1..Len(axes)
          PROVE  (IF valued(axes[i]) THEN <<axes[i]>> ELSE << >>) \in Seq(A)
        <3>1. valued(axes[i]) => axes[i] \in A
            BY <1>1 DEF ToSet
        <3> HIDE DEF A, valued
        <3> QED BY <3>1
    <2> HIDE DEF A, valued
    <2> QED BY <1>1, <2>1
<1>3. known \in Seq(A)
    <2> HIDE DEF A, chosen
    <2> QED BY <1>2, FlattenType
<1>4. DOMAIN known = 1..Len(known) /\ Len(known) \in Nat /\ \A i \in DOMAIN known : known[i] \in A
    <2> HIDE DEF A, known
    <2> QED BY <1>3
<1>5. \A a \in A : IsList(value(a))
    BY DEF Values
<1>6. ASSUME NEW a, NEW v, IsList(v)
      PROVE  IsList(AxisPoints(a, v))
    <2>1. DOMAIN v = 1..Len(v) /\ Len(v) \in Nat
        BY <1>6, ListFacts
    <2> QED BY <2>1, ListByPlaces DEF AxisPoints
<1>7. \A i \in DOMAIN dims : IsList(dims[i])
    <2> HIDE DEF A, known
    <2> QED BY <1>4, <1>5, <1>6
<1>8. IsList(points)
    <2>1. DOMAIN dims = 1..Len(known)
        BY <1>4
    <2> HIDE DEF dims, known
    <2> QED BY <1>4, <1>7, <2>1, ProductList
<1> HIDE DEF points
<1>9. DOMAIN points = 1..Len(points) /\ Len(points) \in Nat
    BY <1>8, ListFacts
<1>10. IsList([i \in DOMAIN points |-> PointParams(points[i])])
    BY <1>9, ListByPlaces
<1> QED BY <1>10 DEF enum_dimensions_params, points

-----------------------------------------------------------------------------
(* The containers hold definitions of their kind.                          *)
RootsShaped(rs) ==
    \A kind \in Kinds :
        /\ IsList(rs[kind])
        /\ \A i \in DOMAIN rs[kind] : rs[kind][i].kind = kind /\ Shaped(rs[kind][i])

(* What is found under an id has the id, and is found if it is there.      *)
LEMMA GetHas ==
    ASSUME NEW dict, IsList(dict), NEW id
    PROVE  /\ Has(dict, id) => At(dict, id) \in DOMAIN dict /\ Get(dict, id).id = id
           /\ Has(dict, id) <=> \E i \in DOMAIN dict : dict[i].id = id
<1> DEFINE I == {i \in 1..Len(dict) : dict[i].id = id}
<1>1. Len(dict) \in Nat /\ DOMAIN dict = 1..Len(dict)
    BY ListFacts
<1>2. At(dict, id) = IF I # {} THEN Min(I) ELSE 0
    BY DEF At, SelectInSeq
<1>3. I # {} => Min(I) \in I
    BY <1>1, LeastOf
<1>4. \A i \in I : i # 0
    BY <1>1
<1> QED BY <1>1, <1>2, <1>3, <1>4 DEF Has, Get

(* The first dictionary that has a name.                                   *)
LEMMA FoundIn ==
    ASSUME NEW dicts, IsList(dicts), NEW name
    PROVE  LET k == SelectInSeq(dicts, LAMBDA d : Has(d, name)) IN
           k # 0 => k \in DOMAIN dicts /\ Has(dicts[k], name)
<1> DEFINE I == {i \in 1..Len(dicts) : Has(dicts[i], name)}
<1>1. Len(dicts) \in Nat /\ DOMAIN dicts = 1..Len(dicts)
    BY ListFacts
<1>2. SelectInSeq(dicts, LAMBDA d : Has(d, name)) = IF I # {} THEN Min(I) ELSE 0
    BY DEF SelectInSeq
<1>3. I # {} => Min(I) \in I
    BY <1>1, LeastOf
<1> QED BY <1>1, <1>2, <1>3

LEMMA ExpandedList ==
    ASSUME NEW el, NEW contents, NEW params, NEW axis_defaults, NEW keep, NEW context
    PROVE  IsList(Expanded(el, contents, params, axis_defaults, keep, context))
BY SmallLists DEF Expanded, Failure

LEMMA TopLevelList ==
    ASSUME NEW rs, NEW el, NEW keep
    PROVE  IsList(TopLevelItems(rs, el, keep))
BY SmallLists, ExpandedList DEF TopLevelItems, Failure

LEMMA DefaultsValues ==
    ASSUME NEW rs, RootsShaped(rs), NEW name
    PROVE  Values(PickDefaults(rs, name).params)
<1> DEFINE own(n) == IF Has(rs["defaults"], n) THEN Get(rs["defaults"], n)
                     ELSE [params |-> NoParams, contents |-> << >>]
<1>1. ASSUME NEW n
      PROVE  Values(own(n).params)
    <2>1. CASE Has(rs["defaults"], n)
        <3>1. IsList(rs["defaults"])
            BY DEF RootsShaped, Kinds
        <3>2. At(rs["defaults"], n) \in DOMAIN rs["defaults"]
            BY <2>1, <3>1, GetHas
        <3>3. Shaped(Get(rs["defaults"], n))
            BY <3>2 DEF RootsShaped, Kinds, Get
        <3> QED BY <2>1, <3>3 DEF Shaped
    <2>2. CASE ~Has(rs["defaults"], n)
        BY <2>2 DEF Values, NoParams
    <2> QED BY <2>1, <2>2
<1>2. Values(Merge(own("global").params, own(name).params))
    <2> HIDE DEF own
    <2> QED BY <1>1, MergeValues
<1> QED BY <1>2 DEF PickDefaults

LEMMA GivenIdValues ==
    ASSUME NEW el
    PROVE  Values(GivenId(el))
<1>1. CASE el.has_id
    BY <1>1, ScalarValues DEF GivenId
<1>2. CASE ~el.has_id
    BY <1>2 DEF GivenId, Values, NoParams
<1> QED BY <1>1, <1>2

LEMMA ItemParamsValues ==
    ASSUME NEW rs, RootsShaped(rs), NEW el, Shaped(el), NEW name, NEW params, Values(params)
    PROVE  Values(TemplateParams(PickDefaults(rs, name), el, params))
<1> DEFINE dicts == <<PickDefaults(rs, name).params, el.params, params,
                      Param("template-name", Scalar(el.name.text)), GivenId(el)>>
<1>1. Values(PickDefaults(rs, name).params) /\ Values(el.params)
      /\ Values(Param("template-name", Scalar(el.name.text))) /\ Values(GivenId(el))
    BY DefaultsValues, ScalarValues, GivenIdValues DEF Shaped
<1>2. DOMAIN dicts = 1..5 /\ \A i \in 1..5 : Values(dicts[i])
    BY <1>1
<1> HIDE DEF dicts
<1>3. Values(MergeAll(dicts))
    BY <1>2, MergeAllValues
<1> QED BY <1>3 DEF TemplateParams, dicts

LEMMA TemplateList ==
    ASSUME NEW rs, RootsShaped(rs), NEW el, Shaped(el),
           IsList(el.name.axes), Values(el.axis_defaults),
           NEW name, NEW params, Values(params), NEW keep, NEW context
    PROVE  IsList(TemplateItems(rs, el, name, params, keep, context))
<1> DEFINE picked == IF name # None THEN name ELSE el.defaults
           defaults == PickDefaults(rs, picked)
           item_params == TemplateParams(defaults, el, params)
           points == enum_dimensions_params(el.name.axes, item_params, el.axis_defaults)
           exclude(ps) == IF "exclude" \in DOMAIN ps THEN ps["exclude"] ELSE << >>
           at(point) ==
               LET ps == Merge(item_params, point)
                   verdict == is_point_included(exclude(ps), ps)
               IN  CASE verdict = "excluded" -> << >>
                     [] verdict = "error"    -> Failure
                     [] OTHER -> Expanded(el, Merge(defaults.contents, el.contents), ps,
                                          el.axis_defaults, keep, Append(context, el.id))
           all == [i \in DOMAIN points |-> at(points[i])]
<1>1. Values(item_params)
    <2> HIDE DEF picked
    <2> QED BY ItemParamsValues
<1>2. IsList(points)
    <2> HIDE DEF item_params
    <2> QED BY <1>1, PointsList
<1>3. DOMAIN points = 1..Len(points) /\ Len(points) \in Nat
    <2> HIDE DEF points
    <2> QED BY <1>2, ListFacts
<1>4. ASSUME NEW point
      PROVE  IsList(at(point))
    <2> HIDE DEF item_params, defaults, exclude
    <2> QED BY SmallLists, ExpandedList DEF Failure
<1>5. IsList(FlattenSeq(all))
    <2> HIDE DEF points, at
    <2>1. DOMAIN all = 1..Len(points) /\ \A i \in 1..Len(points) : IsList(all[i])
        BY <1>3, <1>4
    <2>2. all = [i \in 1..Len(points) |-> all[i]]
        BY <1>3
    <2> HIDE DEF all
    <2> QED BY <1>3, <2>1, <2>2, FlattenLists
<1>6. TemplateItems(rs, el, name, params, keep, context)
          = IF ~HasDefaults(rs, picked) THEN Failure ELSE FlattenSeq(all)
    BY DEF TemplateItems
<1> HIDE DEF all, picked
<1> QED BY <1>5, <1>6, SmallLists DEF Failure

(* What a job, view or template that is found in its container gives.      *)
LEMMA RootList ==
    ASSUME NEW rs, RootsShaped(rs), NEW what \in {"job", "view"},
           NEW kind \in {what, TemplateOf[what]}, NEW i \in DOMAIN rs[kind],
           NEW name, NEW params, Values(params), NEW keep, NEW context
    PROVE  IsList(RootItems(rs, rs[kind][i], name, params, keep, context))
<1> DEFINE el == rs[kind][i]
<1>1. kind \in Kinds
    BY DEF Kinds, TemplateOf
<1>2. el.kind = kind /\ Shaped(el)
    BY <1>1 DEF RootsShaped
<1>3. CASE kind \in {"job", "view"}
    BY <1>2, <1>3, SmallLists DEF RootItems
<1>4. CASE kind \notin {"job", "view"}
    <2>1. kind \in {TemplateOf["job"], TemplateOf["view"]}
        BY <1>4
    <2>2. IsList(el.name.axes) /\ Values(el.axis_defaults)
        BY <1>2, <2>1 DEF Shaped
    <2> HIDE DEF el
    <2>3. IsList(TemplateItems(rs, el, name, params, keep, context))
        BY <1>2, <2>2, TemplateList
    <2> QED BY <1>2, <1>4, <2>3 DEF RootItems, el
<1> QED BY <1>3, <1>4

LEMMA FoundShaped ==
    ASSUME NEW rs, RootsShaped(rs), NEW kind \in Kinds, NEW name, Has(rs[kind], name)
    PROVE  At(rs[kind], name) \in DOMAIN rs[kind] /\ Get(rs[kind], name) = rs[kind][At(rs[kind], name)]
<1>1. IsList(rs[kind])
    BY DEF RootsShaped
<1> QED BY <1>1, GetHas DEF Get

LEMMA GroupList ==
    ASSUME NEW rs, RootsShaped(rs), NEW what \in {"job", "view"},
           NEW group, Specs(group.specs), Values(group.params),
           NEW name, NEW params, Values(params), NEW keep, NEW context
    PROVE  IsList(GroupItems(rs, what, group, name, params, keep, context))
<1> DEFINE dicts == <<rs[what], rs[TemplateOf[what]]>>
           specs == group.specs
           found(spec) == SelectInSeq(dicts, LAMBDA d : Has(d, spec.name))
           all_params == Merge(params, group.params)
           ctx == Append(context, group.id)
           of(i) == IF found(specs[i]) = 0 THEN Failure
                    ELSE RootItems(rs, Get(dicts[found(specs[i])], specs[i].name), name,
                                   Merge(all_params, specs[i].params), keep, Append(ctx, i))
           all == [i \in DOMAIN specs |-> of(i)]
<1>1. what \in Kinds /\ TemplateOf[what] \in Kinds
    BY DEF Kinds, TemplateOf
<1>2. GroupItems(rs, what, group, name, params, keep, context) = FlattenSeq(all)
    BY DEF GroupItems, SpecItems
<1>3. Values(all_params)
    BY MergeValues
<1>4. Len(specs) \in Nat /\ DOMAIN specs = 1..Len(specs) /\ \A i \in DOMAIN specs : Values(specs[i].params)
    BY ListFacts DEF Specs
<1>5. IsList(dicts) /\ DOMAIN dicts = {1, 2}
    BY SmallLists
<1>6. ASSUME NEW i \in DOMAIN specs
      PROVE  IsList(of(i))
    <2>1. CASE found(specs[i]) = 0
        BY <2>1, SmallLists DEF Failure
    <2>2. CASE found(specs[i]) # 0
        <3> DEFINE k == found(specs[i])
                   kind == IF k = 1 THEN what ELSE TemplateOf[what]
        <3>1. k \in DOMAIN dicts /\ Has(dicts[k], specs[i].name)
            <4> HIDE DEF dicts
            <4> QED BY <1>5, <2>2, FoundIn
        <3>2. dicts[k] = rs[kind] /\ kind \in {what, TemplateOf[what]} /\ kind \in Kinds
            <4> HIDE DEF found
            <4> QED BY <1>1, <1>5, <3>1
        <3>3. At(rs[kind], specs[i].name) \in DOMAIN rs[kind]
              /\ Get(rs[kind], specs[i].name) = rs[kind][At(rs[kind], specs[i].name)]
            <4> HIDE DEF kind, k, dicts
            <4> QED BY <3>1, <3>2, FoundShaped
        <3>4. Values(Merge(all_params, specs[i].params))
            <4> HIDE DEF all_params
            <4> QED BY <1>3, <1>4, MergeValues
        <3> HIDE DEF kind, dicts, all_params, ctx
        <3>5. IsList(RootItems(rs, Get(rs[kind], specs[i].name), name,
                               Merge(all_params, specs[i].params), keep, Append(ctx, i)))
            BY <3>2, <3>3, <3>4, RootList
        <3> QED BY <2>2, <3>2, <3>5
    <2> QED BY <2>1, <2>2
<1>7. IsList(FlattenSeq(all))
    <2> HIDE DEF of, specs
    <2>1. DOMAIN all = 1..Len(specs) /\ \A i \in 1..Len(specs) : IsList(all[i])
        BY <1>4, <1>6
    <2>2. all = [i \in 1..Len(specs) |-> all[i]]
        BY <1>4
    <2> HIDE DEF all
    <2> QED BY <1>4, <2>1, <2>2, FlattenLists
<1> QED BY <1>2, <1>7

LEMMA ProjectList ==
    ASSUME NEW rs, RootsShaped(rs), NEW what \in {"job", "view"},
           NEW project, Specs(project[what]), Values(project.params), NEW keep
    PROVE  IsList(ProjectItems(rs, what, project, keep))
<1> DEFINE dicts == <<rs[what], rs[TemplateOf[what]], rs[GroupOf[what]]>>
           specs == project[what]
           found(spec) == SelectInSeq(dicts, LAMBDA d : Has(d, spec.name))
           all_params == Merge(project.params, Param("name", Scalar(project.id)))
           gives(el, ps, ctx) ==
               IF el.kind = GroupOf[what]
               THEN GroupItems(rs, what, el, project.defaults, ps, keep, ctx)
               ELSE RootItems(rs, el, project.defaults, ps, keep, ctx)
           of(i) == IF found(specs[i]) = 0 THEN Failure
                    ELSE gives(Get(dicts[found(specs[i])], specs[i].name),
                               Merge(all_params, specs[i].params), Append(<<project.id>>, i))
           all == [i \in DOMAIN specs |-> of(i)]
<1>1. what \in Kinds /\ TemplateOf[what] \in Kinds /\ GroupOf[what] \in Kinds
      /\ GroupOf[what] \notin {what, TemplateOf[what]}
    BY DEF Kinds, TemplateOf, GroupOf
<1>2. ProjectItems(rs, what, project, keep) = FlattenSeq(all)
    BY DEF ProjectItems, SpecItems
<1>3. Values(all_params)
    BY MergeValues, ScalarValues
<1>4. Len(specs) \in Nat /\ DOMAIN specs = 1..Len(specs) /\ \A i \in DOMAIN specs : Values(specs[i].params)
    BY ListFacts DEF Specs
<1>5. IsList(dicts) /\ DOMAIN dicts = {1, 2, 3}
    <2>1. dicts \in Seq({rs[what], rs[TemplateOf[what]], rs[GroupOf[what]]})
        OBVIOUS
    <2>2. DOMAIN dicts = 1..3
        OBVIOUS
    <2> HIDE DEF dicts
    <2>3. IsList(dicts)
        BY <2>1, ListOf
    <2> QED BY <2>2, <2>3
<1>6. ASSUME NEW i \in DOMAIN specs
      PROVE  IsList(of(i))
    <2>1. CASE found(specs[i]) = 0
        BY <2>1, SmallLists DEF Failure
    <2>2. CASE found(specs[i]) # 0
        <3> DEFINE k == found(specs[i])
                   kind == CASE k = 1 -> what [] k = 2 -> TemplateOf[what] [] OTHER -> GroupOf[what]
                   ps == Merge(all_params, specs[i].params)
                   ctx == Append(<<project.id>>, i)
        <3>1. k \in DOMAIN dicts /\ Has(dicts[k], specs[i].name)
            <4> HIDE DEF dicts
            <4> QED BY <1>5, <2>2, FoundIn
        <3>2. dicts[k] = rs[kind] /\ kind \in {what, TemplateOf[what], GroupOf[what]} /\ kind \in Kinds
            <4> HIDE DEF found
            <4> QED BY <1>1, <1>5, <3>1
        <3> DEFINE el == rs[kind][At(rs[kind], specs[i].name)]
        <3>3. At(rs[kind], specs[i].name) \in DOMAIN rs[kind]
              /\ Get(rs[kind], specs[i].name) = el
            <4> HIDE DEF kind, k, dicts
            <4> QED BY <3>1, <3>2, FoundShaped
        <3>4. Values(ps)
            <4> HIDE DEF all_params
            <4> QED BY <1>3, <1>4, MergeValues
        <3>5. el.kind = kind /\ Shaped(el)
            <4> HIDE DEF kind
            <4> QED BY <3>2, <3>3 DEF RootsShaped
        <3> HIDE DEF kind, dicts, ps, ctx
        <3>6. CASE kind = GroupOf[what]
            <4>1. Specs(el.specs) /\ Values(el.params)
                <5>1. kind \in {GroupOf["job"], GroupOf["view"]}
                    BY <3>6
                <5> HIDE DEF el
                <5> QED BY <3>5, <5>1 DEF Shaped
            <4>2. IsList(GroupItems(rs, what, el, project.defaults, ps, keep, ctx))
                <5> HIDE DEF el
                <5> QED BY <3>4, <4>1, GroupList
            <4> HIDE DEF el
            <4> QED BY <2>2, <3>2, <3>3, <3>5, <3>6, <4>2 DEF ps, ctx
        <3>7. CASE kind # GroupOf[what]
            <4>1. IsList(RootItems(rs, el, project.defaults, ps, keep, ctx))
                BY <3>2, <3>3, <3>4, <3>7, RootList
            <4> HIDE DEF el
            <4> QED BY <2>2, <3>2, <3>3, <3>5, <3>7, <4>1 DEF ps, ctx
        <3> QED BY <3>6, <3>7
    <2> QED BY <2>1, <2>2
<1>7. IsList(FlattenSeq(all))
    <2> HIDE DEF of, specs
    <2>1. DOMAIN all = 1..Len(specs) /\ \A i \in 1..Len(specs) : IsList(all[i])
        BY <1>4, <1>6
    <2>2. all = [i \in 1..Len(specs) |-> all[i]]
        BY <1>4
    <2> HIDE DEF all
    <2> QED BY <1>4, <2>1, <2>2, FlattenLists
<1> QED BY <1>2, <1>7

(* What is generated is a list, for containers of well formed definitions. *)
LEMMA GeneratedIsList ==
    ASSUME NEW rs, RootsShaped(rs), NEW what \in {"job", "view"}, NEW keep
    PROVE  IsList(GeneratedList(rs, what, keep))
<1> DEFINE tops == rs[what]
           projects == rs["project"]
           top == [i \in DOMAIN tops |-> TopLevelItems(rs, tops[i], keep)]
           rest == [i \in DOMAIN projects |-> ProjectItems(rs, what, projects[i], keep)]
<1>1. what \in Kinds /\ "project" \in Kinds
    BY DEF Kinds
<1>2. /\ Len(tops) \in Nat /\ DOMAIN tops = 1..Len(tops)
      /\ Len(projects) \in Nat /\ DOMAIN projects = 1..Len(projects)
    BY <1>1, ListFacts DEF RootsShaped
<1>3. IsList(FlattenSeq(top))
    <2> HIDE DEF tops
    <2>1. DOMAIN top = 1..Len(tops) /\ \A i \in 1..Len(tops) : IsList(top[i])
        BY <1>2, TopLevelList
    <2>2. top = [i \in 1..Len(tops) |-> top[i]]
        BY <1>2
    <2> HIDE DEF top
    <2> QED BY <1>2, <2>1, <2>2, FlattenLists
<1>4. ASSUME NEW i \in DOMAIN projects
      PROVE  IsList(ProjectItems(rs, what, projects[i], keep))
    <2>1. projects[i].kind = "project" /\ Shaped(projects[i])
        BY <1>1 DEF RootsShaped
    <2>2. Specs(projects[i][what]) /\ Values(projects[i].params)
        BY <2>1 DEF Shaped
    <2> QED BY <2>2, ProjectList
<1>5. IsList(FlattenSeq(rest))
    <2> HIDE DEF projects
    <2>1. DOMAIN rest = 1..Len(projects) /\ \A i \in 1..Len(projects) : IsList(rest[i])
        BY <1>2, <1>4
    <2>2. rest = [i \in 1..Len(projects) |-> rest[i]]
        BY <1>2
    <2> HIDE DEF rest
    <2> QED BY <1>2, <2>1, <2>2, FlattenLists
<1>6. IsList(FlattenSeq(top) \o FlattenSeq(rest))
    <2> HIDE DEF top, rest
    <2> QED BY <1>3, <1>5, ConcatLists
<1> QED BY <1>6 DEF GeneratedList

-----------------------------------------------------------------------------
(* The order of the definitions: containers with the same definitions, in  *)
(* whatever order, generate the same items.                                *)
LEMMA FlattenListsEmbed ==
    ASSUME NEW m \in Nat, NEW s, DOMAIN s = 1..m, s = [i \in 1..m |-> s[i]],
           \A i \in 1..m : IsList(s[i]),
           NEW n \in Nat, NEW t, DOMAIN t = 1..n, t = [i \in 1..n |-> t[i]],
           \A i \in 1..n : IsList(t[i]),
           Embeds(s, t)
    PROVE  Embeds(FlattenSeq(s), FlattenSeq(t))
<1>1. PICK X : s \in Seq(Seq(X))
    BY ListsOfLists
<1>2. PICK Y : t \in Seq(Seq(Y))
    BY ListsOfLists
<1>3. s \in Seq(Seq(X \cup Y)) /\ t \in Seq(Seq(X \cup Y))
    <2>1. \A u \in Seq(X) \cup Seq(Y) : u \in Seq(X \cup Y)
        OBVIOUS
    <2> QED BY <1>1, <1>2, <2>1
<1> QED BY <1>3, FlattenEmbeds

LEMMA ConcatListsEmbed ==
    ASSUME NEW s1, NEW s2, NEW t1, NEW t2, IsList(s1), IsList(s2), IsList(t1), IsList(t2),
           Embeds(s1, t1), Embeds(s2, t2)
    PROVE  Embeds(s1 \o s2, t1 \o t2)
<1> DEFINE X == ToSet(s1) \cup ToSet(s2) \cup ToSet(t1) \cup ToSet(t2)
<1>1. s1 \in Seq(X) /\ s2 \in Seq(X) /\ t1 \in Seq(X) /\ t2 \in Seq(X)
    BY DEF IsList
<1> HIDE DEF X
<1> QED BY <1>1, ConcatEmbeds

(* What fails, or is there twice, in one list is so in the other.          *)
LEMMA EmbedsItems ==
    ASSUME NEW s, NEW t, Embeds(s, t)
    PROVE  /\ ToSet(s) \subseteq ToSet(t)
           /\ Fails(s) => Fails(t)
           /\ HasDuplicates(s) => HasDuplicates(t)
<1>1. PICK f \in [DOMAIN s -> DOMAIN t] :
          /\ \A i \in DOMAIN s : s[i] = t[f[i]]
          /\ \A i, j \in DOMAIN s : f[i] = f[j] => i = j
    BY DEF Embeds
<1>2. ToSet(s) \subseteq ToSet(t)
    BY <1>1 DEF ToSet
<1>3. Fails(s) => Fails(t)
    BY <1>1 DEF Fails
<1>4. HasDuplicates(s) => HasDuplicates(t)
    BY <1>1 DEF HasDuplicates
<1> QED BY <1>2, <1>3, <1>4

(* Containers with the same definitions, no id twice.                      *)
Distinct(dict) == \A i, j \in DOMAIN dict : dict[i].id = dict[j].id => i = j

SameDict(d, e) == Distinct(d) /\ Distinct(e) /\ Embeds(d, e) /\ Embeds(e, d)

SameRoots(rs, ts) ==
    /\ RootsShaped(rs) /\ RootsShaped(ts)
    /\ \A kind \in Kinds : SameDict(rs[kind], ts[kind])

LEMMA SameLookup ==
    ASSUME NEW d, NEW e, IsList(d), IsList(e), SameDict(d, e), NEW id
    PROVE  /\ Has(d, id) = Has(e, id)
           /\ Has(d, id) => Get(d, id) = Get(e, id)
<1>1. PICK f \in [DOMAIN d -> DOMAIN e] : \A i \in DOMAIN d : d[i] = e[f[i]]
    BY DEF SameDict, Embeds
<1>2. PICK g \in [DOMAIN e -> DOMAIN d] : \A i \in DOMAIN e : e[i] = d[g[i]]
    BY DEF SameDict, Embeds
<1>3. Has(d, id) => Has(e, id)
    BY <1>1, GetHas
<1>4. Has(e, id) => Has(d, id)
    BY <1>2, GetHas
<1>5. Has(d, id) \in BOOLEAN /\ Has(e, id) \in BOOLEAN
    BY DEF Has
<1>6. ASSUME Has(d, id)
      PROVE  Get(d, id) = Get(e, id)
    <2> DEFINE i == At(d, id)
               j == At(e, id)
    <2>1. i \in DOMAIN d /\ Get(d, id) = d[i] /\ d[i].id = id
        BY <1>6, GetHas DEF Get
    <2>2. j \in DOMAIN e /\ Get(e, id) = e[j] /\ e[j].id = id
        BY <1>3, <1>6, GetHas DEF Get
    <2> HIDE DEF i, j
    <2>3. f[i] \in DOMAIN e /\ d[i] = e[f[i]]
        BY <1>1, <2>1
    <2>4. f[i] = j
        BY <2>1, <2>2, <2>3 DEF SameDict, Distinct
    <2> QED BY <2>1, <2>2, <2>3, <2>4
<1> QED BY <1>3, <1>4, <1>5, <1>6

LEMMA SameRootsLookup ==
    ASSUME NEW rs, NEW ts, SameRoots(rs, ts), NEW kind \in Kinds, NEW id
    PROVE  /\ Has(rs[kind], id) = Has(ts[kind], id)
           /\ Has(rs[kind], id) => Get(rs[kind], id) = Get(ts[kind], id)
<1>1. IsList(rs[kind]) /\ IsList(ts[kind]) /\ SameDict(rs[kind], ts[kind])
    BY DEF SameRoots, RootsShaped
<1> QED BY <1>1, SameLookup

LEMMA SameDefaults ==
    ASSUME NEW rs, NEW ts, SameRoots(rs, ts), NEW name
    PROVE  /\ HasDefaults(rs, name) = HasDefaults(ts, name)
           /\ PickDefaults(rs, name) = PickDefaults(ts, name)
<1> DEFINE none == [params |-> NoParams, contents |-> << >>]
           own(rr, n) == IF Has(rr["defaults"], n) THEN Get(rr["defaults"], n) ELSE none
<1>1. "defaults" \in Kinds
    BY DEF Kinds
<1>2. \A n : Has(rs["defaults"], n) = Has(ts["defaults"], n)
    BY <1>1, SameRootsLookup
<1>3. \A n : own(rs, n) = own(ts, n)
    BY <1>1, SameRootsLookup
<1>4. \A rr : PickDefaults(rr, name)
                  = [params |-> Merge(own(rr, "global").params, own(rr, name).params),
                     contents |-> Merge(own(rr, "global").contents, own(rr, name).contents)]
    BY DEF PickDefaults
<1> HIDE DEF own
<1> QED BY <1>2, <1>3, <1>4 DEF HasDefaults

LEMMA SameTopLevel ==
    ASSUME NEW rs, NEW ts, SameRoots(rs, ts), NEW el, NEW keep
    PROVE  TopLevelItems(rs, el, keep) = TopLevelItems(ts, el, keep)
BY SameDefaults DEF TopLevelItems

LEMMA SameTemplate ==
    ASSUME NEW rs, NEW ts, SameRoots(rs, ts), NEW el, NEW name, NEW params, NEW keep, NEW context
    PROVE  TemplateItems(rs, el, name, params, keep, context)
               = TemplateItems(ts, el, name, params, keep, context)
<1> DEFINE picked == IF name # None THEN name ELSE el.defaults
           exclude(ps) == IF "exclude" \in DOMAIN ps THEN ps["exclude"] ELSE << >>
           from(defaults) ==
               LET item_params == TemplateParams(defaults, el, params)
                   points == enum_dimensions_params(el.name.axes, item_params, el.axis_defaults)
                   at(point) ==
                       LET ps == Merge(item_params, point)
                           verdict == is_point_included(exclude(ps), ps)
                       IN  CASE verdict = "excluded" -> << >>
                             [] verdict = "error"    -> Failure
                             [] OTHER -> Expanded(el, Merge(defaults.contents, el.contents), ps,
                                                  el.axis_defaults, keep, Append(context, el.id))
               IN  FlattenSeq([i \in DOMAIN points |-> at(points[i])])
<1>1. \A rr : TemplateItems(rr, el, name, params, keep, context)
                  = IF ~HasDefaults(rr, picked) THEN Failure ELSE from(PickDefaults(rr, picked))
    BY DEF TemplateItems
<1>2. /\ HasDefaults(rs, picked) = HasDefaults(ts, picked)
      /\ PickDefaults(rs, picked) = PickDefaults(ts, picked)
    BY SameDefaults
<1> HIDE DEF from, picked
<1> QED BY <1>1, <1>2

LEMMA SameRootItems ==
    ASSUME NEW rs, NEW ts, SameRoots(rs, ts), NEW el, NEW name, NEW params, NEW keep, NEW context
    PROVE  RootItems(rs, el, name, params, keep, context)
               = RootItems(ts, el, name, params, keep, context)
BY SameTemplate DEF RootItems

(* The first dictionary with a name is the same.                           *)
FirstWith(dicts, id) == SelectInSeq(dicts, LAMBDA d : Has(d, id))

LEMMA SameFound ==
    ASSUME NEW ds, NEW es, Len(ds) \in Nat, Len(es) = Len(ds), NEW id,
           \A k \in 1..Len(ds) : Has(ds[k], id) = Has(es[k], id)
    PROVE  /\ FirstWith(ds, id) = FirstWith(es, id)
           /\ FirstWith(ds, id) # 0 =>
                  FirstWith(ds, id) \in 1..Len(ds) /\ Has(ds[FirstWith(ds, id)], id)
<1> DEFINE I(s) == {k \in 1..Len(s) : Has(s[k], id)}
<1>1. \A s : FirstWith(s, id) = IF I(s) # {} THEN Min(I(s)) ELSE 0
    BY DEF FirstWith, SelectInSeq
<1>2. I(ds) = I(es)
    OBVIOUS
<1>3. I(ds) # {} => Min(I(ds)) \in I(ds)
    BY LeastOf
<1> QED BY <1>1, <1>2, <1>3

LEMMA SameGroup ==
    ASSUME NEW rs, NEW ts, SameRoots(rs, ts), NEW what \in {"job", "view"},
           NEW group, NEW name, NEW params, NEW keep, NEW context
    PROVE  GroupItems(rs, what, group, name, params, keep, context)
               = GroupItems(ts, what, group, name, params, keep, context)
<1> DEFINE dicts(rr) == <<rr[what], rr[TemplateOf[what]]>>
           specs == group.specs
           found(rr, spec) == FirstWith(dicts(rr), spec.name)
           all_params == Merge(params, group.params)
           ctx == Append(context, group.id)
           of(rr, i) == IF found(rr, specs[i]) = 0 THEN Failure
                        ELSE RootItems(rr, Get(dicts(rr)[found(rr, specs[i])], specs[i].name), name,
                                       Merge(all_params, specs[i].params), keep, Append(ctx, i))
<1>1. what \in Kinds /\ TemplateOf[what] \in Kinds
    BY DEF Kinds, TemplateOf
<1>2. \A rr : GroupItems(rr, what, group, name, params, keep, context)
                  = FlattenSeq([i \in DOMAIN specs |-> of(rr, i)])
    BY DEF GroupItems, SpecItems, FirstWith
<1>3. \A rr : Len(dicts(rr)) = 2 /\ dicts(rr)[1] = rr[what] /\ dicts(rr)[2] = rr[TemplateOf[what]]
    OBVIOUS
<1> HIDE DEF dicts
<1>4. ASSUME NEW id, NEW k \in 1..2
      PROVE  /\ Has(dicts(rs)[k], id) = Has(dicts(ts)[k], id)
             /\ Has(dicts(rs)[k], id) => Get(dicts(rs)[k], id) = Get(dicts(ts)[k], id)
    <2>1. PICK kind \in Kinds : dicts(rs)[k] = rs[kind] /\ dicts(ts)[k] = ts[kind]
        <3>1. k = 1 \/ k = 2
            OBVIOUS
        <3> QED BY <1>1, <1>3, <3>1
    <2> QED BY <2>1, SameRootsLookup
<1>5. ASSUME NEW i
      PROVE  of(rs, i) = of(ts, i)
    <2> DEFINE k == found(rs, specs[i])
               id == specs[i].name
    <2>1. /\ k = found(ts, specs[i])
          /\ k # 0 => k \in 1..2 /\ Has(dicts(rs)[k], id)
        <3> DEFINE ds == dicts(rs)
                   es == dicts(ts)
        <3>1. Len(ds) = 2 /\ Len(es) = 2
            BY <1>3
        <3>2. \A j \in 1..2 : Has(ds[j], id) = Has(es[j], id)
            BY <1>4
        <3> HIDE DEF id, ds, es
        <3>3. /\ FirstWith(ds, id) = FirstWith(es, id)
              /\ FirstWith(ds, id) # 0 => FirstWith(ds, id) \in 1..2 /\ Has(ds[FirstWith(ds, id)], id)
            BY <3>1, <3>2, SameFound
        <3> QED BY <3>3 DEF id, ds, es
    <2>2. k # 0 => Get(dicts(rs)[k], id) = Get(dicts(ts)[k], id)
        <3> HIDE DEF k
        <3> QED BY <1>4, <2>1
    <2>3. \A el, ps, c : RootItems(rs, el, name, ps, keep, c) = RootItems(ts, el, name, ps, keep, c)
        BY SameRootItems
    <2> HIDE DEF found
    <2> QED BY <2>1, <2>2, <2>3
<1> HIDE DEF of
<1>6. [i \in DOMAIN specs |-> of(rs, i)] = [i \in DOMAIN specs |-> of(ts, i)]
    BY <1>5
<1> HIDE DEF specs
<1> QED BY <1>2, <1>6

LEMMA SameProject ==
    ASSUME NEW rs, NEW ts, SameRoots(rs, ts), NEW what \in {"job", "view"}, NEW project, NEW keep
    PROVE  ProjectItems(rs, what, project, keep) = ProjectItems(ts, what, project, keep)
<1> DEFINE dicts(rr) == <<rr[what], rr[TemplateOf[what]], rr[GroupOf[what]]>>
           specs == project[what]
           found(rr, spec) == FirstWith(dicts(rr), spec.name)
           all_params == Merge(project.params, Param("name", Scalar(project.id)))
           gives(rr, el, ps, c) ==
               IF el.kind = GroupOf[what]
               THEN GroupItems(rr, what, el, project.defaults, ps, keep, c)
               ELSE RootItems(rr, el, project.defaults, ps, keep, c)
           of(rr, i) == IF found(rr, specs[i]) = 0 THEN Failure
                        ELSE gives(rr, Get(dicts(rr)[found(rr, specs[i])], specs[i].name),
                                   Merge(all_params, specs[i].params), Append(<<project.id>>, i))
<1>1. what \in Kinds /\ TemplateOf[what] \in Kinds /\ GroupOf[what] \in Kinds
    BY DEF Kinds, TemplateOf, GroupOf
<1>2. \A rr : ProjectItems(rr, what, project, keep) = FlattenSeq([i \in DOMAIN specs |-> of(rr, i)])
    BY DEF ProjectItems, SpecItems, FirstWith
<1>3. \A rr : /\ Len(dicts(rr)) = 3 /\ dicts(rr)[1] = rr[what]
              /\ dicts(rr)[2] = rr[TemplateOf[what]] /\ dicts(rr)[3] = rr[GroupOf[what]]
    OBVIOUS
<1> HIDE DEF dicts
<1>4. ASSUME NEW id, NEW k \in 1..3
      PROVE  /\ Has(dicts(rs)[k], id) = Has(dicts(ts)[k], id)
             /\ Has(dicts(rs)[k], id) => Get(dicts(rs)[k], id) = Get(dicts(ts)[k], id)
    <2>1. PICK kind \in Kinds : dicts(rs)[k] = rs[kind] /\ dicts(ts)[k] = ts[kind]
        <3>1. k = 1 \/ k = 2 \/ k = 3
            OBVIOUS
        <3> QED BY <1>1, <1>3, <3>1
    <2> QED BY <2>1, SameRootsLookup
<1>5. \A el, ps, c : gives(rs, el, ps, c) = gives(ts, el, ps, c)
    BY SameGroup, SameRootItems
<1> HIDE DEF gives
<1>6. ASSUME NEW i
      PROVE  of(rs, i) = of(ts, i)
    <2> DEFINE k == found(rs, specs[i])
               id == specs[i].name
    <2>1. /\ k = found(ts, specs[i])
          /\ k # 0 => k \in 1..3 /\ Has(dicts(rs)[k], id)
        <3> DEFINE ds == dicts(rs)
                   es == dicts(ts)
        <3>1. Len(ds) = 3 /\ Len(es) = 3
            BY <1>3
        <3>2. \A j \in 1..3 : Has(ds[j], id) = Has(es[j], id)
            BY <1>4
        <3> HIDE DEF id, ds, es
        <3>3. /\ FirstWith(ds, id) = FirstWith(es, id)
              /\ FirstWith(ds, id) # 0 => FirstWith(ds, id) \in 1..3 /\ Has(ds[FirstWith(ds, id)], id)
            BY <3>1, <3>2, SameFound
        <3> QED BY <3>3 DEF id, ds, es
    <2>2. k # 0 => Get(dicts(rs)[k], id) = Get(dicts(ts)[k], id)
        <3> HIDE DEF k
        <3> QED BY <1>4, <2>1
    <2> HIDE DEF found
    <2> QED BY <1>5, <2>1, <2>2
<1> HIDE DEF of
<1>7. [i \in DOMAIN specs |-> of(rs, i)] = [i \in DOMAIN specs |-> of(ts, i)]
    BY <1>6
<1> HIDE DEF specs
<1> QED BY <1>2, <1>7

(* What each definition of a container gives, one after the other.         *)
LEMMA EachEmbeds ==
    ASSUME NEW d, NEW e, IsList(d), IsList(e), Embeds(d, e),
           NEW s, NEW t, DOMAIN s = DOMAIN d, DOMAIN t = DOMAIN e,
           s = [i \in DOMAIN d |-> s[i]], t = [i \in DOMAIN e |-> t[i]],
           \A i \in DOMAIN d : IsList(s[i]), \A i \in DOMAIN e : IsList(t[i]),
           \A i \in DOMAIN d, j \in DOMAIN e : d[i] = e[j] => s[i] = t[j]
    PROVE  Embeds(FlattenSeq(s), FlattenSeq(t))
<1>1. /\ Len(d) \in Nat /\ DOMAIN d = 1..Len(d)
      /\ Len(e) \in Nat /\ DOMAIN e = 1..Len(e)
    BY ListFacts
<1>2. PICK f \in [DOMAIN d -> DOMAIN e] :
          /\ \A i \in DOMAIN d : d[i] = e[f[i]]
          /\ \A i, j \in DOMAIN d : f[i] = f[j] => i = j
    BY DEF Embeds
<1>3. \A i \in DOMAIN s : s[i] = t[f[i]]
    BY <1>2
<1>4. Embeds(s, t)
    BY <1>2, <1>3 DEF Embeds
<1> QED BY <1>1, <1>4, FlattenListsEmbed

LEMMA GeneratedEmbeds ==
    ASSUME NEW rs, NEW ts, SameRoots(rs, ts),
           \A kind \in Kinds : Embeds(rs[kind], ts[kind]),
           NEW what \in {"job", "view"}, NEW keep
    PROVE  Embeds(GeneratedList(rs, what, keep), GeneratedList(ts, what, keep))
<1> DEFINE tops(rr) == [i \in DOMAIN rr[what] |-> TopLevelItems(rr, rr[what][i], keep)]
           rest(rr) == [i \in DOMAIN rr["project"] |->
                            ProjectItems(rr, what, rr["project"][i], keep)]
<1>1. what \in Kinds /\ "project" \in Kinds
    BY DEF Kinds
<1>2. RootsShaped(rs) /\ RootsShaped(ts)
    BY DEF SameRoots
<1>3. \A kind \in Kinds : IsList(rs[kind]) /\ IsList(ts[kind])
    BY <1>2 DEF RootsShaped
<1>4. ASSUME NEW rr, RootsShaped(rr), NEW i \in DOMAIN rr["project"]
      PROVE  IsList(ProjectItems(rr, what, rr["project"][i], keep))
    <2>1. rr["project"][i].kind = "project" /\ Shaped(rr["project"][i])
        BY <1>1, <1>4 DEF RootsShaped
    <2>2. Specs(rr["project"][i][what]) /\ Values(rr["project"][i].params)
        BY <2>1 DEF Shaped
    <2> QED BY <1>4, <2>2, ProjectList
<1>5. Embeds(FlattenSeq(tops(rs)), FlattenSeq(tops(ts)))
    <2> DEFINE d == rs[what]
               e == ts[what]
               s == tops(rs)
               t == tops(ts)
    <2>1. IsList(d) /\ IsList(e) /\ Embeds(d, e)
        BY <1>1, <1>3
    <2>2. DOMAIN s = DOMAIN d /\ DOMAIN t = DOMAIN e
          /\ s = [i \in DOMAIN d |-> s[i]] /\ t = [i \in DOMAIN e |-> t[i]]
        OBVIOUS
    <2>3. (\A i \in DOMAIN d : IsList(s[i])) /\ (\A i \in DOMAIN e : IsList(t[i]))
        BY TopLevelList
    <2>4. \A i \in DOMAIN d, j \in DOMAIN e : d[i] = e[j] => s[i] = t[j]
        BY SameTopLevel
    <2> HIDE DEF d, e, s, t
    <2>5. Embeds(FlattenSeq(s), FlattenSeq(t))
        BY <2>1, <2>2, <2>3, <2>4, EachEmbeds
    <2> QED BY <2>5 DEF s, t
<1>6. Embeds(FlattenSeq(rest(rs)), FlattenSeq(rest(ts)))
    <2> DEFINE d == rs["project"]
               e == ts["project"]
               s == rest(rs)
               t == rest(ts)
    <2>1. IsList(d) /\ IsList(e) /\ Embeds(d, e)
        BY <1>1, <1>3
    <2>2. DOMAIN s = DOMAIN d /\ DOMAIN t = DOMAIN e
          /\ s = [i \in DOMAIN d |-> s[i]] /\ t = [i \in DOMAIN e |-> t[i]]
        OBVIOUS
    <2>3. (\A i \in DOMAIN d : IsList(s[i])) /\ (\A i \in DOMAIN e : IsList(t[i]))
        BY <1>2, <1>4
    <2>4. \A i \in DOMAIN d, j \in DOMAIN e : d[i] = e[j] => s[i] = t[j]
        BY SameProject
    <2> HIDE DEF d, e, s, t
    <2>5. Embeds(FlattenSeq(s), FlattenSeq(t))
        BY <2>1, <2>2, <2>3, <2>4, EachEmbeds
    <2> QED BY <2>5 DEF s, t
<1>7. \A rr : GeneratedList(rr, what, keep) = FlattenSeq(tops(rr)) \o FlattenSeq(rest(rr))
    BY DEF GeneratedList
<1>8. ASSUME NEW rr, RootsShaped(rr)
      PROVE  IsList(FlattenSeq(tops(rr))) /\ IsList(FlattenSeq(rest(rr)))
    <2> DEFINE d == rr[what]
               p == rr["project"]
               s == tops(rr)
               t == rest(rr)
    <2>1. /\ Len(d) \in Nat /\ DOMAIN d = 1..Len(d)
          /\ Len(p) \in Nat /\ DOMAIN p = 1..Len(p)
        BY <1>1, <1>8, ListFacts DEF RootsShaped
    <2>2. /\ DOMAIN s = 1..Len(d) /\ s = [i \in 1..Len(d) |-> s[i]]
          /\ DOMAIN t = 1..Len(p) /\ t = [i \in 1..Len(p) |-> t[i]]
        BY <2>1
    <2>3. (\A i \in 1..Len(d) : IsList(s[i])) /\ (\A i \in 1..Len(p) : IsList(t[i]))
        BY <1>4, <1>8, <2>1, TopLevelList
    <2> HIDE DEF d, p, s, t
    <2>4. IsList(FlattenSeq(s)) /\ IsList(FlattenSeq(t))
        BY <2>1, <2>2, <2>3, FlattenLists
    <2> QED BY <2>4 DEF s, t
<1> HIDE DEF tops, rest
<1>9. Embeds(FlattenSeq(tops(rs)) \o FlattenSeq(rest(rs)), FlattenSeq(tops(ts)) \o FlattenSeq(rest(ts)))
    BY <1>2, <1>5, <1>6, <1>8, ConcatListsEmbed
<1>10. /\ GeneratedList(rs, what, keep) = FlattenSeq(tops(rs)) \o FlattenSeq(rest(rs))
       /\ GeneratedList(ts, what, keep) = FlattenSeq(tops(ts)) \o FlattenSeq(rest(ts))
    BY <1>7
<1> QED BY <1>9, <1>10

(* So they fail together, have duplicates together and give the same.      *)
LEMMA SameGenerated ==
    ASSUME NEW rs, NEW ts, SameRoots(rs, ts), NEW what \in {"job", "view"}, NEW keep
    PROVE  /\ Fails(GeneratedList(rs, what, keep)) = Fails(GeneratedList(ts, what, keep))
           /\ HasDuplicates(GeneratedList(rs, what, keep))
                  = HasDuplicates(GeneratedList(ts, what, keep))
           /\ ToSet(GeneratedList(rs, what, keep)) = ToSet(GeneratedList(ts, what, keep))
<1> DEFINE a == GeneratedList(rs, what, keep)
           b == GeneratedList(ts, what, keep)
<1>1. SameRoots(ts, rs)
    BY DEF SameRoots, SameDict
<1>2. Embeds(a, b)
    BY GeneratedEmbeds DEF SameRoots, SameDict
<1>3. Embeds(b, a)
    BY <1>1, GeneratedEmbeds DEF SameRoots, SameDict
<1> HIDE DEF a, b
<1>4. Fails(a) \in BOOLEAN /\ Fails(b) \in BOOLEAN
      /\ HasDuplicates(a) \in BOOLEAN /\ HasDuplicates(b) \in BOOLEAN
    BY DEF Fails, HasDuplicates
<1>5. Fails(a) = Fails(b) /\ HasDuplicates(a) = HasDuplicates(b) /\ ToSet(a) = ToSet(b)
    BY <1>2, <1>3, <1>4, EmbedsItems
<1> QED BY <1>5 DEF a, b

-----------------------------------------------------------------------------
(* The inductive invariant: what is left of the command line and of a      *)
(* directory leads to the files that WellFormed is about, and the elements *)
(* that wait and the containers hold what came from them.                  *)
Entries == UNION {Listing[d] \cap Yaml : d \in DOMAIN Listing \cap ToSet(PathList)}

Inv ==
    /\ WellFormed
    /\ IsList(paths) /\ ToSet(paths) \subseteq ToSet(PathList)
    /\ listing \subseteq Entries
    /\ IsList(items)
    /\ \A i \in DOMAIN items : items[i].kind \in Kinds => Shaped(items[i])
    /\ DOMAIN roots = Kinds /\ RootsShaped(roots)

LEMMA AssignedShaped ==
    ASSUME NEW dict, IsList(dict), NEW kind, NEW value, value.kind = kind, Shaped(value),
           \A i \in DOMAIN dict : dict[i].kind = kind /\ Shaped(dict[i])
    PROVE  /\ IsList(Assigned(dict, value))
           /\ \A i \in DOMAIN Assigned(dict, value) :
                  Assigned(dict, value)[i].kind = kind /\ Shaped(Assigned(dict, value)[i])
<1>1. Len(dict) \in Nat /\ DOMAIN dict = 1..Len(dict)
    BY ListFacts
<1>2. CASE Has(dict, value.id)
    <2> DEFINE k == At(dict, value.id)
               new == [dict EXCEPT ![k] = value]
    <2>1. Assigned(dict, value) = new
        BY <1>2 DEF Assigned, ReplaceAt
    <2>2. k \in DOMAIN dict
        BY <1>2, GetHas
    <2> HIDE DEF k
    <2>3. DOMAIN new = 1..Len(dict) /\ \A i \in DOMAIN new : new[i] = value \/ new[i] = dict[i]
        BY <1>1, <2>2
    <2>4. new = [i \in 1..Len(dict) |-> new[i]]
        BY <1>1
    <2> HIDE DEF new
    <2> QED BY <1>1, <2>1, <2>3, <2>4, ListByPlaces
<1>3. CASE ~Has(dict, value.id)
    <2> DEFINE new == Append(dict, value)
    <2>1. Assigned(dict, value) = new
        BY <1>3 DEF Assigned
    <2>2. dict \in Seq(ToSet(dict) \cup {value})
        BY DEF IsList
    <2>3. new \in Seq(ToSet(dict) \cup {value})
        BY <2>2
    <2>4. Len(new) = Len(dict) + 1 /\ DOMAIN new = 1..(Len(dict) + 1)
          /\ new[Len(dict) + 1] = value /\ \A i \in 1..Len(dict) : new[i] = dict[i]
        BY <2>2
    <2> HIDE DEF new
    <2>5. IsList(new)
        BY <2>3, ListOf
    <2>6. \A i \in DOMAIN new : new[i] = value \/ (i \in DOMAIN dict /\ new[i] = dict[i])
        BY <1>1, <2>4
    <2> QED BY <2>1, <2>5, <2>6
<1> QED BY <1>2, <1>3

LEMMA TailOfList ==
    ASSUME NEW s, IsList(s), s # << >>
    PROVE  /\ Head(s) \in ToSet(s)
           /\ IsList(Tail(s)) /\ ToSet(Tail(s)) \subseteq ToSet(s)
<1> DEFINE X == ToSet(s)
<1>1. s \in Seq(X)
    BY DEF IsList
<1> HIDE DEF X
<1>2. Head(s) \in X /\ Tail(s) \in Seq(X)
    BY <1>1
<1>3. IsList(Tail(s))
    BY <1>2, ListOf
<1>4. \A i \in DOMAIN Tail(s) : Tail(s)[i] \in X
    BY <1>2
<1> QED BY <1>2, <1>3, <1>4 DEF X, ToSet

LEMMA InitInv == WellFormed /\ Init => Inv
<1> SUFFICES ASSUME WellFormed, Init
             PROVE  Inv
    OBVIOUS
<1>1. IsList(paths) /\ ToSet(paths) \subseteq ToSet(PathList)
    BY CommandLine DEF Init, IsList
<1>2. listing \subseteq Entries
    BY DEF Init
<1>3. IsList(items) /\ DOMAIN items = {}
    BY SmallLists DEF Init
<1>4. DOMAIN roots = Kinds /\ RootsShaped(roots)
    <2>1. DOMAIN roots = Kinds /\ \A kind \in Kinds : roots[kind] = << >>
        BY DEF Init, NoRoots
    <2> QED BY <2>1, SmallLists DEF RootsShaped
<1> QED BY <1>1, <1>2, <1>3, <1>4 DEF Inv

(* A file is read that the command line reaches.                           *)
LEMMA LoadFileShapes ==
    ASSUME Inv, items = << >>, NEW file \in Reached,
           LoadFile(file) \/ UNCHANGED <<anchors, items, outcome>>
    PROVE  /\ IsList(items')
           /\ \A i \in DOMAIN items' : items'[i].kind \in Kinds => Shaped(items'[i])
<1>1. CASE items' = items
    BY <1>1 DEF Inv
<1>2. CASE items' # items
    <2>1. content[file].is_list /\ items' = content[file].items
        BY <1>2 DEF LoadFile
    <2> QED BY <2>1 DEF Inv, WellFormed
<1> QED BY <1>1, <1>2

LEMMA NextInv == Inv /\ [Next]_vars => Inv'
<1> SUFFICES ASSUME Inv, [Next]_vars
             PROVE  Inv'
    OBVIOUS
<1>1. content' = content
    BY DEF Next, NextPath, NextOfDirectory, AddItem, Generate, vars
<1>2. WellFormed'
    BY <1>1 DEF Inv, WellFormed
<1>3. CASE NextPath
    <2>1. Head(paths) \in ToSet(PathList) /\ IsList(Tail(paths)) /\ ToSet(Tail(paths)) \subseteq ToSet(PathList)
        BY <1>3, TailOfList DEF Inv, NextPath
    <2>2. IsList(paths') /\ ToSet(paths') \subseteq ToSet(PathList)
        BY <1>3, <2>1 DEF NextPath
    <2>3. listing' \subseteq Entries
        BY <1>3, <2>1 DEF Inv, NextPath, Entries
    <2>4. /\ IsList(items')
          /\ \A i \in DOMAIN items' : items'[i].kind \in Kinds => Shaped(items'[i])
        <3>1. CASE Head(paths) = Stdin
            <4>1. Stdin \in Reached
                BY <2>1, <3>1 DEF Reached
            <4> QED BY <1>3, <3>1, <4>1, LoadFileShapes DEF NextPath, Idle
        <3>2. CASE Head(paths) # Stdin /\ Head(paths) \in DOMAIN Listing
            BY <1>3, <3>2 DEF NextPath, Inv
        <3>3. CASE Head(paths) # Stdin /\ Head(paths) \notin DOMAIN Listing
            <4>1. Resolve[Head(paths)] \in Reached
                BY <2>1, <3>3 DEF Reached, FilePaths
            <4>2. LoadFile(Resolve[Head(paths)]) \/ UNCHANGED <<anchors, items, outcome>>
                BY <1>3, <3>3 DEF NextPath, Visit
            <4> QED BY <1>3, <4>1, <4>2, LoadFileShapes DEF NextPath, Idle
        <3> QED BY <3>1, <3>2, <3>3
    <2>5. DOMAIN roots' = Kinds /\ RootsShaped(roots')
        BY <1>3 DEF NextPath, Inv
    <2> QED BY <1>2, <2>2, <2>3, <2>4, <2>5 DEF Inv, RootsShaped
<1>4. ASSUME NEW path \in listing, NextOfDirectory(path)
      PROVE  Inv'
    <2>1. Resolve[path] \in Reached
        BY DEF Inv, Entries, Reached, FilePaths
    <2>2. LoadFile(Resolve[path]) \/ UNCHANGED <<anchors, items, outcome>>
        BY <1>4 DEF NextOfDirectory, Visit
    <2>3. /\ IsList(items')
          /\ \A i \in DOMAIN items' : items'[i].kind \in Kinds => Shaped(items'[i])
        BY <1>4, <2>1, <2>2, LoadFileShapes DEF NextOfDirectory, Idle
    <2> QED BY <1>2, <1>4, <2>3 DEF Inv, NextOfDirectory, RootsShaped
<1>5. CASE AddItem
    <2> DEFINE item == Head(items)
    <2>1. item \in ToSet(items) /\ IsList(Tail(items)) /\ ToSet(Tail(items)) \subseteq ToSet(items)
        BY <1>5, TailOfList DEF Inv, AddItem
    <2>2. \A e \in ToSet(items) : e.kind \in Kinds => Shaped(e)
        BY DEF Inv, ToSet
    <2>3. /\ IsList(items')
          /\ \A i \in DOMAIN items' : items'[i].kind \in Kinds => Shaped(items'[i])
        <3>1. items' = Tail(items)
            BY <1>5 DEF AddItem
        <3>2. \A i \in DOMAIN items' : items'[i] \in ToSet(items)
            BY <2>1, <3>1 DEF ToSet
        <3> QED BY <2>1, <2>2, <3>1, <3>2
    <2>4. DOMAIN roots' = Kinds /\ RootsShaped(roots')
        <3>1. CASE roots' = roots
            BY <3>1 DEF Inv
        <3>2. CASE roots' # roots
            <4>1. item.kind \in Kinds /\ roots' = [roots EXCEPT ![item.kind] = Assigned(@, item)]
                BY <1>5, <3>2 DEF AddItem
            <4>2. Shaped(item)
                BY <2>1, <2>2, <4>1
            <4> HIDE DEF item
            <4>3. ASSUME NEW kind \in Kinds
                  PROVE  /\ IsList(roots'[kind])
                         /\ \A i \in DOMAIN roots'[kind] :
                                roots'[kind][i].kind = kind /\ Shaped(roots'[kind][i])
                <5>1. /\ IsList(roots[kind])
                      /\ \A i \in DOMAIN roots[kind] :
                             roots[kind][i].kind = kind /\ Shaped(roots[kind][i])
                    BY DEF Inv, RootsShaped
                <5>2. CASE roots'[kind] = roots[kind]
                    BY <5>1, <5>2
                <5>3. CASE kind = item.kind /\ roots'[kind] = Assigned(roots[kind], item)
                    BY <4>2, <5>1, <5>3, AssignedShaped
                <5> QED BY <4>1, <5>2, <5>3 DEF Inv
            <4>4. DOMAIN roots' = Kinds
                BY <4>1 DEF Inv
            <4> QED BY <4>3, <4>4 DEF RootsShaped
        <3> QED BY <3>1, <3>2
    <2> QED BY <1>2, <1>5, <2>3, <2>4 DEF Inv, AddItem, RootsShaped
<1>6. CASE Generate
    BY <1>2, <1>6 DEF Inv, Generate, RootsShaped
<1>7. CASE UNCHANGED vars
    BY <1>2, <1>7 DEF Inv, vars, RootsShaped
<1> QED BY <1>3, <1>4, <1>5, <1>6, <1>7 DEF Next

(* In every state of every run the containers hold elements of the shapes  *)
(* that the constructors give them, so what is generated is a list.        *)
THEOREM RootsAreShaped == Spec => []Inv
<1>1. WellFormed /\ Init => Inv
    BY InitInv
<1>2. Inv /\ [Next]_vars => Inv'
    BY NextInv
<1> QED BY <1>1, <1>2, PTL DEF Spec

-----------------------------------------------------------------------------
(* What Generate leaves is what LastDefinitionWins says of it.             *)
LEMMA GenerateLastWins ==
    ASSUME Inv, Generate, outcome' = "generated"
    PROVE  LastDefinitionWins'
<1> DEFINE list(what) == GeneratedList(roots, what, yamlparser.keep_descriptions)
           both == [what \in {"job", "view"} |-> list(what)]
<1>1. \A what \in {"job", "view"} : IsList(list(what))
    BY GeneratedIsList DEF Inv
<1>2. /\ yamlparser.allow_duplicates
         \/ \A what \in {"job", "view"} : ~HasDuplicates(list(what))
      /\ jobs' = RemoveDuplicates(list("job"))
      /\ views' = RemoveDuplicates(list("view"))
      /\ roots' = roots /\ yamlparser' = yamlparser
    <2> HIDE DEF list
    <2>1. DOMAIN both = {"job", "view"} /\ both["job"] = list("job") /\ both["view"] = list("view")
        OBVIOUS
    <2> HIDE DEF both
    <2>2. /\ IF \E what \in DOMAIN both : Fails(both[what])
             THEN outcome' = "cannot generate" /\ UNCHANGED <<jobs, views>>
             ELSE IF /\ ~yamlparser.allow_duplicates
                     /\ \E what \in DOMAIN both : HasDuplicates(both[what])
             THEN outcome' = "duplicate" /\ UNCHANGED <<jobs, views>>
             ELSE /\ jobs' = RemoveDuplicates(both["job"])
                  /\ views' = RemoveDuplicates(both["view"])
                  /\ outcome' = "generated"
          /\ UNCHANGED <<yamlparser, roots>>
        BY DEF Generate, both, list
    <2> QED BY <2>1, <2>2
<1> DEFINE after(what) == GeneratedList(roots', what, yamlparser'.keep_descriptions)
<1>3. \A what : after(what) = list(what)
    BY <1>2
<1> HIDE DEF list
<1>4. LastWins(RemoveDuplicates(list("job")), list("job"))
    BY <1>1, LastOfEachIsKept DEF IsList
<1>5. LastWins(RemoveDuplicates(list("view")), list("view"))
    BY <1>1, LastOfEachIsKept DEF IsList
<1>6. ASSUME ~yamlparser.allow_duplicates
      PROVE  jobs' = list("job") /\ views' = list("view")
    BY <1>1, <1>2, <1>6, NothingToRemove DEF IsList
<1> HIDE DEF after
<1>7. /\ LastWins(jobs', after("job"))
      /\ LastWins(views', after("view"))
      /\ ~yamlparser'.allow_duplicates => jobs' = after("job") /\ views' = after("view")
    BY <1>2, <1>3, <1>4, <1>5, <1>6
<1> QED BY <1>7 DEF LastDefinitionWins, LastWins, after

(* Once the jobs and the views are generated nothing changes any more.     *)
LEMMA OnlyGenerateGenerates ==
    ASSUME [Next]_vars, outcome' = "generated", ~Generate
    PROVE  UNCHANGED <<yamlparser, roots, jobs, views, outcome>>
<1>1. ASSUME NEW file, LoadFile(file)
      PROVE  outcome' = outcome
    BY <1>1 DEF LoadFile
<1>2. ASSUME NEW path, Visit(path)
      PROVE  outcome' = outcome
    BY <1>1, <1>2 DEF Visit
<1>3. CASE NextPath
    BY <1>1, <1>2, <1>3 DEF NextPath, Idle
<1>4. ASSUME NEW path \in listing, NextOfDirectory(path)
      PROVE  UNCHANGED <<yamlparser, roots, jobs, views, outcome>>
    BY <1>2, <1>4 DEF NextOfDirectory, Idle
<1>5. CASE AddItem
    BY <1>5 DEF AddItem
<1>6. CASE UNCHANGED vars
    BY <1>6 DEF vars
<1> QED BY <1>3, <1>4, <1>5, <1>6 DEF Next

(* In every state of every run, of two jobs or two views of one name the   *)
(* one that was generated last is kept, in its place among the others, no  *)
(* name gets lost, and without allow_duplicates nothing is dropped at all: *)
(* for every command line, whatever is in the files and in whatever order  *)
(* a directory gives them (roots.py:69-90).                                *)
THEOREM LastDefinition == Spec => []LastDefinitionWins
<1>1. WellFormed /\ Init => Inv /\ LastDefinitionWins
    BY InitInv DEF Init, LastDefinitionWins
<1>2. Inv /\ LastDefinitionWins /\ [Next]_vars => Inv' /\ LastDefinitionWins'
    <2> SUFFICES ASSUME Inv, LastDefinitionWins, [Next]_vars, outcome' = "generated"
                 PROVE  LastDefinitionWins'
        BY NextInv DEF LastDefinitionWins
    <2>1. CASE Generate
        BY <2>1, GenerateLastWins
    <2>2. CASE ~Generate
        <3>1. UNCHANGED <<yamlparser, roots, jobs, views, outcome>>
            BY <2>2, OnlyGenerateGenerates
        <3> DEFINE list(what) == GeneratedList(roots, what, yamlparser.keep_descriptions)
                   after(what) == GeneratedList(roots', what, yamlparser'.keep_descriptions)
        <3>2. \A what : after(what) = list(what)
            BY <3>1
        <3>3. /\ LastWins(jobs, list("job"))
              /\ LastWins(views, list("view"))
              /\ ~yamlparser.allow_duplicates => jobs = list("job") /\ views = list("view")
            BY <3>1 DEF LastDefinitionWins
        <3> HIDE DEF list, after
        <3>4. /\ LastWins(jobs', after("job"))
              /\ LastWins(views', after("view"))
              /\ ~yamlparser'.allow_duplicates => jobs' = after("job") /\ views' = after("view")
            BY <3>1, <3>2, <3>3
        <3> QED BY <3>4 DEF LastDefinitionWins, LastWins, after
    <2> QED BY <2>1, <2>2
<1> QED BY <1>1, <1>2, PTL DEF Spec

-----------------------------------------------------------------------------
(* The containers against what the files define.                           *)

LEMMA DistinctEmbeds ==
    ASSUME NEW s, NEW t, ToSet(s) \subseteq ToSet(t),
           \A i, j \in DOMAIN s : s[i] = s[j] => i = j
    PROVE  Embeds(s, t)
<1> DEFINE f == [i \in DOMAIN s |-> CHOOSE k \in DOMAIN t : t[k] = s[i]]
<1>1. \A i \in DOMAIN s : \E k \in DOMAIN t : t[k] = s[i]
    BY DEF ToSet
<1>2. \A i \in DOMAIN s : f[i] \in DOMAIN t /\ t[f[i]] = s[i]
    BY <1>1
<1>3. f \in [DOMAIN s -> DOMAIN t]
    BY <1>2
<1> HIDE DEF f
<1>4. \A i, j \in DOMAIN s : f[i] = f[j] => i = j
    BY <1>2
<1> QED BY <1>2, <1>3, <1>4 DEF Embeds

(* A dictionary is as good as the set of what it holds.                    *)
LEMMA SameAsItsSet ==
    ASSUME NEW dict, IsList(dict), Distinct(dict)
    PROVE  /\ IsList(SetToSeq(ToSet(dict)))
           /\ ToSet(SetToSeq(ToSet(dict))) = ToSet(dict)
           /\ SameDict(dict, SetToSeq(ToSet(dict)))
<1> DEFINE S == ToSet(dict)
           t == SetToSeq(S)
<1>1. IsFiniteSet(S)
    <2>1. Len(dict) \in Nat /\ DOMAIN dict = 1..Len(dict)
        BY ListFacts
    <2>2. IsFiniteSet(DOMAIN dict)
        BY <2>1, FS_Interval
    <2>3. dict \in Surjection(DOMAIN dict, S)
        <3>1. dict \in [DOMAIN dict -> S]
            <4>1. dict = [i \in DOMAIN dict |-> dict[i]]
                BY DEF IsList
            <4>2. \A i \in DOMAIN dict : dict[i] \in S
                BY DEF ToSet
            <4> HIDE DEF S
            <4> QED BY <4>1, <4>2
        <3>2. \A e \in S : \E i \in DOMAIN dict : dict[i] = e
            BY DEF ToSet
        <3> QED BY <3>1, <3>2 DEF Surjection
    <2> HIDE DEF S
    <2> QED BY <2>2, <2>3, FS_Surjection
<1> HIDE DEF S
<1>2. t \in Seq(S) /\ ToSet(t) = S /\ \A i, j \in DOMAIN t : t[i] = t[j] => i = j
    BY <1>1, SetToSeqLists
<1> HIDE DEF t
<1>3. \A i \in DOMAIN t : \E k \in DOMAIN dict : dict[k] = t[i]
    BY <1>2 DEF S, ToSet
<1>4. Distinct(t)
    BY <1>2, <1>3 DEF Distinct
<1>5. \A i, j \in DOMAIN dict : dict[i] = dict[j] => i = j
    BY DEF Distinct
<1>6. Embeds(dict, t) /\ Embeds(t, dict)
    BY <1>2, <1>5, DistinctEmbeds DEF S
<1> QED BY <1>2, <1>4, <1>6, ListOf DEF SameDict, S, t

(* The definitions of F are in the containers, each once.                  *)
Holds(rs, F) ==
    /\ \A kind \in Kinds : Distinct(rs[kind]) /\ ToSet(rs[kind]) = {d \in F : d.kind = kind}
    /\ \A d \in F : d.kind \in Kinds \cup {"hidden"}

LEMMA HoldsSame ==
    ASSUME RootsShaped(roots), Holds(roots, Defined)
    PROVE  SameRoots(roots, Together)
<1>1. ASSUME NEW kind \in Kinds
      PROVE  /\ IsList(Together[kind]) /\ SameDict(roots[kind], Together[kind])
             /\ \A i \in DOMAIN Together[kind] :
                    Together[kind][i].kind = kind /\ Shaped(Together[kind][i])
    <2> DEFINE dict == roots[kind]
               t == Together[kind]
    <2>1. /\ IsList(dict) /\ Distinct(dict)
          /\ ToSet(dict) = {d \in Defined : d.kind = kind}
          /\ \A i \in DOMAIN dict : dict[i].kind = kind /\ Shaped(dict[i])
        BY DEF Holds, RootsShaped
    <2>2. t = SetToSeq({d \in Defined : d.kind = kind})
        BY DEF Together
    <2>3. t = SetToSeq(ToSet(dict))
        BY <2>1, <2>2
    <2> HIDE DEF dict, t
    <2>4. IsList(t) /\ ToSet(t) = ToSet(dict) /\ SameDict(dict, t)
        BY <2>1, <2>3, SameAsItsSet
    <2>5. \A i \in DOMAIN t : \E k \in DOMAIN dict : t[i] = dict[k]
        BY <2>4 DEF ToSet
    <2> QED BY <2>1, <2>4, <2>5 DEF dict, t
<1> QED BY <1>1 DEF SameRoots, RootsShaped

(* Another definition goes to its container; no other has its kind and id. *)
LEMMA AddedOnce ==
    ASSUME NEW rs, DOMAIN rs = Kinds, RootsShaped(rs), NEW F, Holds(rs, F),
           NEW value, value.kind \in Kinds,
           \A d \in F : d.kind = value.kind => d.id # value.id
    PROVE  /\ ~Has(rs[value.kind], value.id)
           /\ Holds([rs EXCEPT ![value.kind] = Assigned(@, value)], F \cup {value})
<1> DEFINE k == value.kind
           dict == rs[k]
           new == Append(dict, value)
           after == [rs EXCEPT ![k] = Assigned(@, value)]
<1>1. k \in Kinds /\ IsList(dict) /\ Distinct(dict) /\ ToSet(dict) = {d \in F : d.kind = k}
    BY DEF Holds, RootsShaped
<1> HIDE DEF dict
<1>2. \A i \in DOMAIN dict : dict[i].id # value.id
    BY <1>1 DEF ToSet
<1>3. ~Has(dict, value.id)
    BY <1>1, <1>2, GetHas
<1>4. Assigned(dict, value) = new
    BY <1>3 DEF Assigned
<1>5. /\ Len(dict) \in Nat /\ DOMAIN dict = 1..Len(dict)
      /\ DOMAIN new = 1..(Len(dict) + 1)
      /\ new[Len(dict) + 1] = value /\ \A i \in 1..Len(dict) : new[i] = dict[i]
    <2>1. dict \in Seq(ToSet(dict) \cup {value})
        BY <1>1 DEF IsList
    <2> QED BY <2>1
<1> HIDE DEF new
<1>6. Distinct(new)
    <2>1. ASSUME NEW i \in DOMAIN new, NEW j \in DOMAIN new, new[i].id = new[j].id
          PROVE  i = j
        <3>1. CASE i \in 1..Len(dict) /\ j \in 1..Len(dict)
            BY <1>1, <1>5, <2>1, <3>1 DEF Distinct
        <3>2. CASE i \in 1..Len(dict) /\ j = Len(dict) + 1
            BY <1>2, <1>5, <2>1, <3>2
        <3>3. CASE j \in 1..Len(dict) /\ i = Len(dict) + 1
            BY <1>2, <1>5, <2>1, <3>3
        <3> QED BY <1>5, <2>1, <3>1, <3>2, <3>3
    <2> QED BY <2>1 DEF Distinct
<1>7. ToSet(new) = ToSet(dict) \cup {value}
    <2>1. \A i \in DOMAIN new : new[i] = value \/ (i \in DOMAIN dict /\ new[i] = dict[i])
        BY <1>5
    <2>2. Len(dict) + 1 \in DOMAIN new /\ \A i \in DOMAIN dict : i \in DOMAIN new
        BY <1>5
    <2>3. ToSet(new) \subseteq ToSet(dict) \cup {value}
        BY <2>1 DEF ToSet
    <2>4. value \in ToSet(new) /\ ToSet(dict) \subseteq ToSet(new)
        BY <1>5, <2>2 DEF ToSet
    <2> QED BY <2>3, <2>4
<1>8. after[k] = new /\ \A kind \in Kinds \ {k} : after[kind] = rs[kind]
    BY <1>1, <1>4 DEF dict
<1> HIDE DEF after
<1>9. ASSUME NEW kind \in Kinds
      PROVE  /\ Distinct(after[kind])
             /\ ToSet(after[kind]) = {d \in F \cup {value} : d.kind = kind}
    <2>1. CASE kind = k
        <3>1. ToSet(new) = {d \in F \cup {value} : d.kind = k}
            BY <1>1, <1>7
        <3> QED BY <1>6, <1>8, <2>1, <3>1
    <2>2. CASE kind # k
        <3>1. after[kind] = rs[kind]
            BY <1>8, <2>2
        <3>2. Distinct(rs[kind]) /\ ToSet(rs[kind]) = {d \in F : d.kind = kind}
            BY DEF Holds
        <3> QED BY <2>2, <3>1, <3>2
    <2> QED BY <2>1, <2>2
<1>10. \A d \in F \cup {value} : d.kind \in Kinds \cup {"hidden"}
    BY DEF Holds
<1>11. Holds(after, F \cup {value})
    BY <1>9, <1>10 DEF Holds
<1> QED BY <1>3, <1>11 DEF dict, after

(* The second invariant.  With nothing defined twice and no anchors kept,  *)
(* as long as nothing went wrong                                           *)
(*   - every file is read or will be, and none of those read is wrong;     *)
(*   - the containers hold what the files that were read define, but for   *)
(*     the elements of the last one that are left.                         *)
Good(f) == content[f].is_list /\ content[f].aliases \subseteq content[f].anchors

ReadFiles == visited \cup ((ToSet(PathList) \cap {Stdin}) \ ToSet(paths))

PathsLeft ==
    (ToSet(paths) \ (DOMAIN Listing \cup {Stdin}))
        \cup (UNION {Listing[d] \cap Yaml : d \in DOMAIN Listing \cap ToSet(paths)})
        \cup listing

ToRead == {Resolve[p] : p \in PathsLeft} \cup (ToSet(paths) \cap {Stdin})

Reads ==
    /\ anchors = {}
    /\ visited \subseteq {Resolve[p] : p \in FilePaths}
    /\ Reached \subseteq ReadFiles \cup ToRead
    /\ \A f \in ReadFiles : Good(f)
    /\ \A i, j \in DOMAIN paths : paths[i] = Stdin /\ paths[j] = Stdin => i = j

AllOf(F) == UNION {ToSet(content[f].items) : f \in F}
FirstOf(f, n) == {content[f].items[i] : i \in {k \in DOMAIN content[f].items : k <= n}}

Filling ==
    \/ items = << >> /\ Holds(roots, AllOf(ReadFiles))
    \/ \E f \in ReadFiles, n \in Nat :
           /\ DOMAIN content[f].items = 1..(n + Len(items))
           /\ \A i \in DOMAIN items : items[i] = content[f].items[n + i]
           /\ Holds(roots, AllOf(ReadFiles \ {f}) \cup FirstOf(f, n))

OrderInv ==
    DefinedOnce /\ ~yamlparser.retain_anchors /\ outcome = "loading" => Reads /\ Filling

LEMMA ReadFilesReached ==
    ASSUME Reads
    PROVE  ReadFiles \subseteq Reached /\ Stdin \notin visited
<1>1. Stdin \notin visited
    BY CommandLine DEF Reads
<1> QED BY <1>1 DEF Reads, ReadFiles, Reached

LEMMA IdleHolds ==
    ASSUME items = << >>, Filling
    PROVE  Holds(roots, AllOf(ReadFiles))
<1>1. SUFFICES ASSUME NEW f \in ReadFiles, NEW n \in Nat,
                      DOMAIN content[f].items = 1..(n + Len(items)),
                      Holds(roots, AllOf(ReadFiles \ {f}) \cup FirstOf(f, n))
               PROVE  Holds(roots, AllOf(ReadFiles))
    BY DEF Filling
<1>2. DOMAIN content[f].items = 1..n
    BY <1>1
<1>3. FirstOf(f, n) = ToSet(content[f].items)
    BY <1>2 DEF FirstOf, ToSet
<1>4. AllOf(ReadFiles \ {f}) \cup ToSet(content[f].items) = AllOf(ReadFiles)
    BY DEF AllOf
<1> QED BY <1>1, <1>3, <1>4

(* A file is read that was not.                                            *)
LEMMA ReadAFile ==
    ASSUME Inv, Reads, Filling, ~yamlparser.retain_anchors, Idle,
           NEW file \in Reached, file \notin ReadFiles, LoadFile(file),
           ReadFiles' = ReadFiles \cup {file},
           UNCHANGED <<yamlparser, content, roots>>
    PROVE  /\ anchors' = {}
           /\ outcome' = "loading" => Good(file) /\ Filling'
           /\ outcome' # "loading" => outcome' # "generated" /\ ~Good(file)
<1>1. anchors' = {}
    BY DEF LoadFile, Reads
<1>2. Good(file) <=> (content[file].aliases \subseteq anchors \cup content[file].anchors
                        /\ content[file].is_list)
    BY DEF Reads, Good
<1>3. ASSUME ~Good(file)
      PROVE  outcome' # "loading" /\ outcome' # "generated"
    BY <1>2, <1>3 DEF LoadFile
<1>4. ASSUME Good(file)
      PROVE  outcome' = "loading" /\ items' = content[file].items
    BY <1>2, <1>4 DEF LoadFile, Idle
<1>5. ASSUME Good(file)
      PROVE  Filling'
    <2> DEFINE data == content[file].items
    <2>1. items' = data /\ IsList(data)
        BY <1>4, <1>5 DEF Inv, WellFormed, Good
    <2>2. Len(data) \in Nat /\ DOMAIN data = 1..Len(data)
        BY <2>1, ListFacts
    <2>3. Holds(roots, AllOf(ReadFiles))
        BY IdleHolds DEF Idle
    <2>4. (ReadFiles \cup {file}) \ {file} = ReadFiles /\ FirstOf(file, 0) = {}
        <3>1. \A k \in DOMAIN data : ~(k <= 0)
            BY <2>2
        <3> QED BY <3>1 DEF FirstOf
    <2>5. Holds(roots, AllOf((ReadFiles \cup {file}) \ {file}) \cup FirstOf(file, 0))
        <3>1. AllOf(ReadFiles) \cup {} = AllOf(ReadFiles)
            OBVIOUS
        <3> QED BY <2>3, <2>4, <3>1
    <2>6. roots' = roots /\ content' = content /\ file \in ReadFiles'
        OBVIOUS
    <2>7. (AllOf(ReadFiles \ {file}) \cup FirstOf(file, 0))'
              = AllOf((ReadFiles \cup {file}) \ {file}) \cup FirstOf(file, 0)
        <3>1. (AllOf(ReadFiles \ {file}))' = UNION {ToSet(content'[f].items) : f \in ReadFiles' \ {file}}
            BY DEF AllOf
        <3>2. (FirstOf(file, 0))' = FirstOf(file, 0)
            BY DEF FirstOf
        <3>3. (AllOf(ReadFiles \ {file}))' = AllOf((ReadFiles \cup {file}) \ {file})
            BY <3>1 DEF AllOf
        <3> QED BY <3>2, <3>3
    <2>8. Holds(roots', (AllOf(ReadFiles \ {file}) \cup FirstOf(file, 0))')
        BY <2>5, <2>6, <2>7
    <2>9. /\ DOMAIN content'[file].items = 1..(0 + Len(items'))
          /\ \A i \in DOMAIN items' : items'[i] = content'[file].items[0 + i]
        BY <2>1, <2>2
    <2> QED BY <2>6, <2>8, <2>9 DEF Filling, Holds
<1> QED BY <1>1, <1>3, <1>4, <1>5

LEMMA HeadAndTail ==
    ASSUME NEW s, IsList(s), s # << >>
    PROVE  /\ ToSet(s) = {Head(s)} \cup ToSet(Tail(s))
           /\ DOMAIN Tail(s) = 1..(Len(s) - 1) /\ Len(s) \in Nat \ {0} /\ DOMAIN s = 1..Len(s)
           /\ Head(s) = s[1] /\ \A i \in DOMAIN Tail(s) : Tail(s)[i] = s[i + 1]
<1> DEFINE X == ToSet(s)
           t == Tail(s)
           n == Len(s)
<1>1. s \in Seq(X)
    BY DEF IsList
<1> HIDE DEF X
<1>2. /\ n \in Nat \ {0} /\ DOMAIN s = 1..n /\ DOMAIN t = 1..(n - 1)
      /\ Head(s) = s[1] /\ \A i \in DOMAIN t : t[i] = s[i + 1]
    BY <1>1
<1>3. ToSet(s) = {Head(s)} \cup ToSet(t)
    <2> HIDE DEF t, n
    <2>1. \A i \in 1..n : i = 1 \/ (i - 1 \in DOMAIN t /\ (i - 1) + 1 = i)
        BY <1>2
    <2>2. 1 \in 1..n /\ \A i \in DOMAIN t : i + 1 \in 1..n
        BY <1>2
    <2>3. \A i \in 1..n : s[i] = Head(s) \/ s[i] = t[i - 1]
        BY <1>2, <2>1
    <2>4. ToSet(s) \subseteq {Head(s)} \cup ToSet(t)
        BY <1>2, <2>1, <2>3 DEF ToSet
    <2>5. Head(s) \in ToSet(s)
        BY <1>2, <2>2 DEF ToSet
    <2>6. ToSet(t) \subseteq ToSet(s)
        BY <1>2, <2>2 DEF ToSet
    <2> QED BY <2>4, <2>5, <2>6
<1> QED BY <1>2, <1>3

LEMMA SameFilling ==
    ASSUME Filling, ReadFiles' = ReadFiles, UNCHANGED <<content, items, roots>>
    PROVE  Filling'
<1>1. \A F : (AllOf(F))' = AllOf(F)
    BY DEF AllOf
<1>2. \A f, n : (FirstOf(f, n))' = FirstOf(f, n)
    BY DEF FirstOf
<1>3. (AllOf(ReadFiles))' = AllOf(ReadFiles)
    BY DEF AllOf
<1>4. \A f : (AllOf(ReadFiles \ {f}))' = AllOf(ReadFiles \ {f})
    BY DEF AllOf
<1>5. CASE items = << >> /\ Holds(roots, AllOf(ReadFiles))
    BY <1>3, <1>5 DEF Filling, Holds
<1>6. ASSUME NEW f \in ReadFiles, NEW n \in Nat,
             DOMAIN content[f].items = 1..(n + Len(items)),
             \A i \in DOMAIN items : items[i] = content[f].items[n + i],
             Holds(roots, AllOf(ReadFiles \ {f}) \cup FirstOf(f, n))
      PROVE  Filling'
    <2>1. f \in ReadFiles' /\ content' = content /\ items' = items /\ roots' = roots
        OBVIOUS
    <2>2. (AllOf(ReadFiles \ {f}) \cup FirstOf(f, n))' = AllOf(ReadFiles \ {f}) \cup FirstOf(f, n)
        BY <1>2, <1>4
    <2>3. Holds(roots', (AllOf(ReadFiles \ {f}) \cup FirstOf(f, n))')
        BY <1>6, <2>1, <2>2
    <2> QED BY <1>6, <2>1, <2>3 DEF Filling, Holds
<1> QED BY <1>5, <1>6 DEF Filling

(* What one step makes of the second invariant, and that it makes no       *)
(* harmless thing fail.                                                    *)
LEMMA VisitKeeps ==
    ASSUME Inv, Reads, Filling, ~yamlparser.retain_anchors, Idle,
           NEW path \in FilePaths, Visit(path),
           UNCHANGED <<yamlparser, content, roots>>,
           (ToSet(PathList) \cap {Stdin}) \ ToSet(paths)
               = ((ToSet(PathList) \cap {Stdin}) \ ToSet(paths))',
           ToRead \subseteq ToRead' \cup {Resolve[path]},
           \A i, j \in DOMAIN paths' : paths'[i] = Stdin /\ paths'[j] = Stdin => i = j
    PROVE  /\ outcome' = "loading" => Reads' /\ Filling'
           /\ outcome' # "loading" => outcome' # "generated" /\ \E f \in Reached : ~Good(f)
<1> DEFINE file == Resolve[path]
<1>1. file \in Reached /\ file # Stdin
    BY CommandLine DEF Reached
<1>2. Reached' = Reached /\ \A f : (Good(f))' = Good(f)
    BY DEF Reached, Good
<1>3. ReadFiles = visited \cup ((ToSet(PathList) \cap {Stdin}) \ ToSet(paths))
      /\ ReadFiles' = visited' \cup ((ToSet(PathList) \cap {Stdin}) \ ToSet(paths))
    BY DEF ReadFiles
<1>4. CASE file \in visited
    <2>1. UNCHANGED <<visited, anchors, items, outcome>>
        BY <1>4 DEF Visit
    <2>2. ReadFiles' = ReadFiles /\ file \in ReadFiles
        BY <1>3, <1>4, <2>1
    <2>3. Filling'
        BY <2>1, <2>2, SameFilling
    <2>4. Reached \subseteq ReadFiles' \cup ToRead'
        BY <2>2 DEF Reads
    <2>5. /\ anchors' = {} /\ visited' \subseteq {Resolve[p] : p \in FilePaths}
          /\ \A f \in ReadFiles' : Good(f)
        BY <2>1, <2>2 DEF Reads
    <2>6. Reads'
        BY <1>2, <2>4, <2>5 DEF Reads
    <2> QED BY <2>1, <2>3, <2>6 DEF Idle
<1>5. CASE file \notin visited
    <2>1. visited' = visited \cup {file} /\ LoadFile(file)
        BY <1>5 DEF Visit
    <2>2. ReadFiles' = ReadFiles \cup {file} /\ file \notin ReadFiles
        BY <1>1, <1>3, <1>5, <2>1
    <2>3. /\ anchors' = {}
          /\ outcome' = "loading" => Good(file) /\ Filling'
          /\ outcome' # "loading" => outcome' # "generated" /\ ~Good(file)
        <3> HIDE DEF file
        <3> QED BY <1>1, <2>1, <2>2, ReadAFile
    <2>4. Reached \subseteq ReadFiles' \cup ToRead'
        BY <2>2 DEF Reads
    <2>5. visited' \subseteq {Resolve[p] : p \in FilePaths}
        BY <2>1 DEF Reads
    <2>6. ASSUME Good(file)
          PROVE  \A f \in ReadFiles' : Good(f)
        BY <2>2, <2>6 DEF Reads
    <2>7. Good(file) => Reads'
        BY <1>2, <2>3, <2>4, <2>5, <2>6 DEF Reads
    <2> QED BY <1>1, <2>3, <2>7
<1> QED BY <1>4, <1>5

LEMMA NextPathKeeps ==
    ASSUME Inv, Reads, Filling, ~yamlparser.retain_anchors, NextPath
    PROVE  /\ outcome' = "loading" => Reads' /\ Filling'
           /\ outcome' # "loading" => outcome' # "generated" /\ \E f \in Reached : ~Good(f)
<1> DEFINE h == Head(paths)
           stdin == ToSet(PathList) \cap {Stdin}
<1>1. /\ Idle /\ listing = {} /\ paths # << >> /\ paths' = Tail(paths)
      /\ UNCHANGED <<yamlparser, content, roots>>
    BY DEF NextPath
<1>2. /\ ToSet(paths) = {h} \cup ToSet(paths')
      /\ DOMAIN paths' = 1..(Len(paths) - 1) /\ Len(paths) \in Nat \ {0} /\ DOMAIN paths = 1..Len(paths)
      /\ h = paths[1] /\ \A i \in DOMAIN paths' : paths'[i] = paths[i + 1]
    <2>1. IsList(paths)
        BY DEF Inv
    <2> QED BY <1>1, <2>1, HeadAndTail
<1> HIDE DEF h
<1>3. /\ \A i, j \in DOMAIN paths' : paths'[i] = Stdin /\ paths'[j] = Stdin => i = j
      /\ h = Stdin => Stdin \notin ToSet(paths')
    <2>1. 1 \in DOMAIN paths /\ \A i \in DOMAIN paths' : i + 1 \in DOMAIN paths /\ i + 1 # 1
        BY <1>2
    <2>2. \A i, j \in DOMAIN paths : paths[i] = Stdin /\ paths[j] = Stdin => i = j
        BY DEF Reads
    <2>3. ASSUME NEW i \in DOMAIN paths', NEW j \in DOMAIN paths', paths'[i] = Stdin, paths'[j] = Stdin
          PROVE  i = j
        <3>1. i + 1 = j + 1
            BY <1>2, <2>1, <2>2, <2>3
        <3>2. i \in Nat /\ j \in Nat
            BY <1>2
        <3> QED BY <3>1, <3>2
    <2>4. ASSUME h = Stdin, Stdin \in ToSet(paths')
          PROVE  FALSE
        <3>1. PICK i \in DOMAIN paths' : paths'[i] = Stdin
            BY <2>4 DEF ToSet
        <3>2. paths[i + 1] = Stdin /\ paths[1] = Stdin
            BY <1>2, <2>4, <3>1
        <3> QED BY <2>1, <2>2, <3>2
    <2> QED BY <2>3, <2>4
<1>4. h \in ToSet(PathList) /\ ToSet(paths) \subseteq ToSet(PathList)
    BY <1>2 DEF Inv
<1>5. Reached' = Reached /\ \A f : (Good(f))' = Good(f)
    BY <1>1 DEF Reached, Good
<1>6. ReadFiles = visited \cup (stdin \ ToSet(paths)) /\ ReadFiles' = visited' \cup (stdin \ ToSet(paths'))
    BY DEF ReadFiles
<1>7. /\ ToRead = {Resolve[p] : p \in PathsLeft} \cup (ToSet(paths) \cap {Stdin})
      /\ ToRead' = {Resolve[p] : p \in PathsLeft'} \cup (ToSet(paths') \cap {Stdin})
    BY DEF ToRead
<1>8. PathsLeft' = (ToSet(paths') \ (DOMAIN Listing \cup {Stdin}))
                     \cup (UNION {Listing[d] \cap Yaml : d \in DOMAIN Listing \cap ToSet(paths')})
                     \cup listing'
    BY DEF PathsLeft
<1>9. CASE h = Stdin
    <2>1. LoadFile(Stdin) /\ listing' = listing /\ visited' = visited
        BY <1>9 DEF NextPath, h
    <2>2. Stdin \in Reached /\ Stdin \notin ReadFiles /\ ReadFiles' = ReadFiles \cup {Stdin}
        <3>1. Stdin \notin visited
            BY ReadFilesReached
        <3>2. Stdin \in ToSet(paths) /\ Stdin \notin ToSet(paths') /\ Stdin \in ToSet(PathList)
            BY <1>2, <1>3, <1>4, <1>9
        <3>3. stdin \ ToSet(paths) = {} /\ stdin \ ToSet(paths') = {Stdin}
            BY <3>2
        <3>4. Stdin \in Reached
            BY <3>2 DEF Reached
        <3> QED BY <1>6, <2>1, <3>1, <3>3, <3>4
    <2>3. /\ anchors' = {}
          /\ outcome' = "loading" => Good(Stdin) /\ Filling'
          /\ outcome' # "loading" => outcome' # "generated" /\ ~Good(Stdin)
        BY <1>1, <2>1, <2>2, ReadAFile
    <2>4. PathsLeft \subseteq PathsLeft'
        <3>1. DOMAIN Listing \cap ToSet(paths) \subseteq DOMAIN Listing \cap ToSet(paths')
            BY <1>2, <1>9, CommandLine
        <3>2. ToSet(paths) \ (DOMAIN Listing \cup {Stdin}) \subseteq ToSet(paths') \ (DOMAIN Listing \cup {Stdin})
            BY <1>2, <1>9
        <3> QED BY <1>8, <2>1, <3>1, <3>2 DEF PathsLeft
    <2>5. Reached \subseteq ReadFiles' \cup ToRead'
        <3>1. Reached \subseteq ReadFiles \cup ToRead
            BY DEF Reads
        <3>2. ToRead \subseteq ToRead' \cup {Stdin}
            BY <1>7, <2>4
        <3> QED BY <2>2, <3>1, <3>2
    <2>6. visited' \subseteq {Resolve[p] : p \in FilePaths}
        BY <2>1 DEF Reads
    <2>7. Good(Stdin) => \A f \in ReadFiles' : Good(f)
        BY <2>2 DEF Reads
    <2>8. Good(Stdin) => Reads'
        BY <1>3, <1>5, <2>3, <2>5, <2>6, <2>7 DEF Reads
    <2> QED BY <2>2, <2>3, <2>8
<1>10. ASSUME h # Stdin
       PROVE  stdin \ ToSet(paths) = stdin \ ToSet(paths') /\ ToSet(paths) \cap {Stdin} = ToSet(paths') \cap {Stdin}
    BY <1>2, <1>10
<1>11. CASE h # Stdin /\ h \in DOMAIN Listing
    <2>1. listing' = Listing[h] \cap Yaml /\ UNCHANGED <<visited, anchors, items, outcome>>
        BY <1>11 DEF NextPath, h
    <2>2. ReadFiles' = ReadFiles
        BY <1>6, <1>10, <1>11, <2>1
    <2>3. PathsLeft \subseteq PathsLeft'
        <3>1. (UNION {Listing[d] \cap Yaml : d \in DOMAIN Listing \cap ToSet(paths)})
                \subseteq (UNION {Listing[d] \cap Yaml : d \in DOMAIN Listing \cap ToSet(paths')}) \cup listing'
            BY <1>2, <2>1
        <3>2. ToSet(paths) \ (DOMAIN Listing \cup {Stdin}) \subseteq ToSet(paths') \ (DOMAIN Listing \cup {Stdin})
            BY <1>2, <1>11
        <3> QED BY <1>1, <1>8, <3>1, <3>2 DEF PathsLeft
    <2>4. ToRead \subseteq ToRead'
        BY <1>7, <1>10, <1>11, <2>3
    <2>5. Reached \subseteq ReadFiles' \cup ToRead'
        BY <2>2, <2>4 DEF Reads
    <2>6. /\ anchors' = {} /\ visited' \subseteq {Resolve[p] : p \in FilePaths}
          /\ \A f \in ReadFiles' : Good(f)
        BY <2>1, <2>2 DEF Reads
    <2>7. Reads'
        BY <1>3, <1>5, <2>5, <2>6 DEF Reads
    <2>8. Filling'
        BY <1>1, <2>1, <2>2, SameFilling
    <2> QED BY <1>1, <2>1, <2>7, <2>8 DEF Idle
<1>12. CASE h # Stdin /\ h \notin DOMAIN Listing
    <2>1. Visit(h) /\ listing' = listing
        BY <1>12 DEF NextPath, h
    <2>2. h \in FilePaths
        BY <1>4, <1>12 DEF FilePaths
    <2>3. PathsLeft \subseteq PathsLeft' \cup {h}
        <3>1. DOMAIN Listing \cap ToSet(paths) \subseteq DOMAIN Listing \cap ToSet(paths')
            BY <1>2, <1>12
        <3>2. ToSet(paths) \ (DOMAIN Listing \cup {Stdin})
                  \subseteq (ToSet(paths') \ (DOMAIN Listing \cup {Stdin})) \cup {h}
            BY <1>2
        <3> QED BY <1>8, <2>1, <3>1, <3>2 DEF PathsLeft
    <2>4. ToRead \subseteq ToRead' \cup {Resolve[h]}
        BY <1>7, <1>10, <1>12, <2>3
    <2>5. (stdin \ ToSet(paths))' = stdin \ ToSet(paths)
        BY <1>10, <1>12
    <2> QED BY <1>1, <1>3, <2>1, <2>2, <2>4, <2>5, VisitKeeps
<1> QED BY <1>9, <1>11, <1>12

LEMMA NextOfDirectoryKeeps ==
    ASSUME Inv, Reads, Filling, ~yamlparser.retain_anchors,
           NEW path \in listing, NextOfDirectory(path)
    PROVE  /\ outcome' = "loading" => Reads' /\ Filling'
           /\ outcome' # "loading" => outcome' # "generated" /\ \E f \in Reached : ~Good(f)
<1>1. /\ Idle /\ listing' = listing \ {path} /\ Visit(path)
      /\ UNCHANGED <<yamlparser, content, paths, roots>>
    BY DEF NextOfDirectory
<1>2. path \in FilePaths
    BY DEF Inv, Entries, FilePaths
<1>3. PathsLeft \subseteq PathsLeft' \cup {path}
    BY <1>1 DEF PathsLeft
<1>4. ToRead \subseteq ToRead' \cup {Resolve[path]}
    BY <1>1, <1>3 DEF ToRead
<1>5. \A i, j \in DOMAIN paths' : paths'[i] = Stdin /\ paths'[j] = Stdin => i = j
    BY <1>1 DEF Reads
<1>6. (ToSet(PathList) \cap {Stdin}) \ ToSet(paths) = ((ToSet(PathList) \cap {Stdin}) \ ToSet(paths))'
    BY <1>1
<1> QED BY <1>1, <1>2, <1>4, <1>5, <1>6, VisitKeeps

LEMMA AddItemKeeps ==
    ASSUME Inv, Reads, Filling, DefinedOnce, ~yamlparser.retain_anchors, AddItem
    PROVE  /\ outcome' = "loading" => Reads' /\ Filling'
           /\ outcome' # "loading" =>
                  /\ outcome' # "generated"
                  /\ \E f \in Reached : \E i \in DOMAIN content[f].items :
                         content[f].items[i].kind \notin Kinds \cup {"hidden"}
<1> DEFINE item == Head(items)
<1>1. /\ outcome = "loading" /\ items # << >> /\ items' = Tail(items)
      /\ UNCHANGED <<yamlparser, content, paths, listing, visited, anchors>>
    BY DEF AddItem
<1>2. /\ DOMAIN items' = 1..(Len(items) - 1) /\ Len(items) \in Nat \ {0} /\ DOMAIN items = 1..Len(items)
      /\ item = items[1] /\ \A i \in DOMAIN items' : items'[i] = items[i + 1]
      /\ Len(items') = Len(items) - 1
    <2>1. IsList(items)
        BY DEF Inv
    <2>2. Len(Tail(items)) = Len(items) - 1
        BY <1>1, <2>1 DEF IsList
    <2> QED BY <1>1, <2>1, <2>2, HeadAndTail
<1>3. Reads'
    BY <1>1 DEF Reads, ReadFiles, ToRead, PathsLeft, Good, Reached
<1>4. PICK f \in ReadFiles, n \in Nat :
          /\ DOMAIN content[f].items = 1..(n + Len(items))
          /\ \A i \in DOMAIN items : items[i] = content[f].items[n + i]
          /\ Holds(roots, AllOf(ReadFiles \ {f}) \cup FirstOf(f, n))
    BY <1>1 DEF Filling
<1> DEFINE F == AllOf(ReadFiles \ {f}) \cup FirstOf(f, n)
<1>5. n + 1 \in DOMAIN content[f].items /\ item = content[f].items[n + 1] /\ f \in Reached
    <2>1. 1 \in DOMAIN items
        BY <1>2
    <2>2. n + 1 \in 1..(n + Len(items))
        BY <1>2
    <2> QED BY <1>2, <1>4, <2>1, <2>2, ReadFilesReached
<1> HIDE DEF item
<1>6. FirstOf(f, n + 1) = FirstOf(f, n) \cup {item}
    <2> DEFINE D == DOMAIN content[f].items
    <2>1. \A k \in D : k <= n + 1 <=> (k <= n \/ k = n + 1)
        BY <1>2, <1>4
    <2>2. {k \in D : k <= n + 1} = {k \in D : k <= n} \cup {n + 1}
        BY <1>5, <2>1
    <2> QED BY <1>5, <2>2 DEF FirstOf
<1>7. ASSUME Holds(roots', F \cup {item})
      PROVE  Filling'
    <2>1. DOMAIN content'[f].items = 1..((n + 1) + Len(items'))
        BY <1>1, <1>2, <1>4
    <2>2. ASSUME NEW i \in DOMAIN items'
          PROVE  items'[i] = content'[f].items[(n + 1) + i]
        <3>1. i + 1 \in DOMAIN items /\ n + (i + 1) = (n + 1) + i
            BY <1>2
        <3>2. items'[i] = content[f].items[n + (i + 1)]
            BY <1>2, <1>4, <3>1
        <3> QED BY <1>1, <3>1, <3>2
    <2>3. f \in ReadFiles' /\ n + 1 \in Nat
        BY <1>1 DEF ReadFiles
    <2>4. (AllOf(ReadFiles \ {f}) \cup FirstOf(f, n + 1))' = AllOf(ReadFiles \ {f}) \cup FirstOf(f, n + 1)
        BY <1>1 DEF AllOf, FirstOf, ReadFiles
    <2>5. AllOf(ReadFiles \ {f}) \cup FirstOf(f, n + 1) = F \cup {item}
        BY <1>6
    <2>6. Holds(roots', (AllOf(ReadFiles \ {f}) \cup FirstOf(f, n + 1))')
        BY <1>7, <2>4, <2>5
    <2> QED BY <2>1, <2>2, <2>3, <2>6 DEF Filling, Holds
<1>8. ASSUME item.kind \in Kinds, NEW d \in F, d.kind = item.kind, d.id = item.id
      PROVE  FALSE
    <2>1. \A g \in Reached : \A j \in DOMAIN content[g].items :
              LET a == content[f].items[n + 1]
                  b == content[g].items[j]
              IN  a.kind \in Kinds /\ a.kind = b.kind /\ a.id = b.id => f = g /\ n + 1 = j
        BY <1>5 DEF DefinedOnce
    <2>2. CASE d \in AllOf(ReadFiles \ {f})
        <3>1. PICK g \in ReadFiles \ {f} : \E j \in DOMAIN content[g].items : d = content[g].items[j]
            BY <2>2 DEF AllOf, ToSet
        <3>2. g \in Reached
            BY ReadFilesReached
        <3> QED BY <1>5, <1>8, <2>1, <3>1, <3>2
    <2>3. CASE d \in FirstOf(f, n)
        <3>1. PICK j \in DOMAIN content[f].items : j <= n /\ d = content[f].items[j]
            BY <2>3 DEF FirstOf
        <3>2. n + 1 = j
            BY <1>5, <1>8, <2>1, <3>1
        <3> QED BY <3>1, <3>2
    <2> QED BY <1>8, <2>2, <2>3
<1> HIDE DEF F
<1>9. Holds(roots, F)
    BY <1>4 DEF F
<1>10. CASE item.kind = "hidden"
    <2>1. roots' = roots /\ outcome' = outcome
        BY <1>10 DEF AddItem, item
    <2>2. "hidden" \notin Kinds
        BY DEF Kinds
    <2>3. \A kind \in Kinds : {d \in F \cup {item} : d.kind = kind} = {d \in F : d.kind = kind}
        BY <1>10, <2>2
    <2>4. Holds(roots, F \cup {item})
        BY <1>9, <1>10, <2>3 DEF Holds
    <2> QED BY <1>1, <1>3, <1>7, <2>1, <2>4
<1>11. CASE item.kind \notin Kinds \cup {"hidden"}
    <2>1. outcome' = "unknown element"
        BY <1>11 DEF AddItem, item
    <2> QED BY <1>5, <1>11, <2>1
<1>12. CASE item.kind \in Kinds
    <2>1. /\ ~Has(roots[item.kind], item.id)
          /\ Holds([roots EXCEPT ![item.kind] = Assigned(@, item)], F \cup {item})
        <3>1. \A d \in F : d.kind = item.kind => d.id # item.id
            BY <1>8, <1>12
        <3>2. DOMAIN roots = Kinds /\ RootsShaped(roots)
            BY DEF Inv
        <3> QED BY <1>9, <1>12, <3>1, <3>2, AddedOnce
    <2>2. item.kind # "hidden"
        BY <1>12 DEF Kinds
    <2>3. roots' = [roots EXCEPT ![item.kind] = Assigned(@, item)] /\ outcome' = outcome
        BY <1>12, <2>1, <2>2 DEF AddItem, item
    <2>4. Holds(roots', F \cup {item})
        BY <2>1, <2>3
    <2> QED BY <1>1, <1>3, <1>7, <2>3, <2>4
<1> QED BY <1>10, <1>11, <1>12

(* When nothing is left to read, what is generated comes from containers   *)
(* that hold what all the files define.                                    *)
LEMMA GenerateKeeps ==
    ASSUME Inv, Reads, Filling, Generate
    PROVE  OrderIsIrrelevant'
<1> DEFINE keep == yamlparser.keep_descriptions
           list == [what \in {"job", "view"} |-> GeneratedList(roots, what, keep)]
           whole(what) == GeneratedList(Together, what, keep)
           sound == \A f \in Reached :
                        /\ content[f].is_list
                        /\ content[f].aliases \subseteq content[f].anchors
                        /\ \A i \in DOMAIN content[f].items :
                               content[f].items[i].kind \in Kinds \cup {"hidden"}
           works == \A what \in {"job", "view"} :
                        /\ ~Fails(whole(what))
                        /\ yamlparser.allow_duplicates \/ ~HasDuplicates(whole(what))
<1>1. /\ Idle /\ listing = {} /\ paths = << >>
      /\ UNCHANGED <<yamlparser, content>>
    BY DEF Generate
<1>2. ReadFiles = Reached
    <2>1. ToSet(paths) = {}
        BY <1>1 DEF ToSet
    <2>2. ToRead = {}
        BY <1>1, <2>1 DEF ToRead, PathsLeft
    <2> QED BY <2>2, ReadFilesReached DEF Reads
<1>3. Holds(roots, Defined)
    BY <1>1, <1>2, IdleHolds DEF Idle, AllOf, Defined
<1>4. sound
    <2>1. ASSUME NEW f \in Reached, NEW i \in DOMAIN content[f].items
          PROVE  content[f].items[i].kind \in Kinds \cup {"hidden"}
        <3>1. content[f].items[i] \in Defined
            BY DEF Defined, ToSet
        <3> QED BY <1>3, <3>1 DEF Holds
    <2> QED BY <1>2, <2>1 DEF Reads, Good
<1>5. SameRoots(roots, Together)
    BY <1>3, HoldsSame DEF Inv
<1>6. ASSUME NEW what \in {"job", "view"}
      PROVE  /\ Fails(list[what]) = Fails(whole(what))
             /\ HasDuplicates(list[what]) = HasDuplicates(whole(what))
             /\ ToSet(list[what]) = ToSet(whole(what))
             /\ IsList(list[what])
    BY <1>5, SameGenerated, GeneratedIsList DEF Inv
<1>7. /\ IF \E what \in DOMAIN list : Fails(list[what])
         THEN outcome' = "cannot generate" /\ UNCHANGED <<jobs, views>>
         ELSE IF /\ ~yamlparser.allow_duplicates
                 /\ \E what \in DOMAIN list : HasDuplicates(list[what])
         THEN outcome' = "duplicate" /\ UNCHANGED <<jobs, views>>
         ELSE /\ jobs' = RemoveDuplicates(list["job"])
              /\ views' = RemoveDuplicates(list["view"])
              /\ outcome' = "generated"
    BY DEF Generate
<1>8. DOMAIN list = {"job", "view"}
    OBVIOUS
<1>9. OrderIsIrrelevant' <=>
          LET whole2(what) == GeneratedList(Together', what, yamlparser'.keep_descriptions) IN
          (outcome' # "loading" /\ DefinedOnce' /\ ~yamlparser'.retain_anchors) =>
            /\ (outcome' = "generated") <=> (sound' /\ works')
            /\ (outcome' = "generated" /\ \A what \in {"job", "view"} : ~HasDuplicates(whole2(what))) =>
                   /\ ToSet(jobs') = ToSet(whole2("job"))
                   /\ ToSet(views') = ToSet(whole2("view"))
    BY DEF OrderIsIrrelevant
<1>10. Together' = Together /\ sound' = sound
    BY <1>1 DEF Together, Defined
<1>11. works' = works
    BY <1>1, <1>10
<1> HIDE DEF list, whole, sound, works
<1>12. (outcome' = "generated") <=> works
    BY <1>6, <1>7, <1>8 DEF works
<1>13. ASSUME outcome' = "generated", \A what \in {"job", "view"} : ~HasDuplicates(whole(what))
       PROVE  ToSet(jobs') = ToSet(whole("job")) /\ ToSet(views') = ToSet(whole("view"))
    <2>1. \A what \in {"job", "view"} : RemoveDuplicates(list[what]) = list[what]
        BY <1>6, <1>13, NothingToRemove DEF IsList
    <2>2. jobs' = list["job"] /\ views' = list["view"]
        BY <1>7, <1>13, <2>1
    <2> QED BY <1>6, <2>2
<1>14. \A what : GeneratedList(Together', what, yamlparser'.keep_descriptions) = whole(what)
    BY <1>1, <1>10 DEF whole
<1> QED BY <1>4, <1>9, <1>10, <1>11, <1>12, <1>13, <1>14

LEMMA InitOrder == WellFormed /\ Init => OrderInv
<1> SUFFICES ASSUME WellFormed, Init
             PROVE  Reads /\ Filling
    BY DEF OrderInv
<1>1. ReadFiles = {}
    BY DEF Init, ReadFiles
<1>2. ToRead = Reached
    BY DEF Init, ToRead, PathsLeft, Reached, FilePaths
<1>3. Reads
    <2>1. /\ anchors = {} /\ visited = {}
          /\ \A i, j \in DOMAIN paths : paths[i] = Stdin /\ paths[j] = Stdin => i = j
        BY CommandLine DEF Init
    <2> QED BY <1>1, <1>2, <2>1 DEF Reads
<1>4. AllOf(ReadFiles) = {}
    BY <1>1 DEF AllOf
<1>5. ASSUME NEW kind \in Kinds
      PROVE  Distinct(roots[kind]) /\ ToSet(roots[kind]) = {}
    <2>1. roots[kind] = << >> /\ DOMAIN << >> = {}
        BY DEF Init, NoRoots
    <2> QED BY <2>1 DEF Distinct, ToSet
<1>6. Holds(roots, AllOf(ReadFiles))
    BY <1>4, <1>5 DEF Holds
<1> QED BY <1>3, <1>6 DEF Filling, Init

(* A file that no order of reading makes good.                             *)
SomeFileIsWrong ==
    \E f \in Reached :
        \/ ~Good(f)
        \/ \E i \in DOMAIN content[f].items : content[f].items[i].kind \notin Kinds \cup {"hidden"}

(* In every state of every run, with nothing defined twice and no anchors  *)
(* kept: whether the jobs and views are generated, and which, is what the  *)
(* set of all definitions says, in which no file, path or order is left.   *)
(* So a template, a group or defaults may come after what uses them, in    *)
(* whatever file and whatever order a directory gives the files           *)
(* (loader.py:86-118, root_base.py:56-71, 241-251).                        *)
THEOREM OrderDoesNotMatter == Spec => []OrderIsIrrelevant
<1>1. WellFormed /\ Init => Inv /\ OrderInv /\ OrderIsIrrelevant
    BY InitInv, InitOrder DEF Init, OrderIsIrrelevant
<1>2. Inv /\ OrderInv /\ OrderIsIrrelevant /\ [Next]_vars => Inv' /\ OrderInv' /\ OrderIsIrrelevant'
    <2> SUFFICES ASSUME Inv, OrderInv, OrderIsIrrelevant, [Next]_vars
                 PROVE  OrderInv' /\ OrderIsIrrelevant'
        BY NextInv
    <2>1. /\ content' = content /\ yamlparser' = yamlparser
          /\ DefinedOnce' = DefinedOnce /\ Together' = Together
        <3>1. content' = content /\ yamlparser' = yamlparser
            BY DEF Next, NextPath, NextOfDirectory, AddItem, Generate, vars
        <3> QED BY <3>1 DEF DefinedOnce, Together, Defined
    <2>2. SUFFICES ASSUME DefinedOnce, ~yamlparser.retain_anchors
                   PROVE  OrderInv' /\ OrderIsIrrelevant'
        <3>1. ~(DefinedOnce /\ ~yamlparser.retain_anchors) =>
                  OrderInv' /\ OrderIsIrrelevant'
            BY <2>1 DEF OrderInv, OrderIsIrrelevant
        <3> QED BY <2>2, <3>1
    <2>3. CASE outcome # "loading" \/ UNCHANGED vars
        <3>1. UNCHANGED <<jobs, views, outcome>> /\ (outcome # "loading" \/ UNCHANGED vars)
            BY <2>3 DEF Next, NextPath, NextOfDirectory, AddItem, Generate, Idle, vars
        <3>2. OrderIsIrrelevant'
            BY <2>1, <3>1 DEF OrderIsIrrelevant
        <3>3. OrderInv'
            <4>1. CASE outcome # "loading"
                BY <3>1, <4>1 DEF OrderInv
            <4>2. CASE outcome = "loading" /\ UNCHANGED vars
                <5>1. Reads /\ Filling
                    BY <2>2, <4>2 DEF OrderInv
                <5>2. Reads'
                    BY <4>2, <5>1 DEF Reads, ReadFiles, ToRead, PathsLeft, Good, vars
                <5>3. ReadFiles' = ReadFiles /\ UNCHANGED <<content, items, roots>>
                    BY <4>2 DEF ReadFiles, vars
                <5>4. Filling'
                    BY <5>1, <5>3, SameFilling
                <5> QED BY <5>2, <5>4 DEF OrderInv
            <4> QED BY <3>1, <4>1, <4>2
        <3> QED BY <3>2, <3>3
    <2>4. CASE outcome = "loading" /\ Next
        <3>1. Reads /\ Filling
            BY <2>2, <2>4 DEF OrderInv
        <3>2. CASE Generate
            <4>1. outcome' # "loading"
                BY <3>2 DEF Generate
            <4> QED BY <3>1, <3>2, <4>1, GenerateKeeps DEF OrderInv
        <3>3. ASSUME outcome' = "loading" => Reads' /\ Filling',
                     outcome' # "loading" => outcome' # "generated" /\ SomeFileIsWrong
              PROVE  OrderInv' /\ OrderIsIrrelevant'
            <4>1. OrderInv'
                BY <3>3 DEF OrderInv
            <4>2. OrderIsIrrelevant'
                BY <2>1, <3>3 DEF OrderIsIrrelevant, SomeFileIsWrong, Good, Reached
            <4> QED BY <4>1, <4>2
        <3>4. CASE NextPath
            BY <2>2, <3>1, <3>3, <3>4, NextPathKeeps DEF SomeFileIsWrong
        <3>5. ASSUME NEW path \in listing, NextOfDirectory(path)
              PROVE  OrderInv' /\ OrderIsIrrelevant'
            BY <2>2, <3>1, <3>3, <3>5, NextOfDirectoryKeeps DEF SomeFileIsWrong
        <3>6. CASE AddItem
            BY <2>2, <3>1, <3>3, <3>6, AddItemKeeps DEF SomeFileIsWrong
        <3> QED BY <2>4, <3>2, <3>4, <3>5, <3>6 DEF Next
    <2> QED BY <2>3, <2>4
<1> QED BY <1>1, <1>2, PTL DEF Spec
-----------------------------------------------------------------------------
(* Where the parameters of an item come from.  First the points: ps is     *)
(* what those of at, one for each place of a name that has an axis with    *)
(* values, say together.                                                   *)
Says(axes, at, ps) ==
    /\ \A p \in DOMAIN ps : IF Said(axes, at, p) # {} THEN ps[p] \in Said(axes, at, p)
                            ELSE ps[p] \in Own(axes, at, p)
    /\ \A p : p \notin DOMAIN ps => Said(axes, at, p) = {} /\ Own(axes, at, p) = {}

StandsAt(axes, values, at) ==
    LET places == {i \in DOMAIN axes : values[i] # {}}
    IN  /\ at \in [places -> UNION {values[i] : i \in places}]
        /\ \A i \in places : at[i] \in values[i]

AxisPoint(axis, pt) == [axis |-> axis, params |-> Merge(Param(axis, Scalar(pt.is)), pt.also)]

LEMMA AxisPointSays ==
    ASSUME NEW axis, NEW pt, NEW p
    PROVE  LET params == AxisPoint(axis, pt).params IN
           /\ axis # p => /\ p \in DOMAIN params <=> p \in DOMAIN pt.also
                          /\ p \in DOMAIN pt.also => params[p] = pt.also[p]
           /\ axis = p => /\ p \in DOMAIN params
                          /\ params[p] = IF p \in DOMAIN pt.also THEN pt.also[p] ELSE Scalar(pt.is)
BY DEF AxisPoint, Merge, Param

LEMMA PointSays ==
    ASSUME NEW n \in Nat, NEW point, DOMAIN point = 1..n, NEW axes, NEW at, NEW pos,
           \A i \in DOMAIN at : pos[i] \in 1..n /\ point[pos[i]] = AxisPoint(axes[i], at[i]),
           \A k \in 1..n : \E i \in DOMAIN at : pos[i] = k
    PROVE  Says(axes, at, PointParams(point))
<1> DEFINE overrides(dim) == Restrict(dim.params, DOMAIN dim.params \ {dim.axis})
           all == [i \in DOMAIN point |-> point[i].params]
           over == [i \in DOMAIN point |-> overrides(point[i])]
           ps == PointParams(point)
           own(p, i) == IF p \in DOMAIN at[i].also THEN at[i].also[p] ELSE Scalar(at[i].is)
<1>1. ps = Merge(MergeAll(all), MergeAll(over))
    BY DEF PointParams
<1>2. DOMAIN all = 1..n /\ DOMAIN over = 1..n
    OBVIOUS
<1>3. ASSUME NEW p, NEW k \in 1..n
      PROVE  /\ p \in DOMAIN over[k] <=> p \in DOMAIN point[k].params /\ p # point[k].axis
             /\ p \in DOMAIN over[k] => over[k][p] = point[k].params[p]
             /\ all[k] = point[k].params
    BY DEF Restrict
<1> HIDE DEF all, over, ps
<1>4. ASSUME NEW p, NEW i \in DOMAIN at
      PROVE  /\ axes[i] # p => /\ p \in DOMAIN over[pos[i]] <=> p \in DOMAIN at[i].also
                               /\ p \in DOMAIN all[pos[i]] <=> p \in DOMAIN at[i].also
                               /\ p \in DOMAIN at[i].also => over[pos[i]][p] = at[i].also[p]
             /\ axes[i] = p => /\ p \notin DOMAIN over[pos[i]]
                               /\ p \in DOMAIN all[pos[i]] /\ all[pos[i]][p] = own(p, i)
    <2> DEFINE k == pos[i]
               dim == point[k]
    <2>1. k \in 1..n /\ dim = AxisPoint(axes[i], at[i]) /\ dim.axis = axes[i]
        BY DEF AxisPoint
    <2> HIDE DEF k
    <2>2. /\ axes[i] # p => /\ p \in DOMAIN dim.params <=> p \in DOMAIN at[i].also
                            /\ p \in DOMAIN at[i].also => dim.params[p] = at[i].also[p]
          /\ axes[i] = p => p \in DOMAIN dim.params /\ dim.params[p] = own(p, i)
        BY <2>1, AxisPointSays
    <2>3. /\ p \in DOMAIN over[k] <=> p \in DOMAIN dim.params /\ p # dim.axis
          /\ p \in DOMAIN over[k] => over[k][p] = dim.params[p]
          /\ all[k] = dim.params
        BY <1>3, <2>1
    <2> HIDE DEF dim, own
    <2> QED BY <2>1, <2>2, <2>3 DEF k
<1>5. ASSUME NEW p
      PROVE  /\ p \in DOMAIN ps => IF Said(axes, at, p) # {} THEN ps[p] \in Said(axes, at, p)
                                   ELSE ps[p] \in Own(axes, at, p)
             /\ p \notin DOMAIN ps => Said(axes, at, p) = {} /\ Own(axes, at, p) = {}
    <2>1. /\ p \in DOMAIN MergeAll(over) <=> \E k \in 1..n : p \in DOMAIN over[k]
          /\ p \in DOMAIN MergeAll(over) =>
                 \E k \in 1..n : p \in DOMAIN over[k] /\ MergeAll(over)[p] = over[k][p]
        BY <1>2, MergeAllOf
    <2>2. /\ p \in DOMAIN MergeAll(all) <=> \E k \in 1..n : p \in DOMAIN all[k]
          /\ p \in DOMAIN MergeAll(all) =>
                 \E k \in 1..n : p \in DOMAIN all[k] /\ MergeAll(all)[p] = all[k][p]
        BY <1>2, MergeAllOf
    <2>3. /\ DOMAIN ps = DOMAIN MergeAll(all) \cup DOMAIN MergeAll(over)
          /\ p \in DOMAIN MergeAll(over) => ps[p] = MergeAll(over)[p]
          /\ p \in DOMAIN MergeAll(all) /\ p \notin DOMAIN MergeAll(over) => ps[p] = MergeAll(all)[p]
        BY <1>1 DEF Merge
    <2>4. p \in DOMAIN MergeAll(over) <=> Said(axes, at, p) # {}
        BY <1>4, <2>1 DEF Said
    <2>5. CASE p \in DOMAIN MergeAll(over)
        <3>1. PICK k \in 1..n : p \in DOMAIN over[k] /\ MergeAll(over)[p] = over[k][p]
            BY <2>1, <2>5
        <3>2. PICK i \in DOMAIN at : pos[i] = k
            OBVIOUS
        <3>3. axes[i] # p /\ p \in DOMAIN at[i].also /\ over[k][p] = at[i].also[p]
            BY <1>4, <3>1, <3>2
        <3>4. ps[p] \in Said(axes, at, p)
            BY <2>3, <2>5, <3>1, <3>3 DEF Said
        <3> QED BY <2>3, <2>4, <2>5, <3>4
    <2>6. CASE p \notin DOMAIN MergeAll(over) /\ p \in DOMAIN MergeAll(all)
        <3>1. PICK k \in 1..n : p \in DOMAIN all[k] /\ MergeAll(all)[p] = all[k][p]
            BY <2>2, <2>6
        <3>2. PICK i \in DOMAIN at : pos[i] = k
            OBVIOUS
        <3>3. axes[i] = p
            BY <1>4, <2>1, <2>6, <3>1, <3>2
        <3>4. ps[p] = own(p, i)
            BY <1>4, <2>3, <2>6, <3>1, <3>2, <3>3
        <3>5. ps[p] \in Own(axes, at, p)
            BY <3>3, <3>4 DEF Own
        <3> QED BY <2>3, <2>4, <2>6, <3>5
    <2>7. CASE p \notin DOMAIN MergeAll(over) /\ p \notin DOMAIN MergeAll(all)
        <3>1. \A i \in DOMAIN at : axes[i] # p
            BY <1>4, <2>2, <2>7
        <3>2. Own(axes, at, p) = {}
            BY <3>1 DEF Own
        <3> QED BY <2>3, <2>4, <2>7, <3>2
    <2> QED BY <2>5, <2>6, <2>7
<1> QED BY <1>5 DEF Says, ps

(* The value that the parameters, or else the defaults of the axes in the  *)
(* name, give an axis; none is an empty list.                              *)
ValueOf(params, defaults, a) ==
    IF a \in DOMAIN params THEN params[a]
    ELSE IF a \in DOMAIN defaults THEN defaults[a] ELSE << >>

LEMMA EnumSays ==
    ASSUME NEW axes, IsList(axes), NEW params, Values(params), NEW defaults, Values(defaults),
           NEW q \in DOMAIN enum_dimensions_params(axes, params, defaults),
           NEW values, \A i \in DOMAIN axes : values[i] = ToSet(ValueOf(params, defaults, axes[i]))
    PROVE  \E at : /\ StandsAt(axes, values, at)
                   /\ Says(axes, at, enum_dimensions_params(axes, params, defaults)[q])
<1> DEFINE valued(a) == a \in DOMAIN params \cup DOMAIN defaults
           value(a) == IF a \in DOMAIN params THEN params[a] ELSE defaults[a]
           chosen == [i \in DOMAIN axes |-> IF valued(axes[i]) THEN <<axes[i]>> ELSE << >>]
           known == FlattenSeq(chosen)
           A == ToSet(axes) \cap (DOMAIN params \cup DOMAIN defaults)
           dims == [i \in DOMAIN known |-> AxisPoints(known[i], value(known[i]))]
           points == Product(dims)
           places == {i \in DOMAIN axes : values[i] # {}}
<1>1. DOMAIN axes = 1..Len(axes) /\ Len(axes) \in Nat
    BY ListFacts
<1>2. chosen \in Seq(Seq(A))
    <2>1. ASSUME NEW i \in 1..Len(axes)
          PROVE  (IF valued(axes[i]) THEN <<axes[i]>> ELSE << >>) \in Seq(A)
        <3>1. valued(axes[i]) => axes[i] \in A
            BY <1>1 DEF ToSet
        <3> HIDE DEF A, valued
        <3> QED BY <3>1
    <2> HIDE DEF A, valued
    <2> QED BY <1>1, <2>1
<1>3. known \in Seq(A)
    <2> HIDE DEF A, chosen
    <2> QED BY <1>2, FlattenType
<1>4. DOMAIN known = 1..Len(known) /\ Len(known) \in Nat /\ \A i \in DOMAIN known : known[i] \in A
    <2> HIDE DEF A, known
    <2> QED BY <1>3
<1>5. \A a \in A : IsList(value(a)) /\ valued(a) /\ ToSet(value(a)) = ToSet(ValueOf(params, defaults, a))
    BY DEF Values, ValueOf
<1>6. ASSUME NEW a, NEW v, IsList(v)
      PROVE  /\ IsList(AxisPoints(a, v))
             /\ \A e \in ToSet(AxisPoints(a, v)) : \E pt \in ToSet(v) : e = AxisPoint(a, pt)
    <2>1. DOMAIN v = 1..Len(v) /\ Len(v) \in Nat
        BY <1>6, ListFacts
    <2>2. IsList(AxisPoints(a, v))
        BY <2>1, ListByPlaces DEF AxisPoints
    <2>3. \A e \in ToSet(AxisPoints(a, v)) : \E pt \in ToSet(v) : e = AxisPoint(a, pt)
        BY DEF AxisPoints, AxisPoint, ToSet
    <2> QED BY <2>2, <2>3
<1>7. \A i \in DOMAIN dims : IsList(dims[i])
    <2> HIDE DEF A, known
    <2> QED BY <1>4, <1>5, <1>6
<1>8. /\ IsList(points)
      /\ \A r \in DOMAIN points :
             /\ DOMAIN points[r] = 1..Len(known)
             /\ \A i \in 1..Len(known) : points[r][i] \in ToSet(dims[i])
    <2>1. DOMAIN dims = 1..Len(known)
        BY <1>4
    <2> HIDE DEF dims, known
    <2> QED BY <1>4, <1>7, <2>1, ProductList
<1>9. enum_dimensions_params(axes, params, defaults) = [i \in DOMAIN points |-> PointParams(points[i])]
    BY DEF enum_dimensions_params
<1>10. /\ q \in DOMAIN points
       /\ enum_dimensions_params(axes, params, defaults)[q] = PointParams(points[q])
    <2> HIDE DEF points
    <2> QED BY <1>9
<1> DEFINE point == points[q]
           n == Len(known)
<1>11. /\ n \in Nat /\ DOMAIN point = 1..n
       /\ \A k \in 1..n : \E pt \in ToSet(value(known[k])) : point[k] = AxisPoint(known[k], pt)
    <2>1. DOMAIN point = 1..n /\ \A k \in 1..n : point[k] \in ToSet(dims[k])
        <3> HIDE DEF points, dims, known
        <3> QED BY <1>8, <1>10
    <2>2. \A k \in 1..n : dims[k] = AxisPoints(known[k], value(known[k])) /\ known[k] \in A
        BY <1>4
    <2> HIDE DEF dims, point, known, A, value
    <2>3. \A k \in 1..n : IsList(value(known[k]))
        BY <1>5, <2>2
    <2> QED BY <1>4, <1>6, <2>1, <2>2, <2>3
<1>12. PICK pos \in [PlacesOf(chosen) -> DOMAIN known] :
           /\ \A x \in PlacesOf(chosen) : known[pos[x]] = chosen[x[1]][x[2]]
           /\ \A k \in DOMAIN known : \E x \in PlacesOf(chosen) : pos[x] = k
    <2> HIDE DEF A, chosen
    <2> QED BY <1>2, FlattenPlaces
<1>13. PlacesOf(chosen) = {<<i, 1>> : i \in {k \in DOMAIN axes : valued(axes[k])}}
    <2>1. \A i \in DOMAIN axes : DOMAIN chosen[i] = IF valued(axes[i]) THEN {1} ELSE {}
        <3> HIDE DEF valued
        <3> QED OBVIOUS
    <2>2. DOMAIN chosen = DOMAIN axes
        OBVIOUS
    <2> HIDE DEF chosen, valued
    <2> QED BY <2>1, <2>2 DEF PlacesOf
<1>14. \A i \in DOMAIN axes : valued(axes[i]) => chosen[i][1] = axes[i]
    <2> HIDE DEF valued
    <2> QED OBVIOUS
<1> DEFINE place == [i \in DOMAIN axes |-> pos[<<i, 1>>]]
<1>15. /\ \A i \in DOMAIN axes : valued(axes[i]) => place[i] \in 1..n /\ known[place[i]] = axes[i]
       /\ \A k \in 1..n : \E i \in DOMAIN axes : valued(axes[i]) /\ place[i] = k
    <2> HIDE DEF valued, chosen, known
    <2>1. \A i \in DOMAIN axes : valued(axes[i]) =>
              /\ <<i, 1>> \in PlacesOf(chosen) /\ <<i, 1>>[1] = i /\ <<i, 1>>[2] = 1
        BY <1>13
    <2>2. \A i \in DOMAIN axes : valued(axes[i]) => place[i] \in 1..n /\ known[place[i]] = axes[i]
        BY <1>4, <1>12, <1>14, <2>1
    <2>3. ASSUME NEW k \in 1..n
          PROVE  \E i \in DOMAIN axes : valued(axes[i]) /\ place[i] = k
        <3>1. PICK x \in PlacesOf(chosen) : pos[x] = k
            BY <1>4, <1>12
        <3>2. PICK i \in DOMAIN axes : valued(axes[i]) /\ x = <<i, 1>>
            BY <1>13
        <3> QED BY <3>1, <3>2
    <2> QED BY <2>2, <2>3
<1>16. \A i \in DOMAIN axes : valued(axes[i]) <=> i \in places
    <2>1. ASSUME NEW i \in DOMAIN axes, valued(axes[i])
          PROVE  values[i] # {}
        <3>1. place[i] \in 1..n /\ known[place[i]] = axes[i]
            BY <1>15, <2>1
        <3>2. ToSet(value(axes[i])) # {}
            <4> HIDE DEF point, known, place, value
            <4> QED BY <1>11, <3>1
        <3>3. axes[i] \in A
            BY <2>1 DEF ToSet
        <3> HIDE DEF A, value
        <3> QED BY <1>5, <3>2, <3>3
    <2>2. ASSUME NEW i \in DOMAIN axes, ~valued(axes[i])
          PROVE  values[i] = {}
        <3>1. ValueOf(params, defaults, axes[i]) = << >>
            BY <2>2 DEF ValueOf
        <3> QED BY <3>1 DEF ToSet
    <2> HIDE DEF valued
    <2> QED BY <2>1, <2>2
<1> DEFINE chosen_point(i) == CHOOSE pt \in values[i] : point[place[i]] = AxisPoint(axes[i], pt)
           at == [i \in places |-> chosen_point(i)]
<1>17. ASSUME NEW i \in places
       PROVE  at[i] \in values[i] /\ point[place[i]] = AxisPoint(axes[i], at[i]) /\ place[i] \in 1..n
    <2>1. i \in DOMAIN axes /\ valued(axes[i]) /\ axes[i] \in A
        BY <1>16 DEF ToSet
    <2>2. place[i] \in 1..n /\ known[place[i]] = axes[i]
        BY <1>15, <2>1
    <2>3. \E pt \in values[i] : point[place[i]] = AxisPoint(axes[i], pt)
        <3> HIDE DEF point, known, place, value, A, places
        <3>1. PICK pt \in ToSet(value(axes[i])) : point[place[i]] = AxisPoint(axes[i], pt)
            BY <1>11, <2>2
        <3>2. values[i] = ToSet(value(axes[i]))
            BY <1>5, <2>1
        <3> QED BY <3>1, <3>2
    <2> HIDE DEF point, place, places
    <2> QED BY <2>2, <2>3
<1>18. StandsAt(axes, values, at)
    <2>1. \A i \in places : at[i] \in values[i]
        <3> HIDE DEF at, places, point, place, n
        <3> QED BY <1>17
    <2>2. at = [i \in places |-> at[i]]
        <3> HIDE DEF chosen_point
        <3> QED OBVIOUS
    <2>3. places = {i \in DOMAIN axes : values[i] # {}}
        OBVIOUS
    <2> HIDE DEF at, places
    <2>4. \A i \in places : at[i] \in UNION {values[j] : j \in places}
        BY <2>1
    <2>5. at \in [places -> UNION {values[i] : i \in places}]
        BY <2>2, <2>4
    <2> QED BY <2>1, <2>3, <2>5 DEF StandsAt
<1>19. Says(axes, at, PointParams(point))
    <2>1. DOMAIN at = places
        OBVIOUS
    <2>2. \A k \in 1..n : \E i \in places : place[i] = k
        <3> HIDE DEF known, place, places, valued
        <3> QED BY <1>15, <1>16
    <2> HIDE DEF at, places, point, n, place
    <2> QED BY <1>11, <1>17, <2>1, <2>2, PointSays
<1> HIDE DEF at, point
<1> QED BY <1>10, <1>18, <1>19 DEF point

(* Then the items: where one that is no failure comes from.                *)
LEMMA FlattenListsIn ==
    ASSUME NEW n \in Nat, NEW seqs, DOMAIN seqs = 1..n, seqs = [i \in 1..n |-> seqs[i]],
           \A i \in 1..n : IsList(seqs[i]), NEW e \in ToSet(FlattenSeq(seqs))
    PROVE  \E i \in 1..n : e \in ToSet(seqs[i])
<1>1. PICK X : seqs \in Seq(Seq(X))
    BY ListsOfLists
<1>2. PICK k \in DOMAIN FlattenSeq(seqs) : e = FlattenSeq(seqs)[k]
    BY DEF ToSet
<1>3. \E i \in DOMAIN seqs : \E j \in DOMAIN seqs[i] : e = seqs[i][j]
    BY <1>1, <1>2, FlattenIn
<1> QED BY <1>3 DEF ToSet

LEMMA ConcatListsIn ==
    ASSUME NEW s, NEW t, IsList(s), IsList(t), NEW e \in ToSet(s \o t)
    PROVE  e \in ToSet(s) \/ e \in ToSet(t)
<1> DEFINE X == ToSet(s)
           Y == ToSet(t)
<1>1. s \in Seq(X) /\ t \in Seq(Y)
    BY DEF IsList
<1>2. \E k \in DOMAIN (s \o t) : e = (s \o t)[k]
    BY DEF ToSet
<1> HIDE DEF X, Y
<1>3. s \o t \in Seq(X \cup Y)
    BY <1>1
<1>4. e \in X \cup Y
    BY <1>2, <1>3
<1> QED BY <1>4 DEF X, Y

LEMMA ExpandedItem ==
    ASSUME NEW el, NEW contents, NEW params, NEW axis_defaults, NEW keep, NEW context,
           NEW e \in ToSet(Expanded(el, contents, params, axis_defaults, keep, context)), e.ok
    PROVE  e.context = context /\ e.params = params
<1>1. \A r : ToSet(<<r>>) = {r}
    BY DEF ToSet
<1>2. CASE Expanded(el, contents, params, axis_defaults, keep, context) = Failure
    BY <1>1, <1>2 DEF Failure
<1>3. CASE Expanded(el, contents, params, axis_defaults, keep, context) # Failure
    <2>1. PICK name, managed :
              Expanded(el, contents, params, axis_defaults, keep, context)
                  = <<[ok |-> TRUE, name |-> name, contents |-> contents, params |-> params,
                       managed |-> managed, context |-> context]>>
        BY <1>3 DEF Expanded
    <2> QED BY <1>1, <2>1
<1> QED BY <1>2, <1>3

FromTemplate(rs, item, el, name, params, context) ==
    LET picked == IF name # None THEN name ELSE el.defaults
        item_params == TemplateParams(PickDefaults(rs, picked), el, params)
        points == enum_dimensions_params(el.name.axes, item_params, el.axis_defaults)
    IN  /\ item.context = Append(context, el.id)
        /\ \E q \in DOMAIN points : item.params = Merge(item_params, points[q])

LEMMA TemplateItem ==
    ASSUME NEW rs, RootsShaped(rs), NEW el, Shaped(el),
           IsList(el.name.axes), Values(el.axis_defaults),
           NEW name, NEW params, Values(params), NEW keep, NEW context,
           NEW e \in ToSet(TemplateItems(rs, el, name, params, keep, context)), e.ok
    PROVE  FromTemplate(rs, e, el, name, params, context)
<1> DEFINE picked == IF name # None THEN name ELSE el.defaults
           defaults == PickDefaults(rs, picked)
           item_params == TemplateParams(defaults, el, params)
           points == enum_dimensions_params(el.name.axes, item_params, el.axis_defaults)
           exclude(ps) == IF "exclude" \in DOMAIN ps THEN ps["exclude"] ELSE << >>
           at(point) ==
               LET ps == Merge(item_params, point)
                   verdict == is_point_included(exclude(ps), ps)
               IN  CASE verdict = "excluded" -> << >>
                     [] verdict = "error"    -> Failure
                     [] OTHER -> Expanded(el, Merge(defaults.contents, el.contents), ps,
                                          el.axis_defaults, keep, Append(context, el.id))
           all == [i \in DOMAIN points |-> at(points[i])]
<1>1. IsList(points)
    <2> HIDE DEF picked
    <2>1. Values(item_params)
        BY ItemParamsValues
    <2> HIDE DEF item_params
    <2> QED BY <2>1, PointsList
<1>2. DOMAIN points = 1..Len(points) /\ Len(points) \in Nat
    <2> HIDE DEF points
    <2> QED BY <1>1, ListFacts
<1>3. ASSUME NEW point
      PROVE  /\ IsList(at(point))
             /\ e \in ToSet(at(point)) =>
                    e.context = Append(context, el.id) /\ e.params = Merge(item_params, point)
    <2> DEFINE made == Expanded(el, Merge(defaults.contents, el.contents), Merge(item_params, point),
                                el.axis_defaults, keep, Append(context, el.id))
    <2>1. at(point) = << >> \/ at(point) = Failure \/ at(point) = made
        <3> HIDE DEF item_params, defaults, exclude
        <3> QED OBVIOUS
    <2>2. IsList(made)
        BY ExpandedList
    <2>3. e \in ToSet(made) =>
              e.context = Append(context, el.id) /\ e.params = Merge(item_params, point)
        <3> DEFINE contents == Merge(defaults.contents, el.contents)
                   ps == Merge(item_params, point)
                   axis_defaults == el.axis_defaults
                   ctx == Append(context, el.id)
        <3> HIDE DEF contents, ps, axis_defaults, ctx
        <3>1. e \in ToSet(Expanded(el, contents, ps, axis_defaults, keep, ctx)) =>
                  e.context = ctx /\ e.params = ps
            BY ExpandedItem
        <3> QED BY <3>1 DEF contents, ps, axis_defaults, ctx
    <2>4. ToSet(<< >>) = {} /\ e \notin ToSet(Failure) /\ IsList(Failure)
        BY SmallLists DEF ToSet, Failure
    <2> HIDE DEF at, made, item_params
    <2> QED BY <2>1, <2>2, <2>3, <2>4, SmallLists
<1>4. TemplateItems(rs, el, name, params, keep, context)
          = IF ~HasDefaults(rs, picked) THEN Failure ELSE FlattenSeq(all)
    BY DEF TemplateItems
<1>5. e \notin ToSet(Failure)
    BY DEF ToSet, Failure
<1>6. e \in ToSet(FlattenSeq(all))
    <2> HIDE DEF all, picked
    <2> QED BY <1>4, <1>5
<1>7. \E q \in DOMAIN points : e \in ToSet(at(points[q]))
    <2> HIDE DEF points, at
    <2>1. DOMAIN all = 1..Len(points) /\ \A i \in 1..Len(points) : IsList(all[i]) /\ all[i] = at(points[i])
        BY <1>2, <1>3
    <2>2. all = [i \in 1..Len(points) |-> all[i]]
        BY <1>2
    <2> HIDE DEF all
    <2>3. \E i \in 1..Len(points) : e \in ToSet(all[i])
        BY <1>2, <1>6, <2>1, <2>2, FlattenListsIn
    <2> QED BY <1>2, <2>1, <2>3
<1>8. /\ e.context = Append(context, el.id)
      /\ \E q \in DOMAIN points : e.params = Merge(item_params, points[q])
    <2> HIDE DEF at, points, item_params
    <2> QED BY <1>3, <1>7
<1> HIDE DEF all, at
<1> QED BY <1>8 DEF FromTemplate

LEMMA RootItem ==
    ASSUME NEW rs, RootsShaped(rs), NEW what \in {"job", "view"},
           NEW kind \in {what, TemplateOf[what]}, NEW i \in DOMAIN rs[kind],
           NEW name, NEW params, Values(params), NEW keep, NEW context,
           NEW e \in ToSet(RootItems(rs, rs[kind][i], name, params, keep, context)), e.ok
    PROVE  kind = TemplateOf[what] /\ FromTemplate(rs, e, rs[kind][i], name, params, context)
<1> DEFINE el == rs[kind][i]
<1>1. kind \in Kinds
    BY DEF Kinds, TemplateOf
<1>2. el.kind = kind /\ Shaped(el)
    BY <1>1 DEF RootsShaped
<1>3. CASE kind \in {"job", "view"}
    <2>1. RootItems(rs, el, name, params, keep, context) = << >>
        BY <1>2, <1>3 DEF RootItems
    <2> QED BY <2>1 DEF ToSet
<1>4. CASE kind \notin {"job", "view"}
    <2>1. kind \in {TemplateOf["job"], TemplateOf["view"]} /\ kind = TemplateOf[what]
        BY <1>4
    <2>2. IsList(el.name.axes) /\ Values(el.axis_defaults)
        BY <1>2, <2>1 DEF Shaped
    <2>3. e \in ToSet(RootItems(rs, el, name, params, keep, context))
        OBVIOUS
    <2> HIDE DEF el
    <2>4. e \in ToSet(TemplateItems(rs, el, name, params, keep, context))
        BY <1>2, <1>4, <2>3 DEF RootItems
    <2>5. FromTemplate(rs, e, el, name, params, context)
        BY <1>2, <2>2, <2>4, TemplateItem
    <2> QED BY <2>1, <2>5 DEF el
<1> QED BY <1>3, <1>4

FromGroup(rs, what, item, group, name, params, context) ==
    \E j \in DOMAIN group.specs :
        LET templates == rs[TemplateOf[what]]
            spec == group.specs[j]
        IN  /\ Has(templates, spec.name)
            /\ FromTemplate(rs, item, Get(templates, spec.name), name,
                            Merge(Merge(params, group.params), spec.params),
                            Append(Append(context, group.id), j))

LEMMA GroupItem ==
    ASSUME NEW rs, RootsShaped(rs), NEW what \in {"job", "view"},
           NEW group, Specs(group.specs), Values(group.params),
           NEW name, NEW params, Values(params), NEW keep, NEW context,
           NEW e \in ToSet(GroupItems(rs, what, group, name, params, keep, context)), e.ok
    PROVE  FromGroup(rs, what, e, group, name, params, context)
<1> DEFINE dicts == <<rs[what], rs[TemplateOf[what]]>>
           specs == group.specs
           found(spec) == SelectInSeq(dicts, LAMBDA d : Has(d, spec.name))
           all_params == Merge(params, group.params)
           ctx == Append(context, group.id)
           of(i) == IF found(specs[i]) = 0 THEN Failure
                    ELSE RootItems(rs, Get(dicts[found(specs[i])], specs[i].name), name,
                                   Merge(all_params, specs[i].params), keep, Append(ctx, i))
           all == [i \in DOMAIN specs |-> of(i)]
<1>1. what \in Kinds /\ TemplateOf[what] \in Kinds
    BY DEF Kinds, TemplateOf
<1>2. GroupItems(rs, what, group, name, params, keep, context) = FlattenSeq(all)
    BY DEF GroupItems, SpecItems
<1>3. Values(all_params)
    BY MergeValues
<1>4. Len(specs) \in Nat /\ DOMAIN specs = 1..Len(specs) /\ \A i \in DOMAIN specs : Values(specs[i].params)
    BY ListFacts DEF Specs
<1>5. IsList(dicts) /\ DOMAIN dicts = {1, 2}
    BY SmallLists
<1>6. ASSUME NEW i \in DOMAIN specs
      PROVE  /\ IsList(of(i))
             /\ e \in ToSet(of(i)) =>
                    /\ Has(rs[TemplateOf[what]], specs[i].name)
                    /\ FromTemplate(rs, e, Get(rs[TemplateOf[what]], specs[i].name), name,
                                    Merge(all_params, specs[i].params), Append(ctx, i))
    <2>1. CASE found(specs[i]) = 0
        <3>1. of(i) = Failure
            BY <2>1
        <3>2. IsList(Failure) /\ e \notin ToSet(Failure)
            BY SmallLists DEF Failure, ToSet
        <3> HIDE DEF of
        <3> QED BY <3>1, <3>2
    <2>2. CASE found(specs[i]) # 0
        <3> DEFINE k == found(specs[i])
                   kind == IF k = 1 THEN what ELSE TemplateOf[what]
                   ps == Merge(all_params, specs[i].params)
                   cx == Append(ctx, i)
        <3>1. k \in DOMAIN dicts /\ Has(dicts[k], specs[i].name)
            <4> HIDE DEF dicts
            <4> QED BY <1>5, <2>2, FoundIn
        <3>2. dicts[k] = rs[kind] /\ kind \in {what, TemplateOf[what]} /\ kind \in Kinds
            <4> HIDE DEF found
            <4> QED BY <1>1, <1>5, <3>1
        <3>3. At(rs[kind], specs[i].name) \in DOMAIN rs[kind]
              /\ Get(rs[kind], specs[i].name) = rs[kind][At(rs[kind], specs[i].name)]
            <4> HIDE DEF kind, k, dicts
            <4> QED BY <3>1, <3>2, FoundShaped
        <3>4. Values(ps)
            <4> HIDE DEF all_params
            <4> QED BY <1>3, <1>4, MergeValues
        <3>5. of(i) = RootItems(rs, Get(rs[kind], specs[i].name), name, ps, keep, cx)
            <4> HIDE DEF kind, dicts, all_params, ctx
            <4> QED BY <2>2, <3>2
        <3> HIDE DEF kind, dicts, ps, cx, of
        <3>6. IsList(of(i))
            BY <3>2, <3>3, <3>4, <3>5, RootList
        <3>7. ASSUME e \in ToSet(of(i))
              PROVE  /\ kind = TemplateOf[what]
                     /\ FromTemplate(rs, e, Get(rs[kind], specs[i].name), name, ps, cx)
            <4> DEFINE m == At(rs[kind], specs[i].name)
            <4>1. m \in DOMAIN rs[kind] /\ Get(rs[kind], specs[i].name) = rs[kind][m]
                BY <3>3
            <4>2. e \in ToSet(RootItems(rs, rs[kind][m], name, ps, keep, cx))
                BY <3>3, <3>5, <3>7
            <4>3. kind \in {what, TemplateOf[what]}
                BY <3>2
            <4> HIDE DEF m
            <4>4. kind = TemplateOf[what] /\ FromTemplate(rs, e, rs[kind][m], name, ps, cx)
                BY <3>4, <4>1, <4>2, <4>3, RootItem
            <4> QED BY <4>1, <4>4
        <3> QED BY <3>1, <3>2, <3>6, <3>7 DEF ps, cx
    <2> QED BY <2>1, <2>2
<1>7. \E i \in DOMAIN specs : e \in ToSet(of(i))
    <2> HIDE DEF of, specs
    <2>1. DOMAIN all = 1..Len(specs) /\ \A i \in 1..Len(specs) : IsList(all[i]) /\ all[i] = of(i)
        BY <1>4, <1>6
    <2>2. all = [i \in 1..Len(specs) |-> all[i]]
        BY <1>4
    <2> HIDE DEF all
    <2>3. \E i \in 1..Len(specs) : e \in ToSet(all[i])
        BY <1>2, <1>4, <2>1, <2>2, FlattenListsIn
    <2> QED BY <1>4, <2>1, <2>3
<1>8. PICK i \in DOMAIN specs :
          /\ Has(rs[TemplateOf[what]], specs[i].name)
          /\ FromTemplate(rs, e, Get(rs[TemplateOf[what]], specs[i].name), name,
                          Merge(all_params, specs[i].params), Append(ctx, i))
    <2> HIDE DEF of, specs, all_params, ctx
    <2> QED BY <1>6, <1>7
<1> QED BY <1>8 DEF FromGroup

FromProject(rs, what, item, project) ==
    \E i \in DOMAIN project[what] :
        LET spec == project[what][i]
            templates == rs[TemplateOf[what]]
            groups == rs[GroupOf[what]]
            params == Merge(Merge(project.params, Param("name", Scalar(project.id))), spec.params)
            context == Append(<<project.id>>, i)
        IN  \/ /\ Has(templates, spec.name)
               /\ FromTemplate(rs, item, Get(templates, spec.name), project.defaults, params, context)
            \/ /\ Has(groups, spec.name)
               /\ FromGroup(rs, what, item, Get(groups, spec.name), project.defaults, params, context)

LEMMA ProjectItem ==
    ASSUME NEW rs, RootsShaped(rs), NEW what \in {"job", "view"},
           NEW project, Specs(project[what]), Values(project.params), NEW keep,
           NEW e \in ToSet(ProjectItems(rs, what, project, keep)), e.ok
    PROVE  FromProject(rs, what, e, project)
<1> DEFINE dicts == <<rs[what], rs[TemplateOf[what]], rs[GroupOf[what]]>>
           specs == project[what]
           found(spec) == SelectInSeq(dicts, LAMBDA d : Has(d, spec.name))
           all_params == Merge(project.params, Param("name", Scalar(project.id)))
           gives(el, ps, ctx) ==
               IF el.kind = GroupOf[what]
               THEN GroupItems(rs, what, el, project.defaults, ps, keep, ctx)
               ELSE RootItems(rs, el, project.defaults, ps, keep, ctx)
           of(i) == IF found(specs[i]) = 0 THEN Failure
                    ELSE gives(Get(dicts[found(specs[i])], specs[i].name),
                               Merge(all_params, specs[i].params), Append(<<project.id>>, i))
           all == [i \in DOMAIN specs |-> of(i)]
           comes(i) ==
               LET name == specs[i].name
                   params == Merge(all_params, specs[i].params)
                   context == Append(<<project.id>>, i)
               IN  \/ /\ Has(rs[TemplateOf[what]], name)
                      /\ FromTemplate(rs, e, Get(rs[TemplateOf[what]], name), project.defaults, params, context)
                   \/ /\ Has(rs[GroupOf[what]], name)
                      /\ FromGroup(rs, what, e, Get(rs[GroupOf[what]], name), project.defaults, params, context)
<1>1. what \in Kinds /\ TemplateOf[what] \in Kinds /\ GroupOf[what] \in Kinds
      /\ GroupOf[what] \notin {what, TemplateOf[what]}
    BY DEF Kinds, TemplateOf, GroupOf
<1>2. ProjectItems(rs, what, project, keep) = FlattenSeq(all)
    BY DEF ProjectItems, SpecItems
<1>3. Values(all_params)
    BY MergeValues, ScalarValues
<1>4. Len(specs) \in Nat /\ DOMAIN specs = 1..Len(specs) /\ \A i \in DOMAIN specs : Values(specs[i].params)
    BY ListFacts DEF Specs
<1>5. IsList(dicts) /\ DOMAIN dicts = {1, 2, 3}
    <2>1. dicts \in Seq({rs[what], rs[TemplateOf[what]], rs[GroupOf[what]]})
        OBVIOUS
    <2>2. DOMAIN dicts = 1..3
        OBVIOUS
    <2> HIDE DEF dicts
    <2>3. IsList(dicts)
        BY <2>1, ListOf
    <2> QED BY <2>2, <2>3
<1>6. ASSUME NEW i \in DOMAIN specs
      PROVE  IsList(of(i)) /\ (e \in ToSet(of(i)) => comes(i))
    <2>1. CASE found(specs[i]) = 0
        <3>1. of(i) = Failure
            BY <2>1
        <3>2. IsList(Failure) /\ e \notin ToSet(Failure)
            BY SmallLists DEF Failure, ToSet
        <3> HIDE DEF of, comes
        <3> QED BY <3>1, <3>2
    <2>2. CASE found(specs[i]) # 0
        <3> DEFINE k == found(specs[i])
                   kind == CASE k = 1 -> what [] k = 2 -> TemplateOf[what] [] OTHER -> GroupOf[what]
                   ps == Merge(all_params, specs[i].params)
                   ctx == Append(<<project.id>>, i)
        <3>1. k \in DOMAIN dicts /\ Has(dicts[k], specs[i].name)
            <4> HIDE DEF dicts
            <4> QED BY <1>5, <2>2, FoundIn
        <3>2. dicts[k] = rs[kind] /\ kind \in {what, TemplateOf[what], GroupOf[what]} /\ kind \in Kinds
            <4> HIDE DEF found
            <4> QED BY <1>1, <1>5, <3>1
        <3> DEFINE el == rs[kind][At(rs[kind], specs[i].name)]
        <3>3. At(rs[kind], specs[i].name) \in DOMAIN rs[kind]
              /\ Get(rs[kind], specs[i].name) = el
            <4> HIDE DEF kind, k, dicts
            <4> QED BY <3>1, <3>2, FoundShaped
        <3>4. Values(ps)
            <4> HIDE DEF all_params
            <4> QED BY <1>3, <1>4, MergeValues
        <3>5. el.kind = kind /\ Shaped(el)
            <4> HIDE DEF kind
            <4> QED BY <3>2, <3>3 DEF RootsShaped
        <3>6. of(i) = gives(el, ps, ctx)
            <4> HIDE DEF kind, dicts, all_params, el, gives
            <4> QED BY <2>2, <3>2, <3>3
        <3>7. comes(i) <=>
                  \/ /\ Has(rs[TemplateOf[what]], specs[i].name)
                     /\ FromTemplate(rs, e, Get(rs[TemplateOf[what]], specs[i].name), project.defaults, ps, ctx)
                  \/ /\ Has(rs[GroupOf[what]], specs[i].name)
                     /\ FromGroup(rs, what, e, Get(rs[GroupOf[what]], specs[i].name), project.defaults, ps, ctx)
            OBVIOUS
        <3>8. Has(rs[kind], specs[i].name)
            <4> HIDE DEF kind, dicts
            <4> QED BY <3>1, <3>2
        <3> HIDE DEF kind, dicts, ps, ctx, of, comes
        <3>9. CASE kind = GroupOf[what]
            <4>1. Specs(el.specs) /\ Values(el.params)
                <5>1. kind \in {GroupOf["job"], GroupOf["view"]}
                    BY <3>9
                <5> HIDE DEF el
                <5> QED BY <3>5, <5>1 DEF Shaped
            <4>2. of(i) = GroupItems(rs, what, el, project.defaults, ps, keep, ctx)
                <5> HIDE DEF el
                <5> QED BY <3>5, <3>6, <3>9
            <4> HIDE DEF el
            <4>3. IsList(of(i))
                BY <3>4, <4>1, <4>2, GroupList
            <4>4. ASSUME e \in ToSet(of(i))
                  PROVE  FromGroup(rs, what, e, el, project.defaults, ps, ctx)
                BY <3>4, <4>1, <4>2, <4>4, GroupItem
            <4> QED BY <3>3, <3>7, <3>8, <3>9, <4>3, <4>4
        <3>10. CASE kind # GroupOf[what]
            <4>1. of(i) = RootItems(rs, el, project.defaults, ps, keep, ctx)
                <5> HIDE DEF el
                <5> QED BY <3>5, <3>6, <3>10
            <4> DEFINE m == At(rs[kind], specs[i].name)
            <4>2. m \in DOMAIN rs[kind] /\ el = rs[kind][m] /\ kind \in {what, TemplateOf[what]}
                BY <3>2, <3>3, <3>10
            <4> DEFINE name == project.defaults
            <4> HIDE DEF m, el, name
            <4>3. IsList(RootItems(rs, rs[kind][m], name, ps, keep, ctx))
                BY <3>4, <4>2, RootList
            <4>4. IsList(of(i))
                BY <4>1, <4>2, <4>3 DEF name
            <4>5. ASSUME e \in ToSet(RootItems(rs, rs[kind][m], name, ps, keep, ctx))
                  PROVE  kind = TemplateOf[what] /\ FromTemplate(rs, e, rs[kind][m], name, ps, ctx)
                BY <3>4, <4>2, <4>5, RootItem
            <4>6. e \in ToSet(of(i)) =>
                      kind = TemplateOf[what] /\ FromTemplate(rs, e, el, project.defaults, ps, ctx)
                BY <4>1, <4>2, <4>5 DEF name
            <4> QED BY <3>3, <3>7, <3>8, <4>4, <4>6
        <3> QED BY <3>9, <3>10
    <2> QED BY <2>1, <2>2
<1>7. \E i \in DOMAIN specs : e \in ToSet(of(i))
    <2> HIDE DEF of, specs, comes
    <2>1. DOMAIN all = 1..Len(specs) /\ \A i \in 1..Len(specs) : IsList(all[i]) /\ all[i] = of(i)
        BY <1>4, <1>6
    <2>2. all = [i \in 1..Len(specs) |-> all[i]]
        BY <1>4
    <2> HIDE DEF all
    <2>3. \E i \in 1..Len(specs) : e \in ToSet(all[i])
        BY <1>2, <1>4, <2>1, <2>2, FlattenListsIn
    <2> QED BY <1>4, <2>1, <2>3
<1>8. PICK i \in DOMAIN specs : comes(i)
    <2> HIDE DEF of, specs, comes
    <2> QED BY <1>6, <1>7
<1> QED BY <1>8 DEF FromProject

LEMMA GeneratedItem ==
    ASSUME NEW rs, RootsShaped(rs), NEW what \in {"job", "view"}, NEW keep,
           NEW e \in ToSet(GeneratedList(rs, what, keep)), e.ok
    PROVE  \/ Len(e.context) = 1
           \/ \E i \in DOMAIN rs["project"] : FromProject(rs, what, e, rs["project"][i])
<1> DEFINE tops == rs[what]
           projects == rs["project"]
           top == [i \in DOMAIN tops |-> TopLevelItems(rs, tops[i], keep)]
           rest == [i \in DOMAIN projects |-> ProjectItems(rs, what, projects[i], keep)]
<1>1. what \in Kinds /\ "project" \in Kinds
    BY DEF Kinds
<1>2. /\ Len(tops) \in Nat /\ DOMAIN tops = 1..Len(tops)
      /\ Len(projects) \in Nat /\ DOMAIN projects = 1..Len(projects)
    BY <1>1, ListFacts DEF RootsShaped
<1>3. ASSUME NEW i \in DOMAIN projects
      PROVE  Specs(projects[i][what]) /\ Values(projects[i].params)
    <2>1. projects[i].kind = "project" /\ Shaped(projects[i])
        BY <1>1 DEF RootsShaped
    <2> QED BY <2>1 DEF Shaped
<1>4. /\ DOMAIN top = 1..Len(tops) /\ \A i \in 1..Len(tops) : IsList(top[i])
      /\ top = [i \in 1..Len(tops) |-> top[i]]
    <2> HIDE DEF tops
    <2> QED BY <1>2, TopLevelList
<1>5. /\ DOMAIN rest = 1..Len(projects) /\ \A i \in 1..Len(projects) : IsList(rest[i])
      /\ rest = [i \in 1..Len(projects) |-> rest[i]]
    <2> HIDE DEF projects
    <2> QED BY <1>2, <1>3, ProjectList
<1>6. e \in ToSet(FlattenSeq(top)) \/ e \in ToSet(FlattenSeq(rest))
    <2>1. GeneratedList(rs, what, keep) = FlattenSeq(top) \o FlattenSeq(rest)
        BY DEF GeneratedList
    <2> HIDE DEF top, rest
    <2>2. IsList(FlattenSeq(top)) /\ IsList(FlattenSeq(rest))
        BY <1>2, <1>4, <1>5, FlattenLists
    <2> DEFINE s == FlattenSeq(top)
               t == FlattenSeq(rest)
    <2> HIDE DEF s, t
    <2>3. IsList(s) /\ IsList(t) /\ e \in ToSet(s \o t)
        BY <2>1, <2>2 DEF s, t
    <2>4. e \in ToSet(s) \/ e \in ToSet(t)
        BY <2>3, ConcatListsIn
    <2> QED BY <2>4 DEF s, t
<1>7. CASE e \in ToSet(FlattenSeq(top))
    <2>1. PICK i \in 1..Len(tops) : e \in ToSet(top[i])
        <3> HIDE DEF top
        <3> QED BY <1>2, <1>4, <1>7, FlattenListsIn
    <2>2. e \in ToSet(TopLevelItems(rs, tops[i], keep))
        BY <1>2, <2>1
    <2> DEFINE el == tops[i]
    <2> HIDE DEF el
    <2>3. e.context = <<el.id>>
        <3> DEFINE defaults == PickDefaults(rs, el.defaults)
                   contents == Merge(defaults.contents, el.contents)
                   params == Merge(defaults.params, el.params)
                   ctx == <<el.id>>
                   made == Expanded(el, contents, params, NoParams, keep, ctx)
        <3>1. TopLevelItems(rs, el, keep) = Failure \/ TopLevelItems(rs, el, keep) = made
            BY DEF TopLevelItems
        <3>2. e \notin ToSet(Failure)
            BY DEF ToSet, Failure
        <3>3. e \in ToSet(made)
            <4> HIDE DEF made
            <4> QED BY <2>2, <3>1, <3>2 DEF el
        <3>4. e.context = ctx
            <4> HIDE DEF contents, params, ctx
            <4> QED BY <3>3, ExpandedItem
        <3> QED BY <3>4
    <2> QED BY <2>3
<1>8. CASE e \in ToSet(FlattenSeq(rest))
    <2>1. PICK i \in 1..Len(projects) : e \in ToSet(rest[i])
        <3> HIDE DEF rest
        <3> QED BY <1>2, <1>5, <1>8, FlattenListsIn
    <2>2. i \in DOMAIN projects /\ e \in ToSet(ProjectItems(rs, what, projects[i], keep))
        BY <1>2, <2>1
    <2>3. FromProject(rs, what, e, projects[i])
        <3> DEFINE project == projects[i]
        <3>1. Specs(project[what]) /\ Values(project.params)
              /\ e \in ToSet(ProjectItems(rs, what, project, keep))
            BY <1>3, <2>2
        <3> HIDE DEF project
        <3>2. FromProject(rs, what, e, project)
            BY <3>1, ProjectItem
        <3> QED BY <3>2 DEF project
    <2> QED BY <2>2, <2>3
<1> QED BY <1>6, <1>7, <1>8

-----------------------------------------------------------------------------
(* The levels: a parameter has the value of the first that has it, and     *)
(* another value if none has.                                              *)
ValueElse(ps, p, other) == IF p \in DOMAIN ps THEN ps[p] ELSE other

StrongestElse(levels, p, other) ==
    IF \E i \in DOMAIN levels : p \in DOMAIN levels[i] THEN Strongest(levels, p) ELSE other

LEMMA MergeElse ==
    ASSUME NEW low, NEW high, NEW p, NEW other
    PROVE  ValueElse(Merge(low, high), p, other) = ValueElse(high, p, ValueElse(low, p, other))
BY DEF ValueElse, Merge

LEMMA FirstLevel ==
    ASSUME NEW levels, IsList(levels), NEW p
    PROVE  /\ \A i \in DOMAIN levels :
                  /\ p \in DOMAIN levels[i]
                  /\ \A j \in DOMAIN levels : p \in DOMAIN levels[j] => i <= j
                  => Strongest(levels, p) = levels[i][p]
           /\ (\A i \in DOMAIN levels : p \notin DOMAIN levels[i]) => Strongest(levels, p) = << >>
           /\ (\E i \in DOMAIN levels : p \in DOMAIN levels[i]) =>
                  \E i \in DOMAIN levels : /\ p \in DOMAIN levels[i]
                                           /\ \A j \in DOMAIN levels : p \in DOMAIN levels[j] => i <= j
<1> DEFINE I == {i \in 1..Len(levels) : p \in DOMAIN levels[i]}
           k == SelectInSeq(levels, LAMBDA ps : p \in DOMAIN ps)
<1>1. Len(levels) \in Nat /\ DOMAIN levels = 1..Len(levels)
    BY ListFacts
<1>2. k = IF I # {} THEN Min(I) ELSE 0
    BY DEF SelectInSeq
<1>3. I # {} => Min(I) \in I /\ \A j \in I : Min(I) <= j
    BY <1>1, LeastOf
<1>4. Strongest(levels, p) = IF k = 0 THEN << >> ELSE levels[k][p]
    BY DEF Strongest
<1>5. \A i \in 1..Len(levels) : i \in Int /\ i # 0
    BY <1>1
<1>6. \A i \in 1..Len(levels) : i \in I <=> p \in DOMAIN levels[i]
    OBVIOUS
<1>7. I \subseteq 1..Len(levels)
    OBVIOUS
<1> HIDE DEF k, I
<1>8. ASSUME NEW i \in DOMAIN levels, p \in DOMAIN levels[i],
             \A j \in DOMAIN levels : p \in DOMAIN levels[j] => i <= j
      PROVE  Strongest(levels, p) = levels[i][p]
    <2>1. i \in I /\ Min(I) \in I /\ Min(I) <= i /\ i <= Min(I)
        BY <1>1, <1>3, <1>6, <1>7, <1>8
    <2>2. k = i
        BY <1>1, <1>2, <1>5, <1>7, <2>1
    <2> QED BY <1>1, <1>4, <1>5, <2>2
<1>9. ASSUME \A i \in DOMAIN levels : p \notin DOMAIN levels[i]
      PROVE  Strongest(levels, p) = << >>
    <2>1. I = {}
        BY <1>1, <1>6, <1>7, <1>9
    <2> QED BY <1>2, <1>4, <2>1
<1>10. ASSUME NEW i \in DOMAIN levels, p \in DOMAIN levels[i]
       PROVE  \E m \in DOMAIN levels : /\ p \in DOMAIN levels[m]
                                       /\ \A j \in DOMAIN levels : p \in DOMAIN levels[j] => m <= j
    <2>1. i \in I
        BY <1>1, <1>6, <1>10
    <2> DEFINE m == Min(I)
    <2>2. m \in I /\ \A j \in I : m <= j
        BY <1>3, <2>1
    <2> HIDE DEF m
    <2>3. m \in DOMAIN levels /\ p \in DOMAIN levels[m]
          /\ \A j \in DOMAIN levels : p \in DOMAIN levels[j] => m <= j
        BY <1>1, <1>6, <1>7, <2>2
    <2> QED BY <2>3
<1> QED BY <1>8, <1>9, <1>10

LEMMA OneLevel ==
    ASSUME NEW ps, NEW p, NEW other
    PROVE  StrongestElse(<<ps>>, p, other) = ValueElse(ps, p, other)
<1> DEFINE levels == <<ps>>
<1>1. IsList(levels) /\ DOMAIN levels = {1} /\ levels[1] = ps
    BY SmallLists
<1> HIDE DEF levels
<1>2. p \in DOMAIN ps => Strongest(levels, p) = ps[p]
    BY <1>1, FirstLevel
<1>3. StrongestElse(levels, p, other) = ValueElse(ps, p, other)
    BY <1>1, <1>2 DEF StrongestElse, ValueElse
<1> QED BY <1>3 DEF levels

LEMMA NoLevels ==
    ASSUME NEW p, NEW other
    PROVE  StrongestElse(<< >>, p, other) = other
BY DEF StrongestElse

LEMMA LevelsElse ==
    ASSUME NEW levels, IsList(levels), NEW p
    PROVE  Strongest(levels, p) = StrongestElse(levels, p, << >>)
BY FirstLevel DEF StrongestElse

LEMMA MoreLevels ==
    ASSUME NEW s, NEW t, IsList(s), IsList(t), NEW p, NEW other
    PROVE  StrongestElse(s \o t, p, other) = StrongestElse(s, p, StrongestElse(t, p, other))
<1> DEFINE X == ToSet(s) \cup ToSet(t)
           u == s \o t
           m == Len(s)
           n == Len(t)
<1>1. s \in Seq(X) /\ t \in Seq(X)
    BY DEF IsList
<1>2. IsList(u)
    BY ConcatLists
<1>3. m \in Nat /\ n \in Nat /\ DOMAIN s = 1..m /\ DOMAIN t = 1..n
    BY ListFacts
<1>4. /\ Len(u) = m + n
      /\ \A j \in 1..m : u[j] = s[j]
      /\ \A a \in 1..n : u[m + a] = t[a]
    <2> HIDE DEF X
    <2> QED BY <1>1, ConcatPlaces
<1>5. DOMAIN u = 1..(m + n)
    BY <1>2, <1>4, ListFacts
<1> HIDE DEF u, m, n
<1>6. CASE \E i \in DOMAIN s : p \in DOMAIN s[i]
    <2>1. PICK i \in DOMAIN s : /\ p \in DOMAIN s[i]
                                /\ \A j \in DOMAIN s : p \in DOMAIN s[j] => i <= j
        BY <1>6, FirstLevel
    <2>2. i \in 1..m /\ i \in DOMAIN u /\ u[i] = s[i]
        BY <1>3, <1>4, <1>5
    <2>3. ASSUME NEW j \in DOMAIN u, p \in DOMAIN u[j]
          PROVE  i <= j
        <3>1. CASE j \in 1..m
            BY <1>3, <1>4, <2>1, <2>3, <3>1
        <3>2. CASE j \notin 1..m
            BY <1>3, <1>5, <2>2, <3>2
        <3> QED BY <3>1, <3>2
    <2>4. Strongest(u, p) = s[i][p]
        BY <1>2, <2>1, <2>2, <2>3, FirstLevel
    <2>5. Strongest(s, p) = s[i][p]
        BY <2>1, FirstLevel
    <2> QED BY <1>6, <2>1, <2>2, <2>4, <2>5 DEF StrongestElse, u
<1>7. CASE (\A i \in DOMAIN s : p \notin DOMAIN s[i]) /\ \E i \in DOMAIN t : p \in DOMAIN t[i]
    <2>1. PICK i \in DOMAIN t : /\ p \in DOMAIN t[i]
                                /\ \A j \in DOMAIN t : p \in DOMAIN t[j] => i <= j
        <3>1. \E i \in DOMAIN t : p \in DOMAIN t[i]
            BY <1>7
        <3> QED BY <3>1, FirstLevel
    <2>2. i \in 1..n /\ m + i \in DOMAIN u /\ u[m + i] = t[i]
        BY <1>3, <1>4, <1>5
    <2>3. ASSUME NEW j \in DOMAIN u, p \in DOMAIN u[j]
          PROVE  m + i <= j
        <3>1. j \notin 1..m
            BY <1>3, <1>4, <1>7, <2>3
        <3> DEFINE a == j - m
        <3>2. a \in 1..n /\ j = m + a
            BY <1>3, <1>5, <3>1
        <3> HIDE DEF a
        <3>3. p \in DOMAIN t[a]
            BY <1>4, <2>3, <3>2
        <3>4. i <= a
            BY <1>3, <2>1, <3>2, <3>3
        <3> QED BY <1>3, <2>2, <3>2, <3>4
    <2>4. Strongest(u, p) = t[i][p]
        BY <1>2, <2>1, <2>2, <2>3, FirstLevel
    <2>5. Strongest(t, p) = t[i][p]
        BY <2>1, FirstLevel
    <2> QED BY <1>7, <2>1, <2>2, <2>4, <2>5 DEF StrongestElse, u
<1>8. CASE (\A i \in DOMAIN s : p \notin DOMAIN s[i]) /\ \A i \in DOMAIN t : p \notin DOMAIN t[i]
    <2>1. ASSUME NEW j \in DOMAIN u
          PROVE  p \notin DOMAIN u[j]
        <3>1. CASE j \in 1..m
            BY <1>3, <1>4, <1>8, <3>1
        <3>2. CASE j \notin 1..m
            <4> DEFINE a == j - m
            <4>1. a \in 1..n /\ j = m + a
                BY <1>3, <1>5, <3>2
            <4> HIDE DEF a
            <4> QED BY <1>3, <1>4, <1>8, <4>1
        <3> QED BY <3>1, <3>2
    <2> QED BY <1>8, <2>1 DEF StrongestElse, u
<1> QED BY <1>6, <1>7, <1>8

LEMMA FourLevels ==
    ASSUME NEW a, NEW b, NEW c, NEW d, NEW p, NEW other
    PROVE  /\ StrongestElse(<<a, b, c, d>>, p, other)
                = ValueElse(a, p, ValueElse(b, p, ValueElse(c, p, ValueElse(d, p, other))))
           /\ IsList(<<a, b, c, d>>)
<1> DEFINE levels == <<a, b, c, d>>
<1>1. IsList(levels)
    <2>1. levels \in Seq({a, b, c, d})
        OBVIOUS
    <2> HIDE DEF levels
    <2> QED BY <2>1, ListOf
<1>2. /\ DOMAIN levels = 1..4
      /\ levels[1] = a /\ levels[2] = b /\ levels[3] = c /\ levels[4] = d
    OBVIOUS
<1> HIDE DEF levels
<1>3. \A i \in 1..4 : i = 1 \/ i = 2 \/ i = 3 \/ i = 4
    OBVIOUS
<1>4. ASSUME NEW i \in 1..4, p \in DOMAIN levels[i], \A j \in 1..4 : j < i => p \notin DOMAIN levels[j]
      PROVE  StrongestElse(levels, p, other) = levels[i][p]
    <2>1. \A j \in 1..4 : p \in DOMAIN levels[j] => i <= j
        BY <1>4
    <2>2. Strongest(levels, p) = levels[i][p]
        BY <1>1, <1>2, <1>4, <2>1, FirstLevel
    <2> QED BY <1>2, <1>4, <2>2 DEF StrongestElse
<1>5. CASE p \in DOMAIN a
    <2>1. StrongestElse(levels, p, other) = levels[1][p]
        BY <1>2, <1>3, <1>4, <1>5
    <2> QED BY <1>1, <1>2, <1>5, <2>1 DEF ValueElse, levels
<1>6. CASE p \notin DOMAIN a /\ p \in DOMAIN b
    <2>1. StrongestElse(levels, p, other) = levels[2][p]
        BY <1>2, <1>3, <1>4, <1>6
    <2> QED BY <1>1, <1>2, <1>6, <2>1 DEF ValueElse, levels
<1>7. CASE p \notin DOMAIN a /\ p \notin DOMAIN b /\ p \in DOMAIN c
    <2>1. StrongestElse(levels, p, other) = levels[3][p]
        BY <1>2, <1>3, <1>4, <1>7
    <2> QED BY <1>1, <1>2, <1>7, <2>1 DEF ValueElse, levels
<1>8. CASE p \notin DOMAIN a /\ p \notin DOMAIN b /\ p \notin DOMAIN c /\ p \in DOMAIN d
    <2>1. StrongestElse(levels, p, other) = levels[4][p]
        BY <1>2, <1>3, <1>4, <1>8
    <2> QED BY <1>1, <1>2, <1>8, <2>1 DEF ValueElse, levels
<1>9. CASE p \notin DOMAIN a /\ p \notin DOMAIN b /\ p \notin DOMAIN c /\ p \notin DOMAIN d
    <2>1. \A i \in DOMAIN levels : p \notin DOMAIN levels[i]
        BY <1>2, <1>3, <1>9
    <2>2. StrongestElse(levels, p, other) = other
        BY <2>1 DEF StrongestElse
    <2> QED BY <1>1, <1>9, <2>2 DEF ValueElse, levels
<1> QED BY <1>5, <1>6, <1>7, <1>8, <1>9

LEMMA TwoLevels ==
    ASSUME NEW a, NEW b, NEW p, NEW other
    PROVE  StrongestElse(<<a, b>>, p, other) = ValueElse(a, p, ValueElse(b, p, other))
<1> DEFINE levels == <<a, b>>
<1>1. IsList(levels)
    BY SmallLists
<1>2. DOMAIN levels = {1, 2} /\ levels[1] = a /\ levels[2] = b
    OBVIOUS
<1> HIDE DEF levels
<1>3. p \in DOMAIN a => Strongest(levels, p) = a[p]
    BY <1>1, <1>2, FirstLevel
<1>4. p \notin DOMAIN a /\ p \in DOMAIN b => Strongest(levels, p) = b[p]
    BY <1>1, <1>2, FirstLevel
<1>5. StrongestElse(levels, p, other) = ValueElse(a, p, ValueElse(b, p, other))
    BY <1>2, <1>3, <1>4 DEF StrongestElse, ValueElse
<1> QED BY <1>5 DEF levels

(* What TemplateParams makes, for a template and its defaults.             *)
OfDefaults(rs, name) ==
    IF Has(rs["defaults"], name) THEN <<Get(rs["defaults"], name).params>> ELSE << >>

LEMMA DefaultsElse ==
    ASSUME NEW rs, NEW name, NEW p, NEW other
    PROVE  ValueElse(PickDefaults(rs, name).params, p, other)
               = StrongestElse(OfDefaults(rs, name), p, StrongestElse(OfDefaults(rs, "global"), p, other))
<1> DEFINE own(n) == IF Has(rs["defaults"], n) THEN Get(rs["defaults"], n)
                     ELSE [params |-> NoParams, contents |-> << >>]
<1>1. ASSUME NEW n, NEW x
      PROVE  StrongestElse(OfDefaults(rs, n), p, x) = ValueElse(own(n).params, p, x)
    <2>1. CASE Has(rs["defaults"], n)
        BY <2>1, OneLevel DEF OfDefaults
    <2>2. CASE ~Has(rs["defaults"], n)
        <3>1. OfDefaults(rs, n) = << >> /\ own(n).params = NoParams
            BY <2>2 DEF OfDefaults
        <3>2. ValueElse(NoParams, p, x) = x
            BY DEF ValueElse, NoParams
        <3> HIDE DEF own
        <3> QED BY <3>1, <3>2, NoLevels
    <2> QED BY <2>1, <2>2
<1>2. PickDefaults(rs, name).params = Merge(own("global").params, own(name).params)
    BY DEF PickDefaults
<1> HIDE DEF own
<1> QED BY <1>1, <1>2, MergeElse

LEMMA TemplateParamsElse ==
    ASSUME NEW defaults, NEW el, NEW params, NEW p, NEW other
    PROVE  ValueElse(TemplateParams(defaults, el, params), p, other)
               = ValueElse(GivenId(el), p, ValueElse(Param("template-name", Scalar(el.name.text)), p,
                     ValueElse(params, p, ValueElse(el.params, p, ValueElse(defaults.params, p, other)))))
<1> DEFINE d == defaults.params
           e == el.params
           t == Param("template-name", Scalar(el.name.text))
           g == GivenId(el)
           dicts == <<d, e, params, t, g>>
<1>1. TemplateParams(defaults, el, params) = MergeAll(dicts)
    BY DEF TemplateParams
<1> HIDE DEF d, e, t, g
<1>2. DOMAIN dicts = 1..5 /\ dicts[1] = d /\ dicts[2] = e /\ dicts[3] = params /\ dicts[4] = t
      /\ dicts[5] = g
    OBVIOUS
<1> HIDE DEF dicts
<1>3. PICK acc : /\ acc[0] = NoParams
                 /\ \A k \in 1..5 : acc[k] = Merge(acc[k - 1], dicts[k])
                 /\ MergeAll(dicts) = acc[5]
    BY <1>2, MergeAllSteps
<1>4. acc[1] = Merge(NoParams, d) /\ acc[2] = Merge(acc[1], e)
      /\ acc[3] = Merge(acc[2], params) /\ acc[4] = Merge(acc[3], t) /\ acc[5] = Merge(acc[4], g)
    BY <1>2, <1>3
<1>5. ValueElse(NoParams, p, other) = other
    BY DEF ValueElse, NoParams
<1>6. ValueElse(MergeAll(dicts), p, other)
          = ValueElse(g, p, ValueElse(t, p, ValueElse(params, p, ValueElse(e, p, ValueElse(d, p, other)))))
    BY <1>3, <1>4, <1>5, MergeElse
<1> QED BY <1>1, <1>6 DEF d, e, t, g

(* With the parameters in force known, an item stands where EnumSays says. *)
LEMMA ItemStands ==
    ASSUME NEW item, NEW what, NEW el, Template(item, what) = el,
           IsList(el.name.axes), Values(el.axis_defaults), NEW params, Values(params),
           \A p : InForce(item, what, p) = ValueOf(params, el.axis_defaults, p),
           NEW q \in DOMAIN enum_dimensions_params(el.name.axes, params, el.axis_defaults),
           item.params = Merge(params, enum_dimensions_params(el.name.axes, params, el.axis_defaults)[q])
    PROVE  Prioritised(item, what)
<1> DEFINE axes == Template(item, what).name.axes
           defaults == el.axis_defaults
           point == enum_dimensions_params(axes, params, defaults)[q]
           values == [i \in DOMAIN axes |-> ToSet(InForce(item, what, axes[i]))]
           places == {i \in DOMAIN axes : values[i] # {}}
<1>1. \A i \in DOMAIN axes : values[i] = ToSet(ValueOf(params, defaults, axes[i]))
    OBVIOUS
<1>2. /\ IsList(axes) /\ Values(defaults)
      /\ q \in DOMAIN enum_dimensions_params(axes, params, defaults)
      /\ item.params = Merge(params, point)
    OBVIOUS
<1>3. PICK at : StandsAt(axes, values, at) /\ Says(axes, at, point)
    <2> HIDE DEF axes, defaults, values
    <2> QED BY <1>1, <1>2, EnumSays
<1>4. ASSUME NEW p \in DOMAIN item.params
      PROVE  IF Said(axes, at, p) # {} THEN item.params[p] \in Said(axes, at, p)
             ELSE IF Own(axes, at, p) # {} THEN item.params[p] \in Own(axes, at, p)
             ELSE item.params[p] = InForce(item, what, p)
    <2> HIDE DEF point, axes
    <2>1. /\ p \in DOMAIN point => item.params[p] = point[p]
          /\ p \notin DOMAIN point => p \in DOMAIN params /\ item.params[p] = params[p]
        BY <1>2, <1>4 DEF Merge
    <2>2. CASE p \in DOMAIN point
        BY <1>3, <2>1, <2>2 DEF Says
    <2>3. CASE p \notin DOMAIN point
        BY <1>3, <2>1, <2>3 DEF Says, ValueOf
    <2> QED BY <2>2, <2>3
<1>5. /\ at \in [places -> UNION {values[i] : i \in places}]
      /\ \A i \in places : at[i] \in values[i]
    <2> HIDE DEF axes, values
    <2> QED BY <1>3 DEF StandsAt
<1>6. \E f \in [places -> UNION {values[i] : i \in places}] :
          /\ \A i \in places : f[i] \in values[i]
          /\ \A p \in DOMAIN item.params :
                 IF Said(axes, f, p) # {} THEN item.params[p] \in Said(axes, f, p)
                 ELSE IF Own(axes, f, p) # {} THEN item.params[p] \in Own(axes, f, p)
                 ELSE item.params[p] = InForce(item, what, p)
    <2> HIDE DEF places, axes, values
    <2> QED BY <1>4, <1>5
<1> QED BY <1>6 DEF Prioritised

(* The levels of the group and of the place in the list of the project,    *)
(* and what is passed to the template when its parameters come from there. *)
SpecOf(item, what) == Project(item)[what][item.context[2]]

GroupLevels(item, what) ==
    IF Len(item.context) = 3 THEN << >>
    ELSE <<Get(roots[GroupOf[what]], item.context[3]).specs[item.context[4]].params,
           Get(roots[GroupOf[what]], item.context[3]).params>>

Passed(item, what, params) ==
    \A p, other :
        ValueElse(params, p, other)
            = StrongestElse(GroupLevels(item, what), p,
                  ValueElse(SpecOf(item, what).params, p,
                      ValueElse(Param("name", Scalar(Project(item).id)), p,
                          ValueElse(Project(item).params, p, other))))

LEMMA LevelsInForce ==
    ASSUME NEW item, NEW what, NEW params, Passed(item, what, params),
           NEW picked, picked = IF Project(item).defaults # None THEN Project(item).defaults
                                ELSE Template(item, what).defaults,
           NEW p
    PROVE  InForce(item, what, p)
               = ValueOf(TemplateParams(PickDefaults(roots, picked), Template(item, what), params),
                         Template(item, what).axis_defaults, p)
<1> DEFINE el == Template(item, what)
           project == Project(item)
           spec == SpecOf(item, what)
           of_group == GroupLevels(item, what)
<1> DEFINE g == GivenId(el)
           t == Param("template-name", Scalar(el.name.text))
           n == Param("name", Scalar(project.id))
           four == <<spec.params, n, project.params, el.params>>
           l1 == <<g, t>>
           l2 == OfDefaults(roots, picked)
           l3 == OfDefaults(roots, "global")
           l4 == <<el.axis_defaults>>
           a == l1 \o of_group
           b == a \o four
           c == b \o l2
           d == c \o l3
           e == d \o l4
<1>1. Levels(item, what) = e
    BY DEF Levels, OfDefaults, SpecOf, GroupLevels
<1>2. IsList(l1) /\ IsList(of_group) /\ IsList(four) /\ IsList(l2) /\ IsList(l3) /\ IsList(l4)
    BY SmallLists, FourLevels DEF OfDefaults, GroupLevels
<1>3. \A x : StrongestElse(four, p, x)
                 = ValueElse(spec.params, p, ValueElse(n, p, ValueElse(project.params, p, ValueElse(el.params, p, x))))
    BY FourLevels
<1>4. /\ \A x : StrongestElse(l1, p, x) = ValueElse(g, p, ValueElse(t, p, x))
      /\ \A x : StrongestElse(l4, p, x) = ValueElse(el.axis_defaults, p, x)
    BY OneLevel, TwoLevels
<1>5. \A x : ValueElse(PickDefaults(roots, picked).params, p, x)
                 = StrongestElse(l2, p, StrongestElse(l3, p, x))
    BY DefaultsElse
<1> DEFINE made == TemplateParams(PickDefaults(roots, picked), el, params)
<1>6. \A x : ValueElse(made, p, x)
                 = ValueElse(g, p, ValueElse(t, p, ValueElse(params, p,
                       ValueElse(el.params, p, ValueElse(PickDefaults(roots, picked).params, p, x)))))
    BY TemplateParamsElse
<1>7. ValueOf(made, el.axis_defaults, p) = ValueElse(made, p, ValueElse(el.axis_defaults, p, << >>))
    BY DEF ValueOf, ValueElse
<1>8. \A x : ValueElse(params, p, x)
                 = StrongestElse(of_group, p,
                       ValueElse(spec.params, p, ValueElse(n, p, ValueElse(project.params, p, x))))
    BY DEF Passed
<1> HIDE DEF l1, l2, l3, l4, four, g, t, n, made, of_group, spec, project, el
<1> DEFINE v4 == StrongestElse(l4, p, << >>)
           v3 == StrongestElse(l3, p, v4)
           v2 == StrongestElse(l2, p, v3)
           vp == StrongestElse(four, p, v2)
           vg == StrongestElse(of_group, p, vp)
<1>9. IsList(e) /\ InForce(item, what, p) = StrongestElse(l1, p, vg)
    <2>1. IsList(a) /\ StrongestElse(a, p, vp) = StrongestElse(l1, p, vg)
        <3> HIDE DEF vp
        <3> QED BY <1>2, ConcatLists, MoreLevels
    <2> HIDE DEF a, vg
    <2>2. IsList(b) /\ StrongestElse(b, p, v2) = StrongestElse(a, p, vp)
        <3> HIDE DEF v2
        <3> QED BY <1>2, <2>1, ConcatLists, MoreLevels
    <2> HIDE DEF b, vp
    <2>3. IsList(c) /\ StrongestElse(c, p, v3) = StrongestElse(b, p, v2)
        <3> HIDE DEF v3
        <3> QED BY <1>2, <2>2, ConcatLists, MoreLevels
    <2> HIDE DEF c, v2
    <2>4. IsList(d) /\ StrongestElse(d, p, v4) = StrongestElse(c, p, v3)
        <3> HIDE DEF v4
        <3> QED BY <1>2, <2>3, ConcatLists, MoreLevels
    <2> HIDE DEF d, v3
    <2>5. IsList(e) /\ StrongestElse(e, p, << >>) = StrongestElse(d, p, v4)
        BY <1>2, <2>4, ConcatLists, MoreLevels
    <2> HIDE DEF e, v4
    <2>6. InForce(item, what, p) = StrongestElse(e, p, << >>)
        BY <1>1, <2>5, LevelsElse DEF InForce
    <2> QED BY <2>1, <2>2, <2>3, <2>4, <2>5, <2>6
<1>10. v4 = ValueElse(el.axis_defaults, p, << >>)
    BY <1>4
<1> HIDE DEF v4
<1>11. v2 = ValueElse(PickDefaults(roots, picked).params, p, v4)
    BY <1>5
<1> HIDE DEF v3, v2
<1> DEFINE w == ValueElse(el.params, p, v2)
<1>12. vp = ValueElse(spec.params, p, ValueElse(n, p, ValueElse(project.params, p, w)))
    BY <1>3
<1> HIDE DEF w, vp
<1>13. vg = ValueElse(params, p, w)
    BY <1>8, <1>12
<1> HIDE DEF vg
<1>14. StrongestElse(l1, p, vg) = ValueElse(g, p, ValueElse(t, p, ValueElse(params, p, w)))
    BY <1>4, <1>13
<1>15. ValueElse(made, p, v4) = ValueElse(g, p, ValueElse(t, p, ValueElse(params, p, w)))
    BY <1>6, <1>11 DEF w
<1> HIDE DEF e
<1>16. InForce(item, what, p) = ValueOf(made, el.axis_defaults, p)
    BY <1>7, <1>9, <1>10, <1>14, <1>15
<1> QED BY <1>16 DEF made, el

LEMMA FoundUnderItsId ==
    ASSUME NEW rs, RootsShaped(rs), NEW kind \in Kinds, NEW name, Has(rs[kind], name)
    PROVE  LET el == Get(rs[kind], name) IN
           el.id = name /\ el.kind = kind /\ Shaped(el)
<1>1. IsList(rs[kind])
    BY DEF RootsShaped
<1>2. At(rs[kind], name) \in DOMAIN rs[kind] /\ Get(rs[kind], name).id = name
      /\ Get(rs[kind], name) = rs[kind][At(rs[kind], name)]
    BY <1>1, GetHas DEF Get
<1> QED BY <1>2 DEF RootsShaped

LEMMA TheOneOfItsId ==
    ASSUME NEW dict, IsList(dict), Distinct(dict), NEW i \in DOMAIN dict
    PROVE  Get(dict, dict[i].id) = dict[i]
<1> DEFINE id == dict[i].id
           k == At(dict, id)
<1>1. Has(dict, id) /\ k \in DOMAIN dict /\ Get(dict, id).id = id
    BY GetHas
<1>2. Get(dict, id) = dict[k]
    BY DEF Get
<1>3. dict[k].id = dict[i].id
    BY <1>1, <1>2
<1>4. k = i
    <2> HIDE DEF k
    <2> QED BY <1>1, <1>3 DEF Distinct
<1> QED BY <1>2, <1>4

(* An item of a template has the parameters in force where its context     *)
(* says it comes from.                                                     *)
LEMMA TemplatePriority ==
    ASSUME RootsShaped(roots), NEW what \in {"job", "view"}, NEW item,
           NEW params, Values(params), Passed(item, what, params),
           NEW name, Has(roots[TemplateOf[what]], name), Last(item.context) = name, NEW context,
           FromTemplate(roots, item, Get(roots[TemplateOf[what]], name), Project(item).defaults,
                        params, context)
    PROVE  Prioritised(item, what)
<1> DEFINE el == Get(roots[TemplateOf[what]], name)
           picked == IF Project(item).defaults # None THEN Project(item).defaults ELSE el.defaults
           made == TemplateParams(PickDefaults(roots, picked), el, params)
           kind == TemplateOf[what]
<1>1. kind \in Kinds /\ kind \in {TemplateOf["job"], TemplateOf["view"]}
    BY DEF Kinds, TemplateOf
<1>2. el.kind = kind /\ Shaped(el)
    <2>1. Has(roots[kind], name) /\ el = Get(roots[kind], name)
        OBVIOUS
    <2> HIDE DEF kind, el
    <2> QED BY <1>1, <2>1, FoundUnderItsId
<1>3. IsList(el.name.axes) /\ Values(el.axis_defaults)
    <2> HIDE DEF el, kind
    <2> QED BY <1>1, <1>2 DEF Shaped
<1>4. Template(item, what) = el
    BY DEF Template
<1>5. Values(made)
    <2> HIDE DEF el, picked
    <2> QED BY <1>2, ItemParamsValues
<1>6. \E q \in DOMAIN enum_dimensions_params(el.name.axes, made, el.axis_defaults) :
          item.params = Merge(made, enum_dimensions_params(el.name.axes, made, el.axis_defaults)[q])
    <2>1. FromTemplate(roots, item, el, Project(item).defaults, params, context)
        OBVIOUS
    <2> HIDE DEF el
    <2> QED BY <2>1 DEF FromTemplate
<1>7. ASSUME NEW p
      PROVE  InForce(item, what, p) = ValueOf(made, el.axis_defaults, p)
    <2> HIDE DEF el
    <2>1. picked = IF Project(item).defaults # None THEN Project(item).defaults
                   ELSE Template(item, what).defaults
        BY <1>4
    <2> HIDE DEF picked
    <2>2. InForce(item, what, p)
              = ValueOf(TemplateParams(PickDefaults(roots, picked), Template(item, what), params),
                        Template(item, what).axis_defaults, p)
        BY <2>1, LevelsInForce
    <2> QED BY <1>4, <2>2
<1> HIDE DEF made, el
<1> QED BY <1>3, <1>4, <1>5, <1>6, <1>7, ItemStands

(* The three places of a context, or the five of one with a group.         *)
LEMMA Contexts ==
    ASSUME NEW a, NEW b, NEW c, NEW d, NEW e
    PROVE  /\ LET s == Append(Append(<<a>>, b), c) IN
              Len(s) = 3 /\ s[1] = a /\ s[2] = b /\ Last(s) = c
           /\ LET s == Append(Append(Append(Append(<<a>>, b), c), d), e) IN
              Len(s) = 5 /\ s[1] = a /\ s[2] = b /\ s[3] = c /\ s[4] = d /\ Last(s) = e
BY DEF Last

LEMMA ItemPriority ==
    ASSUME RootsShaped(roots), Distinct(roots["project"]), NEW what \in {"job", "view"}, NEW keep,
           NEW item \in ToSet(GeneratedList(roots, what, keep)), item.ok, Len(item.context) > 1
    PROVE  Prioritised(item, what)
<1>1. PICK i \in DOMAIN roots["project"] : FromProject(roots, what, item, roots["project"][i])
    <2>1. \/ Len(item.context) = 1
          \/ \E i \in DOMAIN roots["project"] : FromProject(roots, what, item, roots["project"][i])
        BY GeneratedItem
    <2>2. Len(item.context) # 1
        <3> DEFINE n == Len(item.context)
        <3>1. n > 1
            OBVIOUS
        <3> HIDE DEF n
        <3>2. n = 1 => 1 > 1
            BY <3>1, Zenon
        <3>3. ~(1 > 1)
            OBVIOUS
        <3> QED BY <3>2, <3>3 DEF n
    <2> QED BY <2>1, <2>2
<1> DEFINE project == roots["project"][i]
           n == Param("name", Scalar(project.id))
<1>2. Get(roots["project"], project.id) = project /\ Shaped(project) /\ project.kind = "project"
    BY TheOneOfItsId DEF RootsShaped, Kinds
<1> HIDE DEF project
<1>3. Values(project.params) /\ Specs(project[what])
    BY <1>2 DEF Shaped
<1>4. PICK k \in DOMAIN project[what] :
          LET spec == project[what][k]
              templates == roots[TemplateOf[what]]
              groups == roots[GroupOf[what]]
              params == Merge(Merge(project.params, n), spec.params)
              context == Append(<<project.id>>, k)
          IN  \/ /\ Has(templates, spec.name)
                 /\ FromTemplate(roots, item, Get(templates, spec.name), project.defaults, params, context)
              \/ /\ Has(groups, spec.name)
                 /\ FromGroup(roots, what, item, Get(groups, spec.name), project.defaults, params, context)
    BY <1>1 DEF FromProject, project
<1> DEFINE spec == project[what][k]
           params == Merge(Merge(project.params, n), spec.params)
           context == Append(<<project.id>>, k)
<1>5. Values(spec.params) /\ Values(params)
    <2>1. Values(spec.params)
        BY <1>3 DEF Specs
    <2>2. Values(n)
        BY ScalarValues
    <2> HIDE DEF n, spec
    <2> QED BY <1>3, <2>1, <2>2, MergeValues
<1>6. ASSUME NEW p, NEW other
      PROVE  ValueElse(params, p, other)
                 = ValueElse(spec.params, p, ValueElse(n, p, ValueElse(project.params, p, other)))
    <2> HIDE DEF n, spec
    <2> QED BY MergeElse
<1> HIDE DEF spec, params
<1>7. CASE /\ Has(roots[TemplateOf[what]], spec.name)
           /\ FromTemplate(roots, item, Get(roots[TemplateOf[what]], spec.name), project.defaults,
                           params, context)
    <2> DEFINE name == spec.name
    <2> HIDE DEF name
    <2>1. Get(roots[TemplateOf[what]], name).id = name
        BY <1>7, FoundUnderItsId DEF name, Kinds, TemplateOf
    <2>2. item.context = Append(context, name)
        BY <1>7, <2>1 DEF FromTemplate, name
    <2>3. Len(item.context) = 3 /\ item.context[1] = project.id /\ item.context[2] = k
          /\ Last(item.context) = name
        BY <2>2, Contexts
    <2>4. Project(item) = project /\ SpecOf(item, what) = spec /\ GroupLevels(item, what) = << >>
        BY <1>2, <2>3 DEF Project, SpecOf, GroupLevels, spec
    <2>5. Passed(item, what, params)
        <3> HIDE DEF n
        <3>1. \A p, other :
                  ValueElse(params, p, other)
                      = StrongestElse(<< >>, p,
                            ValueElse(spec.params, p, ValueElse(n, p, ValueElse(project.params, p, other))))
            BY <1>6, NoLevels
        <3> QED BY <2>4, <3>1 DEF Passed, n
    <2>6. Has(roots[TemplateOf[what]], name)
          /\ FromTemplate(roots, item, Get(roots[TemplateOf[what]], name), Project(item).defaults,
                          params, context)
        BY <1>7, <2>4 DEF name
    <2> HIDE DEF context
    <2> QED BY <1>5, <2>3, <2>5, <2>6, TemplatePriority
<1>8. CASE /\ Has(roots[GroupOf[what]], spec.name)
           /\ FromGroup(roots, what, item, Get(roots[GroupOf[what]], spec.name), project.defaults,
                        params, context)
    <2> DEFINE group == Get(roots[GroupOf[what]], spec.name)
    <2>1. group.id = spec.name /\ group.kind = GroupOf[what] /\ Shaped(group)
        BY <1>8, FoundUnderItsId DEF Kinds, GroupOf
    <2>2. Specs(group.specs) /\ Values(group.params)
        <3>1. GroupOf[what] \in {GroupOf["job"], GroupOf["view"]}
            OBVIOUS
        <3> HIDE DEF group
        <3> QED BY <2>1, <3>1 DEF Shaped
    <2>3. Get(roots[GroupOf[what]], group.id) = group
        BY <2>1
    <2>4. FromGroup(roots, what, item, group, project.defaults, params, context)
        BY <1>8
    <2> HIDE DEF group
    <2>5. PICK j \in DOMAIN group.specs :
              /\ Has(roots[TemplateOf[what]], group.specs[j].name)
              /\ FromTemplate(roots, item, Get(roots[TemplateOf[what]], group.specs[j].name),
                              project.defaults, Merge(Merge(params, group.params), group.specs[j].params),
                              Append(Append(context, group.id), j))
        BY <2>4 DEF FromGroup
    <2> DEFINE inner == group.specs[j]
               all == Merge(Merge(params, group.params), inner.params)
               ctx == Append(Append(context, group.id), j)
               name == inner.name
               of_group == <<inner.params, group.params>>
    <2>6. Values(inner.params)
        BY <2>2 DEF Specs
    <2>7. Values(all)
        <3> HIDE DEF inner
        <3> QED BY <1>5, <2>2, <2>6, MergeValues
    <2>8. Get(roots[TemplateOf[what]], name).id = name
        BY <2>5, FoundUnderItsId DEF Kinds, TemplateOf
    <2>9. item.context = Append(ctx, name)
        BY <2>5, <2>8 DEF FromTemplate
    <2> HIDE DEF inner
    <2>10. Len(item.context) = 5 /\ item.context[1] = project.id /\ item.context[2] = k
           /\ item.context[3] = group.id /\ item.context[4] = j /\ Last(item.context) = name
        <3> HIDE DEF name
        <3> QED BY <2>9, Contexts
    <2>11. Project(item) = project /\ SpecOf(item, what) = spec
        BY <1>2, <2>10 DEF Project, SpecOf, spec
    <2>12. GroupLevels(item, what) = of_group
        BY <2>3, <2>10 DEF GroupLevels, inner
    <2>13. ASSUME NEW p, NEW other
           PROVE  ValueElse(all, p, other)
                      = StrongestElse(of_group, p,
                            ValueElse(spec.params, p, ValueElse(n, p, ValueElse(project.params, p, other))))
        <3> DEFINE x == ValueElse(spec.params, p, ValueElse(n, p, ValueElse(project.params, p, other)))
        <3>1. ValueElse(params, p, other) = x
            BY <1>6
        <3> HIDE DEF x
        <3>2. ValueElse(all, p, other) = ValueElse(inner.params, p, ValueElse(group.params, p, x))
            BY <3>1, MergeElse
        <3>3. StrongestElse(of_group, p, x) = ValueElse(inner.params, p, ValueElse(group.params, p, x))
            BY TwoLevels
        <3> QED BY <3>2, <3>3 DEF x
    <2>14. Passed(item, what, all)
        <3> HIDE DEF all, of_group
        <3> QED BY <2>11, <2>12, <2>13 DEF Passed
    <2>15. Has(roots[TemplateOf[what]], name)
           /\ FromTemplate(roots, item, Get(roots[TemplateOf[what]], name), Project(item).defaults,
                           all, ctx)
        BY <2>5, <2>11 DEF inner
    <2> HIDE DEF of_group, all, ctx, name
    <2> QED BY <2>7, <2>10, <2>14, <2>15, TemplatePriority
<1> QED BY <1>4, <1>7, <1>8 DEF spec, params

-----------------------------------------------------------------------------
(* The invariant: no two projects have one id, and what is generated comes *)
(* from the containers as they still are.                                  *)
ProjectsOnce == Distinct(roots["project"])

AreGenerated ==
    outcome = "generated" =>
        /\ \A n \in DOMAIN jobs :
               /\ jobs[n] \in ToSet(GeneratedList(roots, "job", yamlparser.keep_descriptions))
               /\ jobs[n].ok
        /\ \A n \in DOMAIN views :
               /\ views[n] \in ToSet(GeneratedList(roots, "view", yamlparser.keep_descriptions))
               /\ views[n].ok

PriorityInv == Inv /\ ProjectsOnce /\ AreGenerated

LEMMA AssignedDistinct ==
    ASSUME NEW dict, IsList(dict), Distinct(dict), NEW value
    PROVE  Distinct(Assigned(dict, value))
<1>1. Len(dict) \in Nat /\ DOMAIN dict = 1..Len(dict)
    BY ListFacts
<1>2. CASE Has(dict, value.id)
    <2> DEFINE k == At(dict, value.id)
               new == [dict EXCEPT ![k] = value]
    <2>1. Assigned(dict, value) = new
        BY <1>2 DEF Assigned, ReplaceAt
    <2>2. k \in DOMAIN dict /\ dict[k].id = value.id
        BY <1>2, GetHas DEF Get
    <2> HIDE DEF k
    <2>3. DOMAIN new = DOMAIN dict /\ \A i \in DOMAIN new : new[i].id = dict[i].id
        BY <2>2
    <2> HIDE DEF new
    <2> QED BY <2>1, <2>3 DEF Distinct
<1>3. CASE ~Has(dict, value.id)
    <2> DEFINE new == Append(dict, value)
    <2>1. Assigned(dict, value) = new
        BY <1>3 DEF Assigned
    <2>2. dict \in Seq(ToSet(dict) \cup {value})
        BY DEF IsList
    <2>3. DOMAIN new = 1..(Len(dict) + 1)
          /\ new[Len(dict) + 1] = value /\ \A i \in 1..Len(dict) : new[i] = dict[i]
        BY <2>2
    <2>4. \A i \in DOMAIN dict : dict[i].id # value.id
        BY <1>3, GetHas
    <2> HIDE DEF new
    <2>5. ASSUME NEW i \in DOMAIN new, NEW j \in DOMAIN new, new[i].id = new[j].id
          PROVE  i = j
        <3>1. (i \in DOMAIN dict \/ i = Len(dict) + 1) /\ (j \in DOMAIN dict \/ j = Len(dict) + 1)
            BY <1>1, <2>3
        <3>2. CASE i \in DOMAIN dict /\ j \in DOMAIN dict
            BY <1>1, <2>3, <2>5, <3>2 DEF Distinct
        <3>3. CASE i \notin DOMAIN dict \/ j \notin DOMAIN dict
            BY <1>1, <2>3, <2>4, <2>5, <3>1, <3>3
        <3> QED BY <3>2, <3>3
    <2> QED BY <2>1, <2>5 DEF Distinct
<1> QED BY <1>2, <1>3

(* Elements are added one at a time, each to the container of its kind.    *)
LEMMA AddsAtMostItsItem ==
    AddItem /\ roots' # roots
        => roots' = [roots EXCEPT ![Head(items).kind] = Assigned(@, Head(items))]
<1> SUFFICES ASSUME AddItem, roots' # roots
             PROVE  roots' = [roots EXCEPT ![Head(items).kind] = Assigned(@, Head(items))]
    OBVIOUS
<1> QED BY Zenon DEF AddItem

LEMMA ProjectsStayOnce ==
    ASSUME Inv, ProjectsOnce, [Next]_vars
    PROVE  ProjectsOnce'
<1>1. CASE roots' = roots
    BY <1>1 DEF ProjectsOnce, Distinct
<1>2. CASE AddItem /\ roots' # roots
    <2> DEFINE item == Head(items)
               dict == roots["project"]
    <2>1. roots' = [roots EXCEPT ![item.kind] = Assigned(@, item)]
        BY <1>2, AddsAtMostItsItem
    <2>2. roots'["project"] = dict \/ roots'["project"] = Assigned(dict, item)
        BY <2>1 DEF Inv, Kinds
    <2>3. IsList(dict)
        BY DEF Inv, RootsShaped, Kinds
    <2>4. Distinct(dict)
        BY DEF ProjectsOnce
    <2> HIDE DEF item, dict
    <2>5. Distinct(Assigned(dict, item))
        BY <2>3, <2>4, AssignedDistinct
    <2>6. Distinct(roots'["project"])
        BY <2>2, <2>4, <2>5
    <2> QED BY <2>6 DEF ProjectsOnce, Distinct
<1>3. CASE NextPath
    BY <1>1, <1>3 DEF NextPath
<1>4. ASSUME NEW path \in listing, NextOfDirectory(path)
      PROVE  roots' = roots
    BY <1>4 DEF NextOfDirectory
<1>5. CASE Generate
    <2>1. roots' = roots
        BY <1>5 DEF Generate
    <2> QED BY <1>1, <2>1
<1>6. CASE UNCHANGED vars
    BY <1>1, <1>6 DEF vars
<1> QED BY <1>1, <1>2, <1>3, <1>4, <1>5, <1>6 DEF Next

(* What is kept of a list without failures.                                *)
LEMMA KeptAreSound ==
    ASSUME NEW list, IsList(list), ~Fails(list), NEW n \in DOMAIN RemoveDuplicates(list)
    PROVE  RemoveDuplicates(list)[n] \in ToSet(list) /\ RemoveDuplicates(list)[n].ok
<1> DEFINE X == ToSet(list)
           kept == RemoveDuplicates(list)
<1>1. list \in Seq(X)
    BY DEF IsList
<1>2. \A e \in X : e.ok
    BY DEF Fails, ToSet
<1> HIDE DEF X
<1>3. Len(list) \in Nat /\ 1 \in 1..(Len(list) + 1)
    BY <1>1
<1>4. kept \in Seq(X)
    <2>1. PICK r : /\ r \in [1..(Len(list) + 1) -> Seq(X)]
                   /\ kept = r[1]
        BY <1>1, RemoveDuplicatesSteps
    <2> HIDE DEF kept
    <2> QED BY <1>3, <2>1
<1> HIDE DEF kept
<1>5. n \in DOMAIN kept
    BY DEF kept
<1>6. kept[n] \in X
    BY <1>4, <1>5
<1> QED BY <1>2, <1>6 DEF X, kept

LEMMA StayGenerated ==
    ASSUME Inv, AreGenerated, [Next]_vars
    PROVE  AreGenerated'
<1> SUFFICES ASSUME outcome' = "generated"
             PROVE  AreGenerated'
    BY DEF AreGenerated
<1> DEFINE list(what) == GeneratedList(roots, what, yamlparser.keep_descriptions)
           after(what) == GeneratedList(roots', what, yamlparser'.keep_descriptions)
           both == [what \in {"job", "view"} |-> list(what)]
<1>1. roots' = roots /\ yamlparser' = yamlparser
    <2>1. CASE Generate
        BY <2>1 DEF Generate
    <2>2. CASE ~Generate
        BY <2>2, OnlyGenerateGenerates
    <2> QED BY <2>1, <2>2
<1>2. \A what : after(what) = list(what)
    BY <1>1
<1>3. /\ \A n \in DOMAIN jobs' : jobs'[n] \in ToSet(list("job")) /\ jobs'[n].ok
      /\ \A n \in DOMAIN views' : views'[n] \in ToSet(list("view")) /\ views'[n].ok
    <2>1. CASE Generate
        <3>1. \A what \in {"job", "view"} : IsList(list(what))
            BY GeneratedIsList DEF Inv
        <3> HIDE DEF list
        <3>2. DOMAIN both = {"job", "view"} /\ both["job"] = list("job") /\ both["view"] = list("view")
            OBVIOUS
        <3> HIDE DEF both
        <3>3. IF \E what \in DOMAIN both : Fails(both[what])
              THEN outcome' = "cannot generate" /\ UNCHANGED <<jobs, views>>
              ELSE IF /\ ~yamlparser.allow_duplicates
                      /\ \E what \in DOMAIN both : HasDuplicates(both[what])
              THEN outcome' = "duplicate" /\ UNCHANGED <<jobs, views>>
              ELSE /\ jobs' = RemoveDuplicates(both["job"])
                   /\ views' = RemoveDuplicates(both["view"])
                   /\ outcome' = "generated"
            BY <2>1 DEF Generate, both, list
        <3>4. /\ ~Fails(list("job")) /\ jobs' = RemoveDuplicates(list("job"))
              /\ ~Fails(list("view")) /\ views' = RemoveDuplicates(list("view"))
            BY <3>2, <3>3
        <3> QED BY <3>1, <3>4, KeptAreSound
    <2>2. CASE ~Generate
        <3>1. UNCHANGED <<jobs, views, outcome>>
            BY <2>2, OnlyGenerateGenerates
        <3>2. /\ \A n \in DOMAIN jobs : jobs[n] \in ToSet(list("job")) /\ jobs[n].ok
              /\ \A n \in DOMAIN views : views[n] \in ToSet(list("view")) /\ views[n].ok
            BY <3>1 DEF AreGenerated
        <3> HIDE DEF list
        <3> QED BY <3>1, <3>2
    <2> QED BY <2>1, <2>2
<1>4. /\ \A n \in DOMAIN jobs' : jobs'[n] \in ToSet(after("job")) /\ jobs'[n].ok
      /\ \A n \in DOMAIN views' : views'[n] \in ToSet(after("view")) /\ views'[n].ok
    <2> HIDE DEF list, after
    <2> QED BY <1>2, <1>3
<1> QED BY <1>4 DEF AreGenerated

LEMMA PriorityHolds == PriorityInv => PriorityOfParameters
<1> SUFFICES ASSUME PriorityInv, outcome = "generated"
             PROVE  /\ \A n \in DOMAIN jobs : Len(jobs[n].context) > 1 => Prioritised(jobs[n], "job")
                    /\ \A n \in DOMAIN views : Len(views[n].context) > 1 => Prioritised(views[n], "view")
    BY DEF PriorityOfParameters
<1>1. RootsShaped(roots) /\ Distinct(roots["project"])
    BY DEF PriorityInv, Inv, ProjectsOnce
<1> DEFINE keep == yamlparser.keep_descriptions
<1>2. /\ \A n \in DOMAIN jobs : jobs[n] \in ToSet(GeneratedList(roots, "job", keep)) /\ jobs[n].ok
      /\ \A n \in DOMAIN views : views[n] \in ToSet(GeneratedList(roots, "view", keep)) /\ views[n].ok
    BY DEF PriorityInv, AreGenerated
<1> HIDE DEF keep
<1>3. ASSUME NEW n \in DOMAIN jobs, Len(jobs[n].context) > 1
      PROVE  Prioritised(jobs[n], "job")
    <2> DEFINE item == jobs[n]
               what == "job"
    <2>1. item \in ToSet(GeneratedList(roots, what, keep)) /\ item.ok /\ Len(item.context) > 1
          /\ what \in {"job", "view"}
        BY <1>2, <1>3
    <2> HIDE DEF item, what
    <2>2. Prioritised(item, what)
        BY <1>1, <2>1, ItemPriority
    <2> QED BY <2>2 DEF item, what
<1>4. ASSUME NEW n \in DOMAIN views, Len(views[n].context) > 1
      PROVE  Prioritised(views[n], "view")
    <2> DEFINE item == views[n]
               what == "view"
    <2>1. item \in ToSet(GeneratedList(roots, what, keep)) /\ item.ok /\ Len(item.context) > 1
          /\ what \in {"job", "view"}
        BY <1>2, <1>4
    <2> HIDE DEF item, what
    <2>2. Prioritised(item, what)
        BY <1>1, <2>1, ItemPriority
    <2> QED BY <2>2 DEF item, what
<1> QED BY <1>3, <1>4

(* In every state of every run, each parameter of an item that a project   *)
(* generates has the value of the strongest level that gives it one, or    *)
(* the one that a point at which the item stands says, whatever the levels *)
(* say, whatever points the axes have and in whatever order the axes are   *)
(* (root_base.py:124-160, 190-260; dimensions.py:50-78).                   *)
THEOREM ParametersByPriority == Spec => []PriorityOfParameters
<1>1. WellFormed /\ Init => PriorityInv
    <2> SUFFICES ASSUME WellFormed, Init
                 PROVE  PriorityInv
        OBVIOUS
    <2>1. roots["project"] = << >> /\ outcome # "generated"
        BY DEF Init, NoRoots, Kinds
    <2>2. ProjectsOnce
        BY <2>1 DEF ProjectsOnce, Distinct
    <2>3. AreGenerated
        BY <2>1 DEF AreGenerated
    <2> QED BY <2>2, <2>3, InitInv DEF PriorityInv
<1>2. PriorityInv /\ [Next]_vars => PriorityInv'
    BY NextInv, ProjectsStayOnce, StayGenerated DEF PriorityInv
<1>3. PriorityInv => PriorityOfParameters
    BY PriorityHolds
<1> QED BY <1>1, <1>2, <1>3, PTL DEF Spec
=============================================================================
