------------------------------ MODULE ImportProof ----------------------------
(***************************************************************************)
(* Proofs about module Import, for files of any number of lines.           *)
(*                                                                         *)
(* The model computes with recursive functions, so the proofs go by        *)
(* induction along a sequence (Steps, Recursion): what is known of the     *)
(* texts of lines, of the items of a job and of the inputs of a file is    *)
(* carried from one line to the next.  Lines with equal keys hold the same *)
(* numbers (EqualKeys), so jobs whose lines have the keys of the file's    *)
(* lines import the file (PartsImport).                                    *)
(***************************************************************************)
EXTENDS Import, FiniteSetTheorems, TLAPS

-----------------------------------------------------------------------------
(* Induction along an interval.  The library's theorems on induction take  *)
(* an operator, which no backend can instantiate; well-foundedness of the  *)
(* strict inclusion of finite sets is stated of a relation, and gives the  *)
(* least element of a set of numbers.                                      *)
LEMMA Least ==
  ASSUME NEW T \in SUBSET Nat, T # {}
  PROVE  \E m \in T : \A k \in T : m <= k
<1>. DEFINE F == {1 .. m : m \in T}
            S == FiniteSubsetsOf(Nat)
            R == StrictSubsetOrdering(Nat)
<1>1. F \subseteq S
  <2>. SUFFICES ASSUME NEW m \in T PROVE 1 .. m \in FiniteSubsetsOf(Nat)
    OBVIOUS
  <2>1. IsFiniteSet(1 .. m)
    BY FS_Interval
  <2>. QED
    BY <2>1 DEF FiniteSubsetsOf
<1>2. IsWellFoundedOn(R, S)
  BY FS_StrictSubsetOrderingWellFounded
<1>3. \E x \in F : \A y \in F : <<y, x>> \notin R
  <2>1. F # {}
    OBVIOUS
  <2>. HIDE DEF F, S, R
  <2>. QED
    BY <1>1, <1>2, <2>1, WFMin, Zenon
<1>4. PICK m \in T : \A k \in T : <<1 .. k, 1 .. m>> \notin R
  BY <1>3
<1>5. ASSUME NEW k \in T, k < m
      PROVE  FALSE
  <2>1. /\ 1 .. k \subseteq 1 .. m /\ 1 .. k # 1 .. m
        /\ 1 .. k \in SUBSET Nat /\ 1 .. m \in SUBSET Nat
    <3>1. m \in 1 .. m /\ m \notin 1 .. k
      BY <1>5
    <3>. QED
      BY <1>5, <3>1
  <2>2. <<1 .. k, 1 .. m>> \notin StrictSubsetOrdering(Nat)
    BY <1>4
  <2>. DEFINE a == 1 .. k
              b == 1 .. m
  <2>3. a \subseteq b /\ a # b /\ a \in SUBSET Nat /\ b \in SUBSET Nat
    BY <2>1
  <2>. HIDE DEF a, b
  <2>4. <<a, b>> \in StrictSubsetOrdering(Nat)
    BY <2>3 DEF StrictSubsetOrdering
  <2>. QED
    BY <2>2, <2>4 DEF a, b
<1>. QED
  BY <1>5

LEMMA Steps ==
  ASSUME NEW n \in Nat, NEW T, 0 \in T, \A i \in 1 .. n : i - 1 \in T => i \in T
  PROVE  \A i \in 0 .. n : i \in T
<1>. DEFINE Out == {i \in 0 .. n : i \notin T}
<1>. SUFFICES ASSUME Out # {} PROVE FALSE
  OBVIOUS
<1>1. Out \in SUBSET Nat
  OBVIOUS
<1>2. PICK m \in Out : \A k \in Out : m <= k
  <2>. HIDE DEF Out
  <2>. QED
    BY <1>1, Least
<1>3. m \in 1 .. n /\ m - 1 \in 0 .. n /\ m - 1 \notin Out /\ m \notin T
  BY <1>2
<1>. QED
  BY <1>3

(* A function on an interval that is defined by recursion exists.          *)
StepsOf(F, n, X) == n \in Nat /\ F \in [1 .. n -> [X -> X]]

FollowsSteps(g, base, F, n, X) ==
  /\ g \in [0 .. n -> X]
  /\ g[0] = base /\ \A i \in 1 .. n : g[i] = F[i][g[i - 1]]

LEMMA Recursion ==
  ASSUME NEW X, NEW base \in X, NEW n, NEW F, StepsOf(F, n, X)
  PROVE  \E g : FollowsSteps(g, base, F, n, X)
<1>. DEFINE G(m) == \E g \in [0 .. m -> X] :
                       g[0] = base /\ \A i \in 1 .. m : g[i] = F[i][g[i - 1]]
            T == {m \in 0 .. n : G(m)}
<1>0. n \in Nat /\ F \in [1 .. n -> [X -> X]]
  BY DEF StepsOf
<1>1. G(0)
  <2>. DEFINE g == [i \in 0 .. 0 |-> base]
  <2>1. g \in [0 .. 0 -> X] /\ g[0] = base /\ 1 .. 0 = {}
    OBVIOUS
  <2>. QED
    BY <2>1
<1>2. ASSUME NEW m \in 1 .. n, G(m - 1)
      PROVE  G(m)
  <2>0. m \in Nat \ {0}
    BY <1>0
  <2>1. PICK g \in [0 .. m - 1 -> X] :
               g[0] = base /\ \A i \in 1 .. m - 1 : g[i] = F[i][g[i - 1]]
    BY <1>2
  <2>. DEFINE h == [i \in 0 .. m |-> IF i = m THEN F[m][g[m - 1]] ELSE g[i]]
  <2>2. F[m][g[m - 1]] \in X
    BY <1>0, <2>1
  <2>3. h \in [0 .. m -> X]
    BY <2>0, <2>1, <2>2
  <2>4. h[0] = base /\ \A i \in 1 .. m : h[i] = F[i][h[i - 1]]
    BY <2>0, <2>1
  <2>. QED
    BY <2>3, <2>4
<1>. HIDE DEF G
<1>3. 0 \in T /\ \A i \in 1 .. n : i - 1 \in T => i \in T
  BY <1>0, <1>1, <1>2
<1>4. \A i \in 0 .. n : i \in T
  <2>. HIDE DEF T
  <2>. QED
    BY <1>0, <1>3, Steps
<1>5. n \in 0 .. n
  BY <1>0
<1>6. G(n)
  BY <1>4, <1>5
<1>. QED
  BY <1>6 DEF G, FollowsSteps

-----------------------------------------------------------------------------
(* The texts of lines, one line after the other.                           *)
LEMMA NothingBefore ==
  ASSUME NEW S, NEW s \in Seq(S)
  PROVE  <<>> \o s = s
OBVIOUS

LEMMA Concatenations ==
  ASSUME NEW S, NEW lines \in Seq(Seq(S))
  PROVE  \E g \in [0 .. Len(lines) -> Seq(S)] :
           g[0] = <<>> /\ \A i \in 1 .. Len(lines) : g[i] = g[i - 1] \o lines[i]
<1>. DEFINE n == Len(lines)
            X == Seq(S)
            base == <<>>
            F == [i \in 1 .. n |-> [x \in X |-> x \o lines[i]]]
<1>1. base \in X /\ StepsOf(F, n, X)
  BY DEF StepsOf
<1>2. \E g : FollowsSteps(g, base, F, n, X)
  <2>. HIDE DEF F, X, base, n
  <2>. QED
    BY <1>1, Recursion
<1>3. PICK g \in [0 .. n -> X] :
        g[0] = base /\ \A i \in 1 .. n : g[i] = F[i][g[i - 1]]
  BY <1>2 DEF FollowsSteps
<1>4. ASSUME NEW i \in 1 .. n
      PROVE  g[i] = g[i - 1] \o lines[i]
  <2>1. i - 1 \in 0 .. n
    OBVIOUS
  <2>2. g[i - 1] \in X
    BY <2>1
  <2>. QED
    BY <1>3, <2>2
<1>. QED
  BY <1>3, <1>4

LEMMA Flattening ==
  ASSUME NEW S, NEW lines \in Seq(Seq(S))
  PROVE  \E g \in [0 .. Len(lines) -> Seq(S)] :
           /\ g[0] = <<>> /\ \A i \in 1 .. Len(lines) : g[i] = g[i - 1] \o lines[i]
           /\ FlattenSeq(lines) = g[Len(lines)]
<1>1. CASE Len(lines) = 0
  <2>. DEFINE g == [i \in 0 .. Len(lines) |-> <<>>]
  <2>1. g \in [0 .. Len(lines) -> Seq(S)] /\ g[0] = <<>> /\ 1 .. Len(lines) = {}
    BY <1>1
  <2>2. FlattenSeq(lines) = <<>> /\ g[Len(lines)] = <<>>
    BY <1>1 DEF FlattenSeq
  <2>. QED
    BY <2>1, <2>2
<1>2. CASE Len(lines) # 0
  <2>0. /\ Len(lines) \in Nat \ {0} /\ Len(lines) \in 1 .. Len(lines)
        /\ \A i \in 1 .. Len(lines) : lines[i] \in Seq(S)
    BY <1>2
  <2>1. PICK g \in [0 .. Len(lines) -> Seq(S)] :
          g[0] = <<>> /\ \A i \in 1 .. Len(lines) : g[i] = g[i - 1] \o lines[i]
    BY Concatenations
  <2>. DEFINE Rule(f) == [i \in 1 .. Len(lines) |->
                            IF i = 1 THEN lines[i] ELSE f[i - 1] \o lines[i]]
              h == [i \in 1 .. Len(lines) |-> g[i]]
  <2>2. ASSUME NEW i \in 1 .. Len(lines)
        PROVE  g[i] = IF i = 1 THEN lines[i] ELSE h[i - 1] \o lines[i]
    <3>1. CASE i = 1
      <4>1. i - 1 = 0 /\ lines[i] \in Seq(S)
        BY <2>0, <3>1
      <4>2. g[i] = <<>> \o lines[i]
        BY <2>1, <4>1
      <4>. QED
        BY <3>1, <4>1, <4>2, NothingBefore
    <3>2. CASE i # 1
      <4>1. i - 1 \in 1 .. Len(lines)
        BY <2>0, <3>2
      <4>2. h[i - 1] = g[i - 1]
        BY <4>1
      <4>. HIDE DEF h
      <4>. QED
        BY <2>1, <3>2, <4>2
    <3>. QED
      BY <3>1, <3>2
  <2>3. h = Rule(h)
    BY <2>2
  <2>. DEFINE flatten == CHOOSE f : f = Rule(f)
  <2>4. flatten = Rule(flatten)
    <3>. HIDE DEF Rule, h
    <3>. QED
      BY <2>3
  <2>5. FlattenSeq(lines) = flatten[Len(lines)]
    BY <1>2 DEF FlattenSeq
  <2>. HIDE DEF flatten, h
  <2>6. \A i \in 1 .. Len(lines) :
          flatten[i] = IF i = 1 THEN lines[i] ELSE flatten[i - 1] \o lines[i]
    BY <2>4
  <2>. HIDE DEF Rule
  <2>7. \A i \in 0 .. Len(lines) : i # 0 => flatten[i] = g[i]
    <3>. DEFINE T == {i \in 0 .. Len(lines) : i # 0 => flatten[i] = g[i]}
    <3>1. 0 \in T
      BY <2>0
    <3>2. ASSUME NEW i \in 1 .. Len(lines), i - 1 \in T
          PROVE  flatten[i] = g[i]
      <4>1. CASE i = 1
        <5>1. i - 1 = 0 /\ lines[i] \in Seq(S) /\ flatten[i] = lines[i]
          BY <2>0, <2>6, <4>1
        <5>2. g[i] = <<>> \o lines[i]
          BY <2>1, <5>1
        <5>. QED
          BY <5>1, <5>2, NothingBefore
      <4>2. CASE i # 1
        <5>1. i - 1 # 0
          BY <4>2
        <5>2. flatten[i - 1] = g[i - 1]
          BY <3>2, <5>1
        <5>. QED
          BY <2>1, <2>6, <4>2, <5>2
      <4>. QED
        BY <4>1, <4>2
    <3>3. \A i \in 1 .. Len(lines) : i - 1 \in T => i \in T
      BY <3>2
    <3>4. \A i \in 0 .. Len(lines) : i \in T
      <4>. HIDE DEF T
      <4>. QED
        BY <2>0, <3>1, <3>3, Steps
    <3>. QED
      BY <3>4
  <2>8. FlattenSeq(lines) = g[Len(lines)]
    BY <2>0, <2>5, <2>7
  <2>. QED
    BY <2>1, <2>8
<1>. QED
  BY <1>1, <1>2

LEMMA ConcatElements ==
  ASSUME NEW S, NEW a \in Seq(S), NEW b \in Seq(S)
  PROVE  /\ Len(a \o b) = Len(a) + Len(b)
         /\ \A i \in 1 .. Len(a) : (a \o b)[i] = a[i]
         /\ \A i \in 1 .. Len(b) : (a \o b)[Len(a) + i] = b[i]
OBVIOUS

LEMMA ConcatToSet ==
  ASSUME NEW S, NEW a \in Seq(S), NEW b \in Seq(S)
  PROVE  ToSet(a \o b) = ToSet(a) \cup ToSet(b)
<1>1. /\ a \o b \in Seq(S) /\ Len(a \o b) = Len(a) + Len(b)
      /\ Len(a) \in Nat /\ Len(b) \in Nat
      /\ DOMAIN a = 1 .. Len(a) /\ DOMAIN b = 1 .. Len(b)
      /\ DOMAIN (a \o b) = 1 .. Len(a) + Len(b)
  OBVIOUS
<1>2. ASSUME NEW i \in 1 .. Len(a) + Len(b)
      PROVE  (a \o b)[i] \in ToSet(a) \cup ToSet(b)
  <2>1. CASE i <= Len(a)
    <3>1. (a \o b)[i] = a[i] /\ i \in DOMAIN a
      BY <1>1, <2>1
    <3>. QED
      BY <3>1 DEF ToSet
  <2>2. CASE i > Len(a)
    <3>1. (a \o b)[i] = b[i - Len(a)] /\ i - Len(a) \in DOMAIN b
      BY <1>1, <2>2
    <3>. QED
      BY <3>1 DEF ToSet
  <2>. QED
    BY <1>1, <2>1, <2>2
<1>3. ASSUME NEW i \in 1 .. Len(a)
      PROVE  a[i] \in ToSet(a \o b)
  <2>1. (a \o b)[i] = a[i] /\ i \in DOMAIN (a \o b)
    BY <1>1
  <2>. QED
    BY <2>1 DEF ToSet
<1>4. ASSUME NEW i \in 1 .. Len(b)
      PROVE  b[i] \in ToSet(a \o b)
  <2>1. (a \o b)[Len(a) + i] = b[i] /\ Len(a) + i \in DOMAIN (a \o b)
    BY <1>1
  <2>. QED
    BY <2>1 DEF ToSet
<1>5. ToSet(a \o b) \subseteq ToSet(a) \cup ToSet(b)
  <2>1. \A x \in ToSet(a \o b) : \E i \in 1 .. Len(a) + Len(b) : x = (a \o b)[i]
    BY <1>1 DEF ToSet
  <2>. QED
    BY <1>2, <2>1
<1>6. ToSet(a) \cup ToSet(b) \subseteq ToSet(a \o b)
  <2>1. /\ \A x \in ToSet(a) : \E i \in 1 .. Len(a) : x = a[i]
        /\ \A x \in ToSet(b) : \E i \in 1 .. Len(b) : x = b[i]
    BY <1>1 DEF ToSet
  <2>. QED
    BY <1>3, <1>4, <2>1
<1>. QED
  BY <1>5, <1>6

LEMMA FlatTexts ==
  ASSUME NEW S, NEW lines \in Seq(Seq(S))
  PROVE  /\ FlattenSeq(lines) \in Seq(S)
         /\ ToSet(FlattenSeq(lines)) = UNION {ToSet(lines[k]) : k \in 1 .. Len(lines)}
<1>1. PICK g \in [0 .. Len(lines) -> Seq(S)] :
        /\ g[0] = <<>> /\ \A i \in 1 .. Len(lines) : g[i] = g[i - 1] \o lines[i]
        /\ FlattenSeq(lines) = g[Len(lines)]
  BY Flattening
<1>2. /\ Len(lines) \in Nat /\ Len(lines) \in 0 .. Len(lines)
      /\ \A i \in 1 .. Len(lines) : lines[i] \in Seq(S) /\ i - 1 \in 0 .. Len(lines)
  OBVIOUS
<1>. DEFINE TextsTo(i) == UNION {ToSet(lines[k]) : k \in 1 .. i}
            T == {i \in 0 .. Len(lines) : ToSet(g[i]) = TextsTo(i)}
<1>3. 0 \in T
  <2>1. ToSet(g[0]) = {} /\ 1 .. 0 = {}
    BY <1>1 DEF ToSet
  <2>. QED
    BY <1>2, <2>1
<1>4. ASSUME NEW i \in 1 .. Len(lines), i - 1 \in T
      PROVE  i \in T
  <2>1. ToSet(g[i]) = ToSet(g[i - 1]) \cup ToSet(lines[i])
    <3>1. g[i - 1] \in Seq(S) /\ lines[i] \in Seq(S) /\ g[i] = g[i - 1] \o lines[i]
      BY <1>1, <1>2
    <3>. QED
      BY <3>1, ConcatToSet
  <2>2. 1 .. i = (1 .. i - 1) \cup {i}
    BY <1>2
  <2>3. TextsTo(i) = TextsTo(i - 1) \cup ToSet(lines[i])
    BY <2>2, Zenon
  <2>4. ToSet(g[i - 1]) = TextsTo(i - 1)
    BY <1>4
  <2>5. ToSet(g[i]) = TextsTo(i)
    BY <2>1, <2>3, <2>4, Zenon
  <2>. QED
    BY <1>2, <2>5
<1>5. \A i \in 0 .. Len(lines) : i \in T
  <2>. HIDE DEF T
  <2>. QED
    BY <1>2, <1>3, <1>4, Steps
<1>. QED
  BY <1>1, <1>2, <1>5

LEMMA FlatSingles ==
  ASSUME NEW S, NEW lines \in Seq(Seq(S)), \A i \in 1 .. Len(lines) : Len(lines[i]) = 1
  PROVE  /\ Len(FlattenSeq(lines)) = Len(lines)
         /\ \A i \in 1 .. Len(lines) : FlattenSeq(lines)[i] = lines[i][1]
<1>1. PICK g \in [0 .. Len(lines) -> Seq(S)] :
        /\ g[0] = <<>> /\ \A i \in 1 .. Len(lines) : g[i] = g[i - 1] \o lines[i]
        /\ FlattenSeq(lines) = g[Len(lines)]
  BY Flattening
<1>2. /\ Len(lines) \in Nat /\ Len(lines) \in 0 .. Len(lines)
      /\ \A i \in 1 .. Len(lines) : lines[i] \in Seq(S) /\ i - 1 \in 0 .. Len(lines)
  OBVIOUS
<1>. DEFINE Firsts(i) == Len(g[i]) = i /\ \A k \in 1 .. i : g[i][k] = lines[k][1]
            T == {i \in 0 .. Len(lines) : Firsts(i)}
<1>3. 0 \in T
  BY <1>1, <1>2
<1>4. ASSUME NEW i \in 1 .. Len(lines), i - 1 \in T
      PROVE  i \in T
  <2>1. g[i - 1] \in Seq(S) /\ lines[i] \in Seq(S) /\ g[i] = g[i - 1] \o lines[i]
    BY <1>1, <1>2
  <2>2. Len(g[i - 1]) = i - 1 /\ Len(lines[i]) = 1 /\ i \in Nat \ {0}
    BY <1>2, <1>4
  <2>3. /\ Len(g[i]) = Len(g[i - 1]) + Len(lines[i])
        /\ \A k \in 1 .. Len(g[i - 1]) : g[i][k] = g[i - 1][k]
        /\ \A k \in 1 .. Len(lines[i]) : g[i][Len(g[i - 1]) + k] = lines[i][k]
    <3>. DEFINE a == g[i - 1]
                b == lines[i]
    <3>1. a \in Seq(S) /\ b \in Seq(S) /\ g[i] = a \o b
      BY <2>1
    <3>. HIDE DEF a, b
    <3>2. /\ Len(g[i]) = Len(a) + Len(b)
          /\ \A k \in 1 .. Len(a) : g[i][k] = a[k]
          /\ \A k \in 1 .. Len(b) : g[i][Len(a) + k] = b[k]
      BY <3>1, ConcatElements
    <3>. QED
      BY <3>2 DEF a, b
  <2>5. Len(g[i]) = i
    BY <2>2, <2>3
  <2>4. ASSUME NEW k \in 1 .. i
        PROVE  g[i][k] = lines[k][1]
    <3>1. CASE k = i
      <4>1. g[i][i - 1 + 1] = lines[i][1] /\ i - 1 + 1 = i
        BY <2>2, <2>3
      <4>. QED
        BY <3>1, <4>1
    <3>2. CASE k # i
      <4>1. k \in 1 .. i - 1
        BY <2>2, <3>2
      <4>2. g[i][k] = g[i - 1][k]
        BY <2>2, <2>3, <4>1
      <4>. QED
        BY <1>4, <4>1, <4>2
    <3>. QED
      BY <3>1, <3>2
  <2>. QED
    BY <1>2, <2>4, <2>5
<1>5. \A i \in 0 .. Len(lines) : i \in T
  <2>. HIDE DEF T
  <2>. QED
    BY <1>2, <1>3, <1>4, Steps
<1>. QED
  BY <1>1, <1>2, <1>5

-----------------------------------------------------------------------------
(* The items of a job.                                                     *)
Distinct(s) == \A i, j \in 1 .. Len(s) : s[i] = s[j] => i = j

LEMMA Appended ==
  ASSUME NEW S, NEW s \in Seq(S), NEW e \in S
  PROVE  /\ Append(s, e) \in Seq(S) /\ Len(Append(s, e)) = Len(s) + 1
         /\ Append(s, e)[Len(s) + 1] = e
         /\ \A i \in 1 .. Len(s) : Append(s, e)[i] = s[i]
         /\ ToSet(Append(s, e)) = ToSet(s) \cup {e}
         /\ Distinct(s) /\ e \notin ToSet(s) => Distinct(Append(s, e))
<1>. DEFINE a == Append(s, e)
<1>1. /\ a \in Seq(S) /\ Len(a) = Len(s) + 1 /\ Len(s) \in Nat
      /\ a[Len(s) + 1] = e /\ \A i \in 1 .. Len(s) : a[i] = s[i]
      /\ DOMAIN a = 1 .. Len(s) + 1 /\ DOMAIN s = 1 .. Len(s)
  OBVIOUS
<1>. HIDE DEF a
<1>2. 1 .. Len(s) + 1 = (1 .. Len(s)) \cup {Len(s) + 1}
  BY <1>1
<1>3. ToSet(a) = ToSet(s) \cup {e}
  BY <1>1, <1>2 DEF ToSet
<1>4. ASSUME Distinct(s), e \notin ToSet(s)
      PROVE  Distinct(a)
  <2>1. \A i \in 1 .. Len(s) : a[i] # e
    BY <1>1, <1>4 DEF ToSet
  <2>. QED
    BY <1>1, <1>2, <1>4, <2>1 DEF Distinct
<1>. QED
  BY <1>1, <1>3, <1>4 DEF a

LEMMA ContainsIsIn ==
  ASSUME NEW S, NEW s \in Seq(S), NEW e
  PROVE  Contains(s, e) <=> e \in ToSet(s)
<1>1. DOMAIN s = 1 .. Len(s)
  OBVIOUS
<1>. QED
  BY <1>1 DEF Contains, ToSet

LEMMA DistinctCardinality ==
  ASSUME NEW S, NEW s \in Seq(S), Distinct(s)
  PROVE  Len(s) = Cardinality(ToSet(s))
<1>1. Len(s) \in Nat /\ DOMAIN s = 1 .. Len(s) /\ s \in [1 .. Len(s) -> S]
  OBVIOUS
<1>2. s \in Surjection(1 .. Len(s), ToSet(s))
  BY <1>1 DEF Surjection, ToSet
<1>3. s \in Injection(1 .. Len(s), ToSet(s))
  BY <1>1 DEF Injection, ToSet, Distinct, IsInjective
<1>4. IsFiniteSet(1 .. Len(s)) /\ Cardinality(1 .. Len(s)) = Len(s)
  BY <1>1, FS_Interval
<1>5. s \in Bijection(1 .. Len(s), ToSet(s))
  BY <1>2, <1>3 DEF Bijection
<1>. QED
  BY <1>4, <1>5, FS_Bijection DEF ExistsBijection

JobRecord == [numbers : Seq(Texts), invalid : Seq(Texts)]

NumbersIn(texts) == {Normalised[t] : t \in {u \in texts : IsNumber(u)}}

Collects(job, texts) ==
  /\ job \in JobRecord
  /\ Distinct(job.numbers)
  /\ ToSet(job.numbers) = NumbersIn(texts)
  /\ ToSet(job.invalid) = {u \in texts : ~IsNumber(u)}

LEMMA NumbersAreTexts ==
  ASSUME NEW t \in Texts, IsNumber(t)
  PROVE  Normalised[t] \in Texts
BY ImportAssumption DEF IsNumber

LEMMA TextAdded ==
  ASSUME NEW job, NEW texts, Collects(job, texts), NEW t \in Texts
  PROVE  /\ Collects(AddText(job, t), texts \cup {t})
         /\ (IsNumber(t) => Normalised[t] \notin ToSet(job.numbers))
              => TotalItems(AddText(job, t)) = TotalItems(job) + 1
<1>. DEFINE new == AddText(job, t)
<1>0. /\ job \in JobRecord /\ job.numbers \in Seq(Texts) /\ job.invalid \in Seq(Texts)
      /\ Len(job.numbers) \in Nat /\ Len(job.invalid) \in Nat
  BY DEF Collects, JobRecord
<1>1. CASE ~IsNumber(t)
  <2>1. /\ new.numbers = job.numbers /\ new.invalid = Append(job.invalid, t)
        /\ new = [numbers |-> job.numbers, invalid |-> Append(job.invalid, t)]
    BY <1>0, <1>1 DEF AddText, JobRecord
  <2>2. /\ Append(job.invalid, t) \in Seq(Texts)
        /\ Len(Append(job.invalid, t)) = Len(job.invalid) + 1
        /\ ToSet(Append(job.invalid, t)) = ToSet(job.invalid) \cup {t}
    BY <1>0, Appended
  <2>3. NumbersIn(texts \cup {t}) = NumbersIn(texts)
    BY <1>1 DEF NumbersIn
  <2>. HIDE DEF new
  <2>4. new \in JobRecord
    BY <1>0, <2>1, <2>2 DEF JobRecord
  <2>5. ToSet(new.invalid) = {u \in texts \cup {t} : ~IsNumber(u)}
    BY <1>1, <2>1, <2>2 DEF Collects
  <2>6. Collects(new, texts \cup {t})
    BY <2>1, <2>3, <2>4, <2>5 DEF Collects
  <2>7. TotalItems(new) = TotalItems(job) + 1
    <3>1. Len(new.numbers) = Len(job.numbers) /\ Len(new.invalid) = Len(job.invalid) + 1
      BY <2>1, <2>2
    <3>2. /\ TotalItems(new) = Len(new.numbers) + Len(new.invalid)
          /\ TotalItems(job) = Len(job.numbers) + Len(job.invalid)
      BY DEF TotalItems
    <3>3. ASSUME NEW k \in Nat, NEW l \in Nat
          PROVE  k + 1 + l = k + l + 1 /\ k + (l + 1) = k + l + 1
      OBVIOUS
    <3>. QED
      BY <1>0, <3>1, <3>2, <3>3, Zenon
  <2>. QED
    BY <2>6, <2>7 DEF new
<1>2. CASE IsNumber(t) /\ Contains(job.numbers, Normalised[t])
  <2>1. new = job /\ Normalised[t] \in ToSet(job.numbers)
    BY <1>0, <1>2, ContainsIsIn DEF AddText
  <2>2. Normalised[t] \in NumbersIn(texts)
    BY <2>1 DEF Collects
  <2>3. NumbersIn(texts \cup {t}) = NumbersIn(texts)
    BY <2>2 DEF NumbersIn
  <2>4. {u \in texts \cup {t} : ~IsNumber(u)} = {u \in texts : ~IsNumber(u)}
    BY <1>2
  <2>. QED
    BY <1>2, <2>1, <2>3, <2>4 DEF Collects
<1>3. CASE IsNumber(t) /\ ~Contains(job.numbers, Normalised[t])
  <2>. DEFINE number == Normalised[t]
  <2>0. number \in Texts /\ number \notin ToSet(job.numbers)
    BY <1>0, <1>3, ContainsIsIn, NumbersAreTexts
  <2>1. /\ new.numbers = Append(job.numbers, number) /\ new.invalid = job.invalid
        /\ new = [numbers |-> Append(job.numbers, number), invalid |-> job.invalid]
    BY <1>0, <1>3 DEF AddText, JobRecord
  <2>2. NumbersIn(texts \cup {t}) = NumbersIn(texts) \cup {number}
    BY <1>3 DEF NumbersIn
  <2>3. {u \in texts \cup {t} : ~IsNumber(u)} = {u \in texts : ~IsNumber(u)}
    BY <1>3
  <2>. HIDE DEF new, number
  <2>4. /\ Append(job.numbers, number) \in Seq(Texts)
        /\ Len(Append(job.numbers, number)) = Len(job.numbers) + 1
        /\ ToSet(Append(job.numbers, number)) = ToSet(job.numbers) \cup {number}
        /\ Distinct(Append(job.numbers, number))
    BY <1>0, <2>0, Appended DEF Collects
  <2>5. new \in JobRecord
    BY <1>0, <2>1, <2>4 DEF JobRecord
  <2>6. Collects(new, texts \cup {t})
    BY <2>1, <2>2, <2>3, <2>4, <2>5 DEF Collects
  <2>7. TotalItems(new) = TotalItems(job) + 1
    <3>1. Len(new.numbers) = Len(job.numbers) + 1 /\ Len(new.invalid) = Len(job.invalid)
      BY <2>1, <2>4
    <3>2. /\ TotalItems(new) = Len(new.numbers) + Len(new.invalid)
          /\ TotalItems(job) = Len(job.numbers) + Len(job.invalid)
      BY DEF TotalItems
    <3>3. ASSUME NEW k \in Nat, NEW l \in Nat
          PROVE  k + 1 + l = k + l + 1 /\ k + (l + 1) = k + l + 1
      OBVIOUS
    <3>. QED
      BY <1>0, <3>1, <3>2, <3>3, Zenon
  <2>. QED
    BY <2>6, <2>7 DEF new
<1>. QED
  BY <1>1, <1>2, <1>3

LEMMA JobRuns ==
  ASSUME NEW lines \in Seq(Seq(Texts))
  PROVE  LET texts == FlattenSeq(lines)
         IN  \E g \in [0 .. Len(texts) -> JobRecord] :
               /\ g[0] = NoItems
               /\ \A i \in 1 .. Len(texts) : g[i] = AddText(g[i - 1], texts[i])
               /\ Job(lines) = g[Len(texts)]
<1>. DEFINE texts == FlattenSeq(lines)
            n == Len(texts)
<1>1. texts \in Seq(Texts)
  BY FlatTexts
<1>2. n \in Nat /\ n \in 0 .. n /\ \A i \in 1 .. n : texts[i] \in Texts /\ i - 1 \in 0 .. n
  <2>. HIDE DEF texts
  <2>. QED
    BY <1>1
<1>. HIDE DEF texts, n
<1>. DEFINE F == [i \in 1 .. n |-> [x \in JobRecord |-> AddText(x, texts[i])]]
<1>3. NoItems \in JobRecord
  BY DEF NoItems, JobRecord
<1>4. \A x \in JobRecord, t \in Texts : AddText(x, t) \in JobRecord
  <2>. SUFFICES ASSUME NEW x \in JobRecord, NEW t \in Texts
                PROVE  AddText(x, t) \in JobRecord
    OBVIOUS
  <2>1. IsNumber(t) => Normalised[t] \in Texts
    BY NumbersAreTexts
  <2>2. /\ Append(x.invalid, t) \in Seq(Texts) /\ x.numbers \in Seq(Texts)
        /\ IsNumber(t) => Append(x.numbers, Normalised[t]) \in Seq(Texts)
    BY <2>1 DEF JobRecord
  <2>. QED
    BY <2>2 DEF AddText, JobRecord
<1>5. StepsOf(F, n, JobRecord)
  BY <1>2, <1>4 DEF StepsOf
<1>6. PICK g : FollowsSteps(g, NoItems, F, n, JobRecord)
  <2>. HIDE DEF F
  <2>. QED
    BY <1>3, <1>5, Recursion
<1>7. g \in [0 .. n -> JobRecord] /\ g[0] = NoItems
  BY <1>6 DEF FollowsSteps
<1>8. ASSUME NEW i \in 1 .. n
      PROVE  g[i] = AddText(g[i - 1], texts[i])
  <2>1. g[i - 1] \in JobRecord
    BY <1>2, <1>7
  <2>2. g[i] = F[i][g[i - 1]]
    BY <1>6 DEF FollowsSteps
  <2>. QED
    BY <2>1, <2>2
<1>. DEFINE Rule(f) == [i \in 0 .. n |-> IF i = 0 THEN NoItems ELSE AddText(f[i - 1], texts[i])]
            items == CHOOSE f : f = Rule(f)
<1>. HIDE DEF F
<1>9. g = Rule(g)
  <2>1. ASSUME NEW i \in 0 .. n
        PROVE  g[i] = IF i = 0 THEN NoItems ELSE AddText(g[i - 1], texts[i])
    <3>1. i = 0 \/ i \in 1 .. n
      BY <1>2
    <3>2. i \in 1 .. n => i # 0
      BY <1>2
    <3>. QED
      BY <1>7, <1>8, <3>1, <3>2
  <2>2. g = [i \in 0 .. n |-> g[i]]
    BY <1>7
  <2>. QED
    BY <2>1, <2>2
<1>10. items = Rule(items)
  <2>. HIDE DEF Rule
  <2>. QED
    BY <1>9
<1>11. Job(lines) = items[n]
  BY DEF Job, texts, n
<1>. HIDE DEF items
<1>12. /\ items[0] = NoItems
       /\ \A i \in 1 .. n : items[i] = AddText(items[i - 1], texts[i])
  <2>1. \A i \in 0 .. n : items[i] = IF i = 0 THEN NoItems ELSE AddText(items[i - 1], texts[i])
    BY <1>10
  <2>2. 0 \in 0 .. n /\ \A i \in 1 .. n : i \in 0 .. n /\ i # 0
    BY <1>2
  <2>. QED
    BY <2>1, <2>2
<1>13. \A i \in 0 .. n : items[i] \in JobRecord
  <2>. DEFINE T == {i \in 0 .. n : items[i] \in JobRecord}
  <2>1. 0 \in T /\ \A i \in 1 .. n : i - 1 \in T => i \in T
    BY <1>2, <1>3, <1>4, <1>12
  <2>2. \A i \in 0 .. n : i \in T
    <3>. HIDE DEF T
    <3>. QED
      BY <1>2, <2>1, Steps
  <2>. QED
    BY <2>2
<1>14. items \in [0 .. n -> JobRecord]
  <2>1. items = [i \in 0 .. n |-> items[i]]
    BY <1>10
  <2>. QED
    BY <1>13, <2>1
<1>. HIDE DEF Rule
<1>. QED
  BY <1>11, <1>12, <1>14 DEF texts, n

(* What a job gets of its lines.                                           *)
LEMMA JobItems ==
  ASSUME NEW lines \in Seq(Seq(Texts))
  PROVE  /\ Collects(Job(lines), ToSet(FlattenSeq(lines)))
         /\ (\A i, j \in 1 .. Len(FlattenSeq(lines)) :
               /\ IsNumber(FlattenSeq(lines)[i]) /\ IsNumber(FlattenSeq(lines)[j])
               /\ Normalised[FlattenSeq(lines)[i]] = Normalised[FlattenSeq(lines)[j]]
               => i = j)
              => TotalItems(Job(lines)) = Len(FlattenSeq(lines))
<1>. DEFINE texts == FlattenSeq(lines)
            n == Len(texts)
            Seen(i) == {texts[k] : k \in 1 .. i}
            Apart == \A i, j \in 1 .. n : /\ IsNumber(texts[i]) /\ IsNumber(texts[j])
                                          /\ Normalised[texts[i]] = Normalised[texts[j]]
                                          => i = j
<1>1. texts \in Seq(Texts)
  BY FlatTexts
<1>2. PICK g \in [0 .. n -> JobRecord] :
        /\ g[0] = NoItems
        /\ \A i \in 1 .. n : g[i] = AddText(g[i - 1], texts[i])
        /\ Job(lines) = g[n]
  BY JobRuns
<1>. HIDE DEF texts
<1>3. /\ n \in Nat /\ n \in 0 .. n /\ ToSet(texts) = Seen(n)
      /\ \A i \in 1 .. n : texts[i] \in Texts /\ i - 1 \in 0 .. n /\ i \in Nat \ {0}
  <2>1. n \in Nat /\ DOMAIN texts = 1 .. n /\ \A i \in 1 .. n : texts[i] \in Texts
    BY <1>1
  <2>2. ToSet(texts) = Seen(n)
    BY <2>1 DEF ToSet
  <2>. HIDE DEF n
  <2>3. n \in 0 .. n /\ \A i \in 1 .. n : i - 1 \in 0 .. n /\ i \in Nat \ {0}
    BY <2>1
  <2>. QED
    BY <2>1, <2>2, <2>3
<1>. HIDE DEF n
<1>. DEFINE T == {i \in 0 .. n : /\ Collects(g[i], Seen(i))
                                 /\ Apart => TotalItems(g[i]) = i}
<1>4. 0 \in T
  <2>1. NoItems \in JobRecord /\ Distinct(<<>>) /\ ToSet(<<>>) = {}
    BY DEF NoItems, JobRecord, Distinct, ToSet
  <2>2. Seen(0) = {}
    OBVIOUS
  <2>3. NumbersIn({}) = {}
    BY DEF NumbersIn
  <2>4. Collects(NoItems, {})
    BY <2>1, <2>3 DEF Collects, NoItems
  <2>5. TotalItems(NoItems) = 0
    BY DEF TotalItems, NoItems
  <2>6. g[0] = NoItems /\ 0 \in 0 .. n
    BY <1>2, <1>3
  <2>. HIDE DEF Seen, Apart
  <2>7. Collects(g[0], Seen(0)) /\ TotalItems(g[0]) = 0
    BY <2>2, <2>4, <2>5, <2>6, Zenon
  <2>. QED
    BY <2>6, <2>7
<1>5. ASSUME NEW i \in 1 .. n, i - 1 \in T
      PROVE  i \in T
  <2>1. Collects(g[i - 1], Seen(i - 1)) /\ (Apart => TotalItems(g[i - 1]) = i - 1)
    BY <1>5
  <2>2. Seen(i) = Seen(i - 1) \cup {texts[i]}
    <3>1. 1 .. i = (1 .. i - 1) \cup {i}
      BY <1>3
    <3>. QED
      BY <3>1
  <2>3. ASSUME Apart, IsNumber(texts[i])
        PROVE  Normalised[texts[i]] \notin ToSet(g[i - 1].numbers)
    <3>1. ToSet(g[i - 1].numbers) = NumbersIn(Seen(i - 1))
      BY <2>1 DEF Collects
    <3>2. ASSUME NEW k \in 1 .. i - 1, IsNumber(texts[k])
          PROVE  Normalised[texts[i]] # Normalised[texts[k]]
      <4>1. k \in 1 .. n /\ k # i
        BY <1>3
      <4>. QED
        BY <2>3, <3>2, <4>1
    <3>. QED
      BY <3>1, <3>2 DEF NumbersIn
  <2>. HIDE DEF Seen, Apart
  <2>4. texts[i] \in Texts /\ g[i] = AddText(g[i - 1], texts[i])
    BY <1>2, <1>3
  <2>5. Collects(g[i], Seen(i))
    BY <2>1, <2>2, <2>4, TextAdded
  <2>6. Apart => TotalItems(g[i]) = TotalItems(g[i - 1]) + 1
    BY <2>1, <2>3, <2>4, TextAdded
  <2>7. Apart => TotalItems(g[i]) = i
    BY <1>3, <2>1, <2>6
  <2>. QED
    BY <1>3, <2>5, <2>7
<1>. HIDE DEF Seen, Apart
<1>6. \A i \in 0 .. n : i \in T
  <2>. HIDE DEF T
  <2>. QED
    BY <1>3, <1>4, <1>5, Steps
<1>7. Collects(Job(lines), ToSet(texts)) /\ (Apart => TotalItems(Job(lines)) = n)
  BY <1>2, <1>3, <1>6
<1>. QED
  BY <1>7 DEF Apart, n, texts

-----------------------------------------------------------------------------
(* The inputs that a file is dealt out as.                                 *)
LEMMA OutputOfLine ==
  ASSUME NEW line \in Seq(Texts)
  PROVE  /\ InputOutput(line) \in Seq(Texts)
         /\ InputKey(InputOutput(line)) = InputKey(line)
         /\ Len(InputOutput(line)) = Len(line)
<1>1. CASE Len(line) = 1 /\ IsNumber(line[1])
  <2>. DEFINE number == Normalised[line[1]]
  <2>1. line[1] \in Texts
    BY <1>1
  <2>2. number \in Texts /\ Normalised[number] = number /\ IsNumber(number)
    BY <1>1, <2>1, NumbersAreTexts, ImportAssumption DEF IsNumber
  <2>3. InputOutput(line) = <<number>> /\ InputKey(line) = <<"phone", number>>
    BY <1>1 DEF InputOutput, InputKey
  <2>. HIDE DEF number
  <2>4. Len(<<number>>) = 1 /\ <<number>>[1] = number /\ <<number>> \in Seq(Texts)
    BY <2>2
  <2>5. InputKey(<<number>>) = <<"phone", number>>
    BY <2>2, <2>4 DEF InputKey
  <2>. QED
    BY <1>1, <2>3, <2>4, <2>5
<1>2. CASE ~(Len(line) = 1 /\ IsNumber(line[1]))
  BY <1>2 DEF InputOutput
<1>. QED
  BY <1>1, <1>2

KeysDiffer(inputs) ==
  \A i, j \in 1 .. Len(inputs) : InputKey(inputs[i]) = InputKey(inputs[j]) => i = j

InputsOf(inputs, lines) ==
  /\ inputs \in Seq(Seq(Texts))
  /\ KeysDiffer(inputs)
  /\ \A line \in lines : \E i \in 1 .. Len(inputs) : InputKey(inputs[i]) = InputKey(line)
  /\ \A i \in 1 .. Len(inputs) : \E line \in lines : inputs[i] = InputOutput(line)

LEMMA InputAdded ==
  ASSUME NEW inputs, NEW lines, InputsOf(inputs, lines), NEW line \in Seq(Texts)
  PROVE  InputsOf(AddUnique(inputs, line), lines \cup {line})
<1>0. inputs \in Seq(Seq(Texts)) /\ DOMAIN inputs = 1 .. Len(inputs) /\ Len(inputs) \in Nat
  BY DEF InputsOf
<1>1. CASE \E i \in DOMAIN inputs : InputKey(inputs[i]) = InputKey(line)
  <2>1. AddUnique(inputs, line) = inputs
    BY <1>1 DEF AddUnique
  <2>2. \E i \in 1 .. Len(inputs) : InputKey(inputs[i]) = InputKey(line)
    BY <1>0, <1>1
  <2>. QED
    BY <2>1, <2>2 DEF InputsOf
<1>2. CASE ~ \E i \in DOMAIN inputs : InputKey(inputs[i]) = InputKey(line)
  <2>. DEFINE output == InputOutput(line)
              new == Append(inputs, output)
  <2>1. AddUnique(inputs, line) = new
    BY <1>2 DEF AddUnique
  <2>2. output \in Seq(Texts) /\ InputKey(output) = InputKey(line)
    BY OutputOfLine
  <2>. HIDE DEF output
  <2>3. /\ new \in Seq(Seq(Texts)) /\ Len(new) = Len(inputs) + 1
        /\ new[Len(inputs) + 1] = output
        /\ \A i \in 1 .. Len(inputs) : new[i] = inputs[i]
    BY <1>0, <2>2, Appended
  <2>4. 1 .. Len(inputs) + 1 = (1 .. Len(inputs)) \cup {Len(inputs) + 1}
    BY <1>0
  <2>. HIDE DEF new
  <2>5. KeysDiffer(new)
    <3>1. \A i \in 1 .. Len(inputs) : InputKey(new[i]) # InputKey(new[Len(inputs) + 1])
      BY <1>0, <1>2, <2>2, <2>3
    <3>2. \A i, j \in 1 .. Len(inputs) : InputKey(new[i]) = InputKey(new[j]) => i = j
      BY <2>3 DEF InputsOf, KeysDiffer
    <3>. SUFFICES ASSUME NEW i \in 1 .. Len(inputs) + 1, NEW j \in 1 .. Len(inputs) + 1,
                         InputKey(new[i]) = InputKey(new[j])
                  PROVE  i = j
      BY <2>3 DEF KeysDiffer
    <3>3. /\ i \in 1 .. Len(inputs) \/ i = Len(inputs) + 1
          /\ j \in 1 .. Len(inputs) \/ j = Len(inputs) + 1
      BY <2>4
    <3>. QED
      BY <3>1, <3>2, <3>3
  <2>6. ASSUME NEW l \in lines \cup {line}
        PROVE  \E i \in 1 .. Len(new) : InputKey(new[i]) = InputKey(l)
    <3>1. CASE l \in lines
      BY <2>3, <2>4, <3>1 DEF InputsOf
    <3>2. CASE l = line
      BY <2>2, <2>3, <2>4, <3>2
    <3>. QED
      BY <3>1, <3>2
  <2>7. ASSUME NEW i \in 1 .. Len(new)
        PROVE  \E l \in lines \cup {line} : new[i] = InputOutput(l)
    <3>1. CASE i \in 1 .. Len(inputs)
      BY <2>3, <3>1 DEF InputsOf
    <3>2. CASE i = Len(inputs) + 1
      BY <2>3, <3>2 DEF output
    <3>. QED
      BY <2>3, <2>4, <3>1, <3>2
  <2>. QED
    BY <2>1, <2>3, <2>5, <2>6, <2>7 DEF InputsOf
<1>. QED
  BY <1>1, <1>2

LEMMA UniqueRuns ==
  ASSUME NEW lines \in Seq(Seq(Texts))
  PROVE  \E g \in [0 .. Len(lines) -> Seq(Seq(Texts))] :
           /\ g[0] = <<>>
           /\ \A i \in 1 .. Len(lines) : g[i] = AddUnique(g[i - 1], lines[i])
           /\ UniqueInputs(lines) = g[Len(lines)]
<1>. DEFINE n == Len(lines)
            X == Seq(Seq(Texts))
            base == <<>>
            F == [i \in 1 .. n |-> [x \in X |-> AddUnique(x, lines[i])]]
<1>1. n \in Nat /\ n \in 0 .. n /\ \A i \in 1 .. n : lines[i] \in Seq(Texts)
  OBVIOUS
<1>2. \A i \in 1 .. n : i - 1 \in 0 .. n /\ i \in 0 .. n /\ i # 0
  <2>. HIDE DEF n
  <2>. QED
    BY <1>1
<1>3. base \in X
  OBVIOUS
<1>4. \A x \in X, line \in Seq(Texts) : AddUnique(x, line) \in X
  <2>. SUFFICES ASSUME NEW x \in X, NEW line \in Seq(Texts)
                PROVE  AddUnique(x, line) \in X
    OBVIOUS
  <2>1. InputOutput(line) \in Seq(Texts)
    BY OutputOfLine
  <2>2. Append(x, InputOutput(line)) \in X
    BY <2>1
  <2>. QED
    BY <2>2 DEF AddUnique
<1>. HIDE DEF n, X, base
<1>5. StepsOf(F, n, X)
  BY <1>1, <1>4 DEF StepsOf
<1>6. PICK g : FollowsSteps(g, base, F, n, X)
  <2>. HIDE DEF F
  <2>. QED
    BY <1>3, <1>5, Recursion
<1>7. g \in [0 .. n -> X] /\ g[0] = base
  BY <1>6 DEF FollowsSteps
<1>8. ASSUME NEW i \in 1 .. n
      PROVE  g[i] = AddUnique(g[i - 1], lines[i])
  <2>1. g[i - 1] \in X
    BY <1>2, <1>7
  <2>2. g[i] = F[i][g[i - 1]]
    BY <1>6 DEF FollowsSteps
  <2>. QED
    BY <2>1, <2>2
<1>. HIDE DEF F
<1>. DEFINE Rule(f) == [i \in 0 .. n |-> IF i = 0 THEN <<>> ELSE AddUnique(f[i - 1], lines[i])]
            result == CHOOSE f : f = Rule(f)
<1>9. g = Rule(g)
  <2>1. ASSUME NEW i \in 0 .. n
        PROVE  g[i] = IF i = 0 THEN <<>> ELSE AddUnique(g[i - 1], lines[i])
    <3>1. i = 0 \/ i \in 1 .. n
      BY <1>1
    <3>2. i \in 1 .. n => i # 0
      BY <1>1
    <3>. QED
      BY <1>7, <1>8, <3>1, <3>2 DEF base
  <2>2. g = [i \in 0 .. n |-> g[i]]
    BY <1>7
  <2>. QED
    BY <2>1, <2>2
<1>10. result = Rule(result)
  <2>. HIDE DEF Rule
  <2>. QED
    BY <1>9
<1>11. UniqueInputs(lines) = result[n]
  BY DEF UniqueInputs, n
<1>. HIDE DEF result
<1>12. /\ result[0] = base
       /\ \A i \in 1 .. n : result[i] = AddUnique(result[i - 1], lines[i])
  <2>1. \A i \in 0 .. n : result[i] = IF i = 0 THEN <<>> ELSE AddUnique(result[i - 1], lines[i])
    BY <1>10
  <2>2. 0 \in 0 .. n
    BY <1>1
  <2>. QED
    BY <1>2, <2>1, <2>2 DEF base
<1>13. \A i \in 0 .. n : result[i] \in X
  <2>. DEFINE T == {i \in 0 .. n : result[i] \in X}
  <2>0. 0 \in T
    BY <1>1, <1>3, <1>12
  <2>1. ASSUME NEW i \in 1 .. n, i - 1 \in T
        PROVE  i \in T
    <3>1. result[i - 1] \in X /\ lines[i] \in Seq(Texts)
      BY <1>1, <2>1
    <3>2. AddUnique(result[i - 1], lines[i]) \in X
      BY <1>4, <3>1
    <3>. QED
      BY <1>2, <1>12, <3>2
  <2>2. \A i \in 0 .. n : i \in T
    <3>. HIDE DEF T
    <3>. QED
      BY <1>1, <2>0, <2>1, Steps
  <2>. QED
    BY <2>2
<1>14. result \in [0 .. n -> X]
  <2>1. result = [i \in 0 .. n |-> result[i]]
    BY <1>10
  <2>. QED
    BY <1>13, <2>1
<1>. HIDE DEF Rule
<1>. QED
  BY <1>11, <1>12, <1>14 DEF n, X, base

LEMMA UniqueInputsOf ==
  ASSUME NEW lines \in Seq(Seq(Texts))
  PROVE  InputsOf(UniqueInputs(lines), ToSet(lines))
<1>. DEFINE n == Len(lines)
            Seen(i) == {lines[k] : k \in 1 .. i}
<1>1. PICK g \in [0 .. n -> Seq(Seq(Texts))] :
        /\ g[0] = <<>>
        /\ \A i \in 1 .. n : g[i] = AddUnique(g[i - 1], lines[i])
        /\ UniqueInputs(lines) = g[n]
  BY UniqueRuns
<1>2. /\ n \in Nat /\ n \in 0 .. n /\ ToSet(lines) = Seen(n)
      /\ \A i \in 1 .. n : lines[i] \in Seq(Texts) /\ i - 1 \in 0 .. n /\ i \in Nat \ {0}
  <2>1. n \in Nat /\ DOMAIN lines = 1 .. n /\ \A i \in 1 .. n : lines[i] \in Seq(Texts)
    OBVIOUS
  <2>2. ToSet(lines) = Seen(n)
    BY <2>1 DEF ToSet
  <2>. HIDE DEF n
  <2>3. n \in 0 .. n /\ \A i \in 1 .. n : i - 1 \in 0 .. n /\ i \in Nat \ {0}
    BY <2>1
  <2>. QED
    BY <2>1, <2>2, <2>3
<1>. HIDE DEF n
<1>. DEFINE T == {i \in 0 .. n : InputsOf(g[i], Seen(i))}
<1>3. 0 \in T
  <2>1. Seen(0) = {} /\ g[0] = <<>> /\ 0 \in 0 .. n
    BY <1>1, <1>2
  <2>2. <<>> \in Seq(Seq(Texts)) /\ Len(<<>>) = 0 /\ 1 .. 0 = {}
    OBVIOUS
  <2>3. InputsOf(<<>>, {})
    BY <2>2 DEF InputsOf, KeysDiffer
  <2>. HIDE DEF Seen
  <2>. QED
    BY <2>1, <2>3
<1>4. ASSUME NEW i \in 1 .. n, i - 1 \in T
      PROVE  i \in T
  <2>1. Seen(i) = Seen(i - 1) \cup {lines[i]}
    <3>1. 1 .. i = (1 .. i - 1) \cup {i}
      BY <1>2
    <3>. QED
      BY <3>1
  <2>2. lines[i] \in Seq(Texts) /\ g[i] = AddUnique(g[i - 1], lines[i])
    BY <1>1, <1>2
  <2>. HIDE DEF Seen
  <2>3. InputsOf(g[i - 1], Seen(i - 1))
    BY <1>4
  <2>4. InputsOf(g[i], Seen(i))
    BY <2>1, <2>2, <2>3, InputAdded
  <2>. QED
    BY <1>2, <2>4
<1>5. \A i \in 0 .. n : i \in T
  <2>. HIDE DEF T
  <2>. QED
    BY <1>2, <1>3, <1>4, Steps
<1>. HIDE DEF Seen
<1>. QED
  BY <1>1, <1>2, <1>5

-----------------------------------------------------------------------------
(* Dealing round robin: the k-th of n gets the positions k, k + n, ...     *)
Dealt(total, n, k) == (total + n - k) \div n
PositionOf(n, k, m) == (m - 1) * n + k

LEMMA ProductsGrow ==
  ASSUME NEW n \in Nat, NEW a \in Nat, NEW b \in Nat, a <= b
  PROVE  a * n <= b * n /\ a * n \in Nat /\ b * n \in Nat
<1>1. b = a + (b - a) /\ b - a \in Nat
  OBVIOUS
<1>2. (a + (b - a)) * n = a * n + (b - a) * n /\ (b - a) * n \in Nat /\ a * n \in Nat
  BY <1>1
<1>. QED
  BY <1>1, <1>2

LEMMA Division ==
  ASSUME NEW x \in Nat, NEW n \in Nat \ {0}
  PROVE  /\ x \div n \in Nat /\ x % n \in 0 .. n - 1
         /\ x = n * (x \div n) + (x % n)
<1>1. x \div n \in Nat /\ x % n \in 0 .. n - 1
  OBVIOUS
<1>2. x = n * (x \div n) + (x % n)
  <2>. DEFINE q == x \div n
              r == x % n
  <2>1. q \in Nat /\ r \in 0 .. n - 1 /\ x = n * q + r
    OBVIOUS
  <2>. QED
    BY <2>1
<1>. QED
  BY <1>1, <1>2, Zenon

LEMMA DealtBounds ==
  ASSUME NEW total \in Nat, NEW n \in Nat \ {0}, NEW k \in 1 .. n, n <= total
  PROVE  /\ Dealt(total, n, k) \in Nat \ {0}
         /\ Dealt(total, n, k) * n <= total + n - k
         /\ total - k < Dealt(total, n, k) * n
<1>. DEFINE d == Dealt(total, n, k)
            x == total + n - k
            r == x % n
<1>1. x \in Nat /\ x >= n /\ d = x \div n
  BY DEF Dealt
<1>. HIDE DEF d, x, r
<1>2. d \in Nat /\ r \in 0 .. n - 1 /\ x = n * d + r
  BY <1>1, Division DEF r
<1>3. n * d = d * n /\ d * n \in Nat
  BY <1>2
<1>4. d # 0
  <2>1. d = 0 => d * n = 0
    BY <1>2
  <2>. QED
    BY <1>1, <1>2, <1>3, <2>1
<1>5. d * n <= x /\ x - n < d * n
  BY <1>1, <1>2, <1>3
<1>6. x = total + n - k /\ x - n = total - k
  BY DEF x
<1>7. d * n <= total + n - k /\ total - k < d * n
  BY <1>5, <1>6
<1>. QED
  BY <1>2, <1>4, <1>7 DEF d

LEMMA DealtPositions ==
  ASSUME NEW total \in Nat, NEW n \in Nat \ {0}, n <= total
  PROVE  /\ \A k \in 1 .. n : \A m \in 1 .. Dealt(total, n, k) : PositionOf(n, k, m) \in 1 .. total
         /\ \A i \in 1 .. total : \E k \in 1 .. n : \E m \in 1 .. Dealt(total, n, k) :
              i = PositionOf(n, k, m)
<1>1. ASSUME NEW k \in 1 .. n, NEW m \in 1 .. Dealt(total, n, k)
      PROVE  PositionOf(n, k, m) \in 1 .. total
  <2>. DEFINE d == Dealt(total, n, k)
  <2>1. d \in Nat /\ d * n <= total + n - k
    BY DealtBounds
  <2>. HIDE DEF d
  <2>2. m - 1 \in Nat /\ d - 1 \in Nat /\ m - 1 <= d - 1
    BY <2>1 DEF d
  <2>3. (m - 1) * n <= (d - 1) * n /\ (m - 1) * n \in Nat
    BY <2>2, ProductsGrow
  <2>4. (d - 1) * n = d * n - n
    BY <2>1
  <2>5. d * n \in Nat
    BY <2>1
  <2>. QED
    BY <2>1, <2>3, <2>4, <2>5 DEF PositionOf
<1>2. ASSUME NEW i \in 1 .. total
      PROVE  \E k \in 1 .. n : \E m \in 1 .. Dealt(total, n, k) : i = PositionOf(n, k, m)
  <2>. DEFINE x == i - 1
              q == x \div n
              r == x % n
  <2>0. x \in Nat /\ i = x + 1
    OBVIOUS
  <2>. HIDE DEF x
  <2>1. q \in Nat /\ r \in 0 .. n - 1 /\ x = n * q + r
    BY <2>0, Division
  <2>. HIDE DEF q, r
  <2>2. r + 1 \in 1 .. n /\ q + 1 \in Nat \ {0} /\ q * n \in Nat /\ i = q * n + (r + 1)
    BY <2>0, <2>1
  <2>. DEFINE d == Dealt(total, n, r + 1)
  <2>3. d \in Nat /\ total - (r + 1) < d * n
    BY <2>2, DealtBounds
  <2>. HIDE DEF d
  <2>4. d * n \in Nat /\ q * n < d * n
    BY <2>1, <2>2, <2>3
  <2>5. q < d
    <3>1. d <= q => d * n <= q * n
      BY <2>1, <2>3, ProductsGrow
    <3>. QED
      BY <2>1, <2>2, <2>3, <2>4, <3>1
  <2>6. q + 1 \in 1 .. d
    BY <2>1, <2>3, <2>5
  <2>7. i = PositionOf(n, r + 1, q + 1)
    BY <2>1, <2>2 DEF PositionOf
  <2>. QED
    BY <2>2, <2>6, <2>7 DEF d
<1>. QED
  BY <1>1, <1>2

LEMMA DealtOnce ==
  ASSUME NEW n \in Nat \ {0}, NEW k \in 1 .. n, NEW l \in 1 .. n,
         NEW a \in Nat \ {0}, NEW b \in Nat \ {0}, PositionOf(n, k, a) = PositionOf(n, l, b)
  PROVE  k = l /\ a = b
<1>1. ASSUME NEW c \in Nat \ {0}, NEW d \in Nat \ {0}, c < d, NEW x \in 1 .. n, NEW y \in 1 .. n
      PROVE  PositionOf(n, x, c) < PositionOf(n, y, d)
  <2>1. c * n <= (d - 1) * n /\ c * n \in Nat /\ (d - 1) * n \in Nat
    BY <1>1, ProductsGrow
  <2>2. (c - 1) * n = c * n - n
    OBVIOUS
  <2>. QED
    BY <2>1, <2>2 DEF PositionOf
<1>2. PositionOf(n, k, a) \in Int /\ PositionOf(n, l, b) \in Int
  BY DEF PositionOf
<1>3. a = b
  <2>1. ~ a < b /\ ~ b < a
    BY <1>1, <1>2
  <2>. QED
    BY <2>1
<1>4. (a - 1) * n \in Int
  OBVIOUS
<1>. QED
  BY <1>3, <1>4 DEF PositionOf

LEMMA DealtFairly ==
  ASSUME NEW total \in Nat, NEW n \in Nat \ {0}, n <= total, NEW k \in 1 .. n, NEW l \in 1 .. n
  PROVE  Dealt(total, n, k) <= Dealt(total, n, l) + 1
<1>. DEFINE a == Dealt(total, n, k)
            b == Dealt(total, n, l)
<1>1. a \in Nat /\ b \in Nat /\ a * n <= total + n - k /\ total - l < b * n
  BY DealtBounds
<1>. HIDE DEF a, b
<1>2. ASSUME b + 2 <= a
      PROVE  FALSE
  <2>1. (b + 2) * n <= a * n /\ a * n \in Nat
    BY <1>1, <1>2, ProductsGrow
  <2>2. (b + 2) * n = b * n + n + n /\ b * n \in Nat
    BY <1>1
  <2>. QED
    BY <1>1, <2>1, <2>2
<1>. QED
  BY <1>1, <1>2 DEF a, b

LEMMA BucketLines ==
  ASSUME NEW S, NEW inputs \in Seq(S), NEW n \in Nat \ {0}, n <= Len(inputs), NEW k \in 1 .. n
  PROVE  /\ Bucket(inputs, n, k) \in Seq(S)
         /\ Len(Bucket(inputs, n, k)) = Dealt(Len(inputs), n, k)
         /\ \A m \in 1 .. Dealt(Len(inputs), n, k) :
              /\ Bucket(inputs, n, k)[m] = inputs[PositionOf(n, k, m)]
              /\ PositionOf(n, k, m) \in 1 .. Len(inputs)
<1>. DEFINE d == Dealt(Len(inputs), n, k)
<1>1. Len(inputs) \in Nat
  OBVIOUS
<1>2. d \in Nat /\ \A m \in 1 .. d : PositionOf(n, k, m) \in 1 .. Len(inputs)
  BY <1>1, DealtBounds, DealtPositions
<1>3. Bucket(inputs, n, k) = [m \in 1 .. d |-> inputs[PositionOf(n, k, m)]]
  BY DEF Bucket, Dealt, PositionOf
<1>. HIDE DEF d
<1>4. \A m \in 1 .. d : inputs[PositionOf(n, k, m)] \in S
  BY <1>2
<1>. QED
  BY <1>2, <1>3, <1>4 DEF d

-----------------------------------------------------------------------------
(* What parts of a file import together.                                   *)
NumbersOfLine(line) == NumbersIn(ToSet(line))

LEMMA NumbersOfLines ==
  ASSUME NEW lines \in Seq(Seq(Texts))
  PROVE  /\ \A number : number \in NumbersOf(lines)
              <=> \E i \in 1 .. Len(lines) : number \in NumbersOfLine(lines[i])
         /\ \A number : number \in ToSet(Job(lines).numbers)
              <=> \E i \in 1 .. Len(lines) : number \in NumbersOfLine(lines[i])
         /\ \A t : t \in ToSet(FlattenSeq(lines))
              <=> \E i \in 1 .. Len(lines) : t \in ToSet(lines[i])
         /\ ToSet(Job(lines).invalid) = {t \in ToSet(FlattenSeq(lines)) : ~IsNumber(t)}
         /\ Job(lines).numbers \in Seq(Texts)
         /\ Len(Job(lines).numbers) = Cardinality(ToSet(Job(lines).numbers))
<1>1. ToSet(FlattenSeq(lines)) = UNION {ToSet(lines[k]) : k \in 1 .. Len(lines)}
  BY FlatTexts
<1>2. \A t : t \in ToSet(FlattenSeq(lines)) <=> \E i \in 1 .. Len(lines) : t \in ToSet(lines[i])
  BY <1>1
<1>3. Collects(Job(lines), ToSet(FlattenSeq(lines)))
  BY JobItems
<1>4. /\ ToSet(Job(lines).numbers) = NumbersOf(lines)
      /\ ToSet(Job(lines).invalid) = {t \in ToSet(FlattenSeq(lines)) : ~IsNumber(t)}
  BY <1>3 DEF Collects, NumbersIn, NumbersOf
<1>5. \A number : number \in NumbersOf(lines)
        <=> \E i \in 1 .. Len(lines) : number \in NumbersOfLine(lines[i])
  BY <1>2 DEF NumbersOf, NumbersOfLine, NumbersIn
<1>6. Job(lines).numbers \in Seq(Texts) /\ Distinct(Job(lines).numbers)
  BY <1>3 DEF Collects, JobRecord
<1>7. Len(Job(lines).numbers) = Cardinality(ToSet(Job(lines).numbers))
  BY <1>6, DistinctCardinality
<1>. QED
  BY <1>2, <1>4, <1>5, <1>6, <1>7

(* Lines with equal keys hold the same numbers, and the same texts besides *)
(* but for their case.                                                     *)
LEMMA EqualKeys ==
  ASSUME NEW a \in Seq(Texts), NEW b \in Seq(Texts), InputKey(a) = InputKey(b)
  PROVE  /\ NumbersOfLine(a) \subseteq NumbersOfLine(b)
         /\ \A t \in ToSet(a) : ~IsNumber(t) =>
              \E u \in ToSet(b) : ~IsNumber(u) /\ Folded[u] = Folded[t]
<1>1. DOMAIN a = 1 .. Len(a) /\ DOMAIN b = 1 .. Len(b) /\ Len(a) \in Nat /\ Len(b) \in Nat
      /\ (\A i \in 1 .. Len(a) : a[i] \in Texts) /\ (\A i \in 1 .. Len(b) : b[i] \in Texts)
  OBVIOUS
<1>2. CASE Len(a) = 1 /\ IsNumber(a[1])
  <2>1. InputKey(a) = <<"phone", Normalised[a[1]]>>
    BY <1>2 DEF InputKey
  <2>2. Len(b) = 1 /\ IsNumber(b[1])
    BY <2>1 DEF InputKey
  <2>3. InputKey(b) = <<"phone", Normalised[b[1]]>>
    BY <2>2 DEF InputKey
  <2>4. Normalised[a[1]] = Normalised[b[1]]
    <3>1. <<"phone", Normalised[a[1]]>> = <<"phone", Normalised[b[1]]>>
      BY <2>1, <2>3, Zenon
    <3>. QED
      BY <3>1
  <2>5. ToSet(a) = {a[1]} /\ ToSet(b) = {b[1]}
    <3>1. 1 .. 1 = {1}
      OBVIOUS
    <3>. QED
      BY <1>1, <1>2, <2>2, <3>1 DEF ToSet
  <2>. QED
    BY <1>2, <2>2, <2>4, <2>5 DEF NumbersOfLine, NumbersIn
<1>3. CASE ~(Len(a) = 1 /\ IsNumber(a[1]))
  <2>. DEFINE foldedA == [i \in DOMAIN a |-> Folded[a[i]]]
              foldedB == [i \in DOMAIN b |-> Folded[b[i]]]
  <2>1. InputKey(a) = <<"invalid", foldedA>>
    BY <1>3 DEF InputKey
  <2>2. InputKey(b) = <<"invalid", foldedB>>
    BY <2>1 DEF InputKey
  <2>3. foldedA = foldedB
    <3>. HIDE DEF foldedA, foldedB
    <3>1. <<"invalid", foldedA>> = <<"invalid", foldedB>>
      BY <2>1, <2>2, Zenon
    <3>. QED
      BY <3>1
  <2>4. DOMAIN a = DOMAIN b /\ \A i \in DOMAIN a : Folded[a[i]] = Folded[b[i]]
    <3>1. DOMAIN foldedA = DOMAIN foldedB /\ \A i \in DOMAIN a : foldedA[i] = foldedB[i]
      BY <2>3, Zenon
    <3>2. DOMAIN a = DOMAIN b
      BY <3>1
    <3>. QED
      BY <3>1, <3>2
  <2>5. \A i \in DOMAIN a : /\ a[i] \in ToSet(a) /\ b[i] \in ToSet(b)
                            /\ Normalised[a[i]] = Normalised[b[i]]
    BY <1>1, <2>4, ImportAssumption DEF ToSet
  <2>6. \A t \in ToSet(a) : \E i \in DOMAIN a : t = a[i]
    BY DEF ToSet
  <2>7. ASSUME NEW t \in ToSet(a)
        PROVE  \E u \in ToSet(b) : Normalised[u] = Normalised[t] /\ Folded[u] = Folded[t]
    BY <2>4, <2>5, <2>6
  <2>. QED
    BY <2>7 DEF NumbersOfLine, NumbersIn, IsNumber
<1>. QED
  BY <1>2, <1>3

(* What EveryNumberImported says of the jobs js of a file of these lines.  *)
Imports(js, lines) ==
  /\ UNION {ToSet(js[k].numbers) : k \in DOMAIN js} = NumbersOf(lines)
  /\ \A k \in DOMAIN js : Len(js[k].numbers) = Cardinality(ToSet(js[k].numbers))
  /\ \A t \in ToSet(FlattenSeq(lines)) : ~IsNumber(t) =>
       \E k \in DOMAIN js : \E u \in ToSet(js[k].invalid) : Folded[u] = Folded[t]

(* Jobs import a file when its lines and theirs have the same keys.        *)
SameKeys(parts, n, lines) ==
  /\ \A k \in 1 .. n : parts[k] \in Seq(Seq(Texts))
  /\ \A k \in 1 .. n : \A m \in 1 .. Len(parts[k]) : \E i \in 1 .. Len(lines) :
       InputKey(parts[k][m]) = InputKey(lines[i])
  /\ \A i \in 1 .. Len(lines) : \E k \in 1 .. n : \E m \in 1 .. Len(parts[k]) :
       InputKey(parts[k][m]) = InputKey(lines[i])

LEMMA PartsImport ==
  ASSUME NEW lines \in Seq(Seq(Texts)), NEW n, NEW parts, SameKeys(parts, n, lines)
  PROVE  Imports([k \in 1 .. n |-> Job(parts[k])], lines)
<1>. DEFINE js == [k \in 1 .. n |-> Job(parts[k])]
<1>1. DOMAIN js = 1 .. n /\ \A k \in 1 .. n : js[k] = Job(parts[k])
  OBVIOUS
<1>2. \A i \in 1 .. Len(lines) : lines[i] \in Seq(Texts)
  OBVIOUS
<1>3. \A k \in 1 .. n : /\ parts[k] \in Seq(Seq(Texts))
                        /\ \A m \in 1 .. Len(parts[k]) : parts[k][m] \in Seq(Texts)
  BY DEF SameKeys
<1>. HIDE DEF js
<1>4. ASSUME NEW k \in 1 .. n, NEW number \in ToSet(js[k].numbers)
      PROVE  number \in NumbersOf(lines)
  <2>1. PICK m \in 1 .. Len(parts[k]) : number \in NumbersOfLine(parts[k][m])
    BY <1>1, <1>3, NumbersOfLines
  <2>2. PICK i \in 1 .. Len(lines) : InputKey(parts[k][m]) = InputKey(lines[i])
    BY DEF SameKeys
  <2>3. number \in NumbersOfLine(lines[i])
    BY <1>2, <1>3, <2>1, <2>2, EqualKeys
  <2>. QED
    BY <2>3, NumbersOfLines
<1>5. ASSUME NEW number \in NumbersOf(lines)
      PROVE  \E k \in 1 .. n : number \in ToSet(js[k].numbers)
  <2>1. PICK i \in 1 .. Len(lines) : number \in NumbersOfLine(lines[i])
    BY NumbersOfLines
  <2>2. PICK k \in 1 .. n : \E m \in 1 .. Len(parts[k]) : InputKey(parts[k][m]) = InputKey(lines[i])
    BY DEF SameKeys
  <2>3. PICK m \in 1 .. Len(parts[k]) : InputKey(parts[k][m]) = InputKey(lines[i])
    BY <2>2
  <2>4. number \in NumbersOfLine(parts[k][m])
    BY <1>2, <1>3, <2>1, <2>3, EqualKeys
  <2>. QED
    BY <1>1, <1>3, <2>4, NumbersOfLines
<1>6. ASSUME NEW t \in ToSet(FlattenSeq(lines)), ~IsNumber(t)
      PROVE  \E k \in 1 .. n : \E u \in ToSet(js[k].invalid) : Folded[u] = Folded[t]
  <2>1. PICK i \in 1 .. Len(lines) : t \in ToSet(lines[i])
    BY NumbersOfLines
  <2>2. PICK k \in 1 .. n : \E m \in 1 .. Len(parts[k]) : InputKey(parts[k][m]) = InputKey(lines[i])
    BY DEF SameKeys
  <2>3. PICK m \in 1 .. Len(parts[k]) : InputKey(parts[k][m]) = InputKey(lines[i])
    BY <2>2
  <2>4. PICK u \in ToSet(parts[k][m]) : ~IsNumber(u) /\ Folded[u] = Folded[t]
    BY <1>2, <1>3, <1>6, <2>1, <2>3, EqualKeys
  <2>5. u \in ToSet(js[k].invalid)
    BY <1>1, <1>3, <2>4, NumbersOfLines
  <2>. QED
    BY <2>4, <2>5
<1>7. \A k \in 1 .. n : Len(js[k].numbers) = Cardinality(ToSet(js[k].numbers))
  BY <1>1, <1>3, NumbersOfLines
<1>8. UNION {ToSet(js[k].numbers) : k \in 1 .. n} = NumbersOf(lines)
  BY <1>4, <1>5
<1>9. Imports(js, lines)
  BY <1>1, <1>6, <1>7, <1>8 DEF Imports
<1>. QED
  BY <1>9 DEF js

LEMMA OneJob ==
  ASSUME NEW lines \in Seq(Seq(Texts))
  PROVE  Imports(<<Job(lines)>>, lines)
<1>. DEFINE parts == <<lines>>
<1>1. \A k \in 1 .. 1 : k = 1
  OBVIOUS
<1>2. SameKeys(parts, 1, lines)
  <2>1. 1 \in 1 .. 1 /\ parts[1] = lines
    OBVIOUS
  <2>. HIDE DEF parts
  <2>. QED
    BY <1>1, <2>1 DEF SameKeys
<1>3. [k \in 1 .. 1 |-> Job(parts[k])] = <<Job(lines)>>
  <2>1. parts[1] = lines
    OBVIOUS
  <2>. HIDE DEF parts
  <2>2. \A k \in 1 .. 1 : Job(parts[k]) = Job(lines)
    BY <1>1, <2>1
  <2>. QED
    BY <1>1, <2>2
<1>. HIDE DEF parts
<1>4. Imports([k \in 1 .. 1 |-> Job(parts[k])], lines)
  BY <1>2, PartsImport
<1>. QED
  BY <1>3, <1>4

LEMMA TwoJobs ==
  ASSUME NEW lines \in Seq(Seq(Texts)), NEW cut \in 1 .. Len(lines) - 1
  PROVE  Imports(<<Job(SubSeq(lines, 1, cut)), Job(SubSeq(lines, cut + 1, Len(lines)))>>, lines)
<1>. DEFINE a == SubSeq(lines, 1, cut)
            b == SubSeq(lines, cut + 1, Len(lines))
            parts == <<a, b>>
<1>1. /\ a \in Seq(Seq(Texts)) /\ Len(a) = cut /\ \A m \in 1 .. cut : a[m] = lines[m]
      /\ Len(lines) \in Nat /\ cut \in Nat /\ cut < Len(lines)
  OBVIOUS
<1>2. /\ b \in Seq(Seq(Texts)) /\ Len(b) = Len(lines) - cut
      /\ \A m \in 1 .. Len(lines) - cut : b[m] = lines[cut + m]
  OBVIOUS
<1>. HIDE DEF a, b
<1>0. /\ \A m \in 1 .. cut : m \in 1 .. Len(lines)
      /\ \A m \in 1 .. Len(lines) - cut : cut + m \in 1 .. Len(lines)
  BY <1>1
<1>3. 1 .. 2 = {1, 2} /\ parts[1] = a /\ parts[2] = b
  OBVIOUS
<1>. HIDE DEF parts
<1>4. ASSUME NEW i \in 1 .. Len(lines)
      PROVE  \E k \in 1 .. 2 : \E m \in 1 .. Len(parts[k]) : InputKey(parts[k][m]) = InputKey(lines[i])
  <2>1. CASE i <= cut
    <3>1. i \in 1 .. Len(a) /\ a[i] = lines[i]
      BY <1>1, <2>1
    <3>. QED
      BY <1>3, <3>1
  <2>2. CASE i > cut
    <3>1. i - cut \in 1 .. Len(b) /\ b[i - cut] = lines[i]
      BY <1>1, <1>2, <2>2
    <3>. QED
      BY <1>3, <3>1
  <2>3. i <= cut \/ i > cut
    BY <1>1
  <2>. QED
    BY <2>1, <2>2, <2>3
<1>5. ASSUME NEW k \in 1 .. 2, NEW m \in 1 .. Len(parts[k])
      PROVE  \E i \in 1 .. Len(lines) : InputKey(parts[k][m]) = InputKey(lines[i])
  <2>1. CASE k = 1
    <3>1. parts[k] = a /\ m \in 1 .. cut
      BY <1>1, <1>3, <2>1
    <3>2. m \in 1 .. Len(lines)
      BY <1>0, <3>1
    <3>3. parts[k][m] = lines[m]
      BY <1>1, <3>1
    <3>. QED
      BY <3>2, <3>3
  <2>2. CASE k = 2
    <3>1. parts[k] = b /\ m \in 1 .. Len(lines) - cut
      BY <1>2, <1>3, <2>2
    <3>2. cut + m \in 1 .. Len(lines)
      BY <1>0, <3>1
    <3>3. parts[k][m] = lines[cut + m]
      BY <1>2, <3>1
    <3>. QED
      BY <3>2, <3>3
  <2>. QED
    BY <1>3, <2>1, <2>2
<1>6. SameKeys(parts, 2, lines)
  BY <1>1, <1>2, <1>3, <1>4, <1>5 DEF SameKeys
<1>7. [k \in 1 .. 2 |-> Job(parts[k])] = <<Job(a), Job(b)>>
  <2>1. \A k \in 1 .. 2 : Job(parts[k]) = IF k = 1 THEN Job(a) ELSE Job(b)
    BY <1>3
  <2>. QED
    BY <1>3, <2>1
<1>8. Imports([k \in 1 .. 2 |-> Job(parts[k])], lines)
  BY <1>6, PartsImport
<1>. QED
  BY <1>7, <1>8 DEF a, b

LEMMA DealtJobs ==
  ASSUME NEW lines \in Seq(Seq(Texts)), NEW n \in Nat \ {0}, n <= Len(UniqueInputs(lines))
  PROVE  Imports([k \in 1 .. n |-> Job(Bucket(UniqueInputs(lines), n, k))], lines)
<1>. DEFINE inputs == UniqueInputs(lines)
            parts == [k \in 1 .. n |-> Bucket(inputs, n, k)]
<1>1. InputsOf(inputs, ToSet(lines))
  BY UniqueInputsOf
<1>. HIDE DEF inputs
<1>2. inputs \in Seq(Seq(Texts)) /\ Len(inputs) \in Nat /\ n <= Len(inputs)
  BY <1>1 DEF InputsOf, inputs
<1>3. \A k \in 1 .. n : parts[k] = Bucket(inputs, n, k)
  OBVIOUS
<1>4. \A k \in 1 .. n :
        /\ parts[k] \in Seq(Seq(Texts))
        /\ Len(parts[k]) = Dealt(Len(inputs), n, k)
        /\ \A m \in 1 .. Len(parts[k]) :
             /\ parts[k][m] = inputs[PositionOf(n, k, m)]
             /\ PositionOf(n, k, m) \in 1 .. Len(inputs)
  <2>. SUFFICES ASSUME NEW k \in 1 .. n
                PROVE  /\ parts[k] \in Seq(Seq(Texts))
                       /\ Len(parts[k]) = Dealt(Len(inputs), n, k)
                       /\ \A m \in 1 .. Len(parts[k]) :
                            /\ parts[k][m] = inputs[PositionOf(n, k, m)]
                            /\ PositionOf(n, k, m) \in 1 .. Len(inputs)
    OBVIOUS
  <2>. HIDE DEF parts
  <2>1. parts[k] = Bucket(inputs, n, k)
    BY <1>3
  <2>. DEFINE S == Seq(Texts)
  <2>2. inputs \in Seq(S)
    BY <1>2
  <2>. HIDE DEF S
  <2>3. /\ Bucket(inputs, n, k) \in Seq(S)
        /\ Len(Bucket(inputs, n, k)) = Dealt(Len(inputs), n, k)
        /\ \A m \in 1 .. Dealt(Len(inputs), n, k) :
             /\ Bucket(inputs, n, k)[m] = inputs[PositionOf(n, k, m)]
             /\ PositionOf(n, k, m) \in 1 .. Len(inputs)
    BY <1>2, <2>2, BucketLines
  <2>. QED
    BY <2>1, <2>3 DEF S
<1>. HIDE DEF parts
<1>5. \A line : line \in ToSet(lines) <=> \E i \in 1 .. Len(lines) : line = lines[i]
  <2>1. DOMAIN lines = 1 .. Len(lines)
    OBVIOUS
  <2>. QED
    BY <2>1 DEF ToSet
<1>6. ASSUME NEW k \in 1 .. n, NEW m \in 1 .. Len(parts[k])
      PROVE  \E i \in 1 .. Len(lines) : InputKey(parts[k][m]) = InputKey(lines[i])
  <2>1. PICK line \in ToSet(lines) : inputs[PositionOf(n, k, m)] = InputOutput(line)
    BY <1>1, <1>4 DEF InputsOf
  <2>2. PICK i \in 1 .. Len(lines) : line = lines[i]
    BY <1>5
  <2>3. line \in Seq(Texts)
    BY <2>2
  <2>4. InputKey(inputs[PositionOf(n, k, m)]) = InputKey(lines[i])
    BY <2>1, <2>2, <2>3, OutputOfLine
  <2>. QED
    BY <1>4, <2>4
<1>7. ASSUME NEW i \in 1 .. Len(lines)
      PROVE  \E k \in 1 .. n : \E m \in 1 .. Len(parts[k]) : InputKey(parts[k][m]) = InputKey(lines[i])
  <2>1. lines[i] \in ToSet(lines)
    BY <1>5
  <2>2. PICK p \in 1 .. Len(inputs) : InputKey(inputs[p]) = InputKey(lines[i])
    BY <1>1, <2>1 DEF InputsOf
  <2>3. PICK k \in 1 .. n : \E m \in 1 .. Dealt(Len(inputs), n, k) : p = PositionOf(n, k, m)
    BY <1>2, DealtPositions
  <2>4. PICK m \in 1 .. Len(parts[k]) : p = PositionOf(n, k, m)
    BY <1>4, <2>3
  <2>5. InputKey(parts[k][m]) = InputKey(lines[i])
    BY <1>4, <2>2, <2>4
  <2>. QED
    BY <2>5
<1>8. SameKeys(parts, n, lines)
  BY <1>4, <1>6, <1>7 DEF SameKeys
<1>9. Imports([k \in 1 .. n |-> Job(parts[k])], lines)
  BY <1>8, PartsImport
<1>10. [k \in 1 .. n |-> Job(parts[k])] = [k \in 1 .. n |-> Job(Bucket(inputs, n, k))]
  BY <1>3
<1>. QED
  BY <1>9, <1>10 DEF inputs

(* What FilesAreDealtFairly says of the jobs js of such a file.            *)
Fairly(js, lines) ==
  /\ \A number \in NumbersOf(lines) :
       Cardinality({k \in DOMAIN js : Contains(js[k].numbers, number)}) = 1
  /\ \A k, l \in DOMAIN js : /\ TotalItems(js[k]) >= 1
                             /\ TotalItems(js[k]) <= TotalItems(js[l]) + 1

LEMMA SingleText ==
  ASSUME NEW line \in Seq(Texts), Len(line) = 1
  PROVE  /\ line[1] \in Texts
         /\ \A number : number \in NumbersOfLine(line)
              <=> IsNumber(line[1]) /\ number = Normalised[line[1]]
         /\ IsNumber(line[1]) => InputKey(line) = <<"phone", Normalised[line[1]]>>
<1>1. DOMAIN line = {1} /\ line[1] \in Texts
  <2>1. 1 .. 1 = {1}
    OBVIOUS
  <2>. QED
    BY <2>1
<1>2. ToSet(line) = {line[1]}
  BY <1>1 DEF ToSet
<1>3. IsNumber(line[1]) => InputKey(line) = <<"phone", Normalised[line[1]]>>
  BY DEF InputKey
<1>. QED
  BY <1>1, <1>2, <1>3 DEF NumbersOfLine, NumbersIn

LEMMA DealtJobsAreFair ==
  ASSUME NEW lines \in Seq(Seq(Texts)), NEW n \in Nat \ {0}, n <= Len(UniqueInputs(lines)),
         \A i \in DOMAIN lines : Len(lines[i]) = 1
  PROVE  Fairly([k \in 1 .. n |-> Job(Bucket(UniqueInputs(lines), n, k))], lines)
<1>. DEFINE inputs == UniqueInputs(lines)
            js == [k \in 1 .. n |-> Job(Bucket(inputs, n, k))]
            d(k) == Dealt(Len(inputs), n, k)
<1>0. Imports(js, lines)
  BY DealtJobs
<1>1. InputsOf(inputs, ToSet(lines))
  BY UniqueInputsOf
<1>. HIDE DEF inputs
<1>2. inputs \in Seq(Seq(Texts)) /\ Len(inputs) \in Nat /\ n <= Len(inputs)
  BY <1>1 DEF InputsOf, inputs
<1>3. DOMAIN js = 1 .. n /\ \A k \in 1 .. n : js[k] = Job(Bucket(inputs, n, k))
  OBVIOUS
<1>. HIDE DEF js
<1>4. \A k \in 1 .. n :
        /\ Bucket(inputs, n, k) \in Seq(Seq(Texts))
        /\ Len(Bucket(inputs, n, k)) = d(k) /\ d(k) \in Nat \ {0}
        /\ \A m \in 1 .. d(k) :
             /\ Bucket(inputs, n, k)[m] = inputs[PositionOf(n, k, m)]
             /\ PositionOf(n, k, m) \in 1 .. Len(inputs)
  <2>. DEFINE S == Seq(Texts)
  <2>1. inputs \in Seq(S)
    BY <1>2
  <2>. HIDE DEF S
  <2>2. \A k \in 1 .. n :
          /\ Bucket(inputs, n, k) \in Seq(S)
          /\ Len(Bucket(inputs, n, k)) = d(k)
          /\ \A m \in 1 .. d(k) :
               /\ Bucket(inputs, n, k)[m] = inputs[PositionOf(n, k, m)]
               /\ PositionOf(n, k, m) \in 1 .. Len(inputs)
    BY <1>2, <2>1, BucketLines
  <2>3. \A k \in 1 .. n : d(k) \in Nat \ {0}
    BY <1>2, DealtBounds
  <2>. QED
    BY <2>2, <2>3 DEF S
<1>. HIDE DEF d
(* Every input is one text, and a number in at most one of them.           *)
<1>5. ASSUME NEW p \in 1 .. Len(inputs)
      PROVE  inputs[p] \in Seq(Texts) /\ Len(inputs[p]) = 1
  <2>1. PICK line \in ToSet(lines) : inputs[p] = InputOutput(line)
    BY <1>1 DEF InputsOf
  <2>2. line \in Seq(Texts) /\ Len(line) = 1
    <3>1. \A i \in DOMAIN lines : lines[i] \in Seq(Texts)
      OBVIOUS
    <3>. QED
      BY <2>1, <3>1 DEF ToSet
  <2>. QED
    BY <2>1, <2>2, OutputOfLine
<1>6. ASSUME NEW p \in 1 .. Len(inputs), NEW q \in 1 .. Len(inputs),
             IsNumber(inputs[p][1]), IsNumber(inputs[q][1]),
             Normalised[inputs[p][1]] = Normalised[inputs[q][1]]
      PROVE  p = q
  <2>1. InputKey(inputs[p]) = InputKey(inputs[q])
    BY <1>5, <1>6, SingleText
  <2>. QED
    BY <1>1, <2>1 DEF InputsOf, KeysDiffer
(* Every input is one item.                                                *)
<1>7. ASSUME NEW k \in 1 .. n
      PROVE  TotalItems(js[k]) = d(k)
  <2>. DEFINE part == Bucket(inputs, n, k)
              texts == FlattenSeq(part)
  <2>1. /\ part \in Seq(Seq(Texts)) /\ Len(part) = d(k) /\ d(k) \in Nat
        /\ \A m \in 1 .. d(k) : /\ part[m] = inputs[PositionOf(n, k, m)]
                                /\ PositionOf(n, k, m) \in 1 .. Len(inputs)
    BY <1>4
  <2>. HIDE DEF part
  <2>2. \A m \in 1 .. Len(part) : Len(part[m]) = 1
    BY <1>5, <2>1
  <2>3. Len(texts) = d(k) /\ \A m \in 1 .. d(k) : texts[m] = part[m][1]
    BY <2>1, <2>2, FlatSingles
  <2>4. \A m \in 1 .. d(k) : texts[m] = inputs[PositionOf(n, k, m)][1]
    BY <2>1, <2>3
  <2>. HIDE DEF texts
  <2>5. ASSUME NEW a \in 1 .. d(k), NEW b \in 1 .. d(k), IsNumber(texts[a]), IsNumber(texts[b]),
               Normalised[texts[a]] = Normalised[texts[b]]
        PROVE  a = b
    <3>. DEFINE p == PositionOf(n, k, a)
                q == PositionOf(n, k, b)
    <3>0. /\ p \in 1 .. Len(inputs) /\ texts[a] = inputs[p][1]
          /\ q \in 1 .. Len(inputs) /\ texts[b] = inputs[q][1]
      BY <2>1, <2>4
    <3>. HIDE DEF p, q
    <3>1. p = q
      BY <1>6, <2>5, <3>0
    <3>2. a \in Nat \ {0} /\ b \in Nat \ {0}
      BY <2>1
    <3>. QED
      BY <3>1, <3>2, DealtOnce DEF p, q
  <2>6. TotalItems(Job(part)) = Len(texts)
    BY <2>1, <2>3, <2>5, JobItems DEF texts
  <2>. QED
    BY <1>3, <2>3, <2>6 DEF part
<1>8. ASSUME NEW k \in 1 .. n, NEW number, Contains(js[k].numbers, number)
      PROVE  \E m \in 1 .. d(k) : /\ IsNumber(inputs[PositionOf(n, k, m)][1])
                                  /\ number = Normalised[inputs[PositionOf(n, k, m)][1]]
  <2>. DEFINE part == Bucket(inputs, n, k)
  <2>1. /\ part \in Seq(Seq(Texts)) /\ Len(part) = d(k)
        /\ \A m \in 1 .. d(k) : /\ part[m] = inputs[PositionOf(n, k, m)]
                                /\ PositionOf(n, k, m) \in 1 .. Len(inputs)
    BY <1>4
  <2>2. js[k] = Job(part)
    BY <1>3
  <2>. HIDE DEF part
  <2>3. number \in ToSet(Job(part).numbers)
    BY <1>8, <2>1, <2>2, NumbersOfLines, ContainsIsIn
  <2>4. PICK m \in 1 .. Len(part) : number \in NumbersOfLine(part[m])
    BY <2>1, <2>3, NumbersOfLines
  <2>. DEFINE p == PositionOf(n, k, m)
  <2>5. m \in 1 .. d(k) /\ p \in 1 .. Len(inputs) /\ part[m] = inputs[p]
    BY <2>1
  <2>. HIDE DEF p
  <2>6. IsNumber(inputs[p][1]) /\ number = Normalised[inputs[p][1]]
    BY <1>5, <2>4, <2>5, SingleText
  <2>. QED
    BY <2>5, <2>6 DEF p
<1>9. ASSUME NEW number \in NumbersOf(lines)
      PROVE  Cardinality({k \in DOMAIN js : Contains(js[k].numbers, number)}) = 1
  <2>1. PICK k \in 1 .. n : number \in ToSet(js[k].numbers)
    BY <1>0, <1>3 DEF Imports
  <2>2. js[k].numbers \in Seq(Texts)
    BY <1>3, <1>4, NumbersOfLines
  <2>3. Contains(js[k].numbers, number)
    BY <2>1, <2>2, ContainsIsIn
  <2>4. ASSUME NEW l \in 1 .. n, Contains(js[l].numbers, number)
        PROVE  l = k
    <3>1. PICK a \in 1 .. d(k) : /\ IsNumber(inputs[PositionOf(n, k, a)][1])
                                 /\ number = Normalised[inputs[PositionOf(n, k, a)][1]]
      BY <1>8, <2>3
    <3>2. PICK b \in 1 .. d(l) : /\ IsNumber(inputs[PositionOf(n, l, b)][1])
                                 /\ number = Normalised[inputs[PositionOf(n, l, b)][1]]
      BY <1>8, <2>4
    <3>3. PositionOf(n, k, a) = PositionOf(n, l, b)
      BY <1>4, <1>6, <3>1, <3>2
    <3>4. a \in Nat \ {0} /\ b \in Nat \ {0}
      BY <1>4
    <3>. QED
      BY <3>3, <3>4, DealtOnce
  <2>5. {l \in DOMAIN js : Contains(js[l].numbers, number)} = {k}
    BY <1>3, <2>3, <2>4
  <2>. QED
    BY <2>5, FS_Singleton
<1>10. ASSUME NEW k \in 1 .. n, NEW l \in 1 .. n
       PROVE  TotalItems(js[k]) >= 1 /\ TotalItems(js[k]) <= TotalItems(js[l]) + 1
  <2>1. d(k) \in Nat \ {0} /\ d(k) <= d(l) + 1
    BY <1>2, <1>4, DealtFairly DEF d
  <2>. QED
    BY <1>7, <2>1
<1>11. Fairly(js, lines)
  BY <1>3, <1>9, <1>10 DEF Fairly
<1>. QED
  BY <1>11 DEF js, inputs

-----------------------------------------------------------------------------
ImportInv ==
  /\ file \in Seq(Seq(Texts))
  /\ EveryNumberImported /\ FilesAreDealtFairly

LEMMA ImportStart ==
  ImportInit => ImportInv
<1>1. <<>> \in Seq(Seq(Texts))
  OBVIOUS
<1>. QED
  BY <1>1 DEF ImportInit, ImportInv, EveryNumberImported, FilesAreDealtFairly

(* What the invariant says once something was imported.                    *)
LEMMA ImportedIs ==
  /\ mode' # "none" /\ Imports(jobs', file') => EveryNumberImported'
  /\ mode' = "distributed" /\ Fairly(jobs', file') => FilesAreDealtFairly'
  /\ mode' # "distributed" => FilesAreDealtFairly'
BY DEF Imports, Fairly, EveryNumberImported, FilesAreDealtFairly, Shared

LEMMA ImportSteps ==
  ImportInv /\ [ImportNext]_importVars => ImportInv'
<1>. SUFFICES ASSUME ImportInv, [ImportNext]_importVars
              PROVE  ImportInv'
  OBVIOUS
<1>0. file \in Seq(Seq(Texts))
  BY DEF ImportInv
<1>1. ASSUME NEW line \in Lines, AddLine(line)
      PROVE  ImportInv'
  <2>1. line \in Seq(Texts)
    BY ImportAssumption
  <2>2. file' \in Seq(Seq(Texts)) /\ mode' = "none"
    BY <1>0, <1>1, <2>1 DEF AddLine
  <2>. QED
    BY <2>2 DEF ImportInv, EveryNumberImported, FilesAreDealtFairly
<1>2. CASE ImportSingle
  <2>1. mode' = "single" /\ jobs' = <<Job(file)>> /\ file' = file
    BY <1>2 DEF ImportSingle
  <2>2. Imports(jobs', file')
    BY <1>0, <2>1, OneJob
  <2>. QED
    BY <1>0, <2>1, <2>2, ImportedIs DEF ImportInv
<1>3. ASSUME NEW selected \in 2 .. MaxSelected, ImportDistributed(selected)
      PROVE  ImportInv'
  <2>. DEFINE inputs == UniqueInputs(file)
              n == IF selected < Len(inputs) THEN selected ELSE Len(inputs)
  <2>1. /\ mode' = "distributed" /\ file' = file /\ Len(inputs) >= 2
        /\ jobs' = [k \in 1 .. n |-> Job(Bucket(inputs, n, k))]
    BY <1>3 DEF ImportDistributed
  <2>2. Len(inputs) \in Nat
    BY <1>0, UniqueInputsOf DEF InputsOf
  <2>3. selected \in Nat \ {0}
    BY ImportAssumption
  <2>. HIDE DEF inputs
  <2>4. n \in Nat \ {0} /\ n <= Len(inputs)
    BY <2>1, <2>2, <2>3
  <2>. HIDE DEF n
  <2>5. Imports(jobs', file')
    BY <1>0, <2>1, <2>4, DealtJobs DEF inputs
  <2>6. (\A i \in DOMAIN file : Len(file[i]) = 1) => Fairly(jobs', file')
    BY <1>0, <2>1, <2>4, DealtJobsAreFair DEF inputs
  <2>7. FilesAreDealtFairly'
    <3>1. CASE \A i \in DOMAIN file : Len(file[i]) = 1
      BY <2>1, <2>6, <3>1, ImportedIs
    <3>2. CASE ~ \A i \in DOMAIN file : Len(file[i]) = 1
      BY <2>1, <3>2 DEF FilesAreDealtFairly
    <3>. QED
      BY <3>1, <3>2
  <2>. QED
    BY <1>0, <2>1, <2>5, <2>7, ImportedIs DEF ImportInv
<1>4. ASSUME NEW cut \in 1 .. MaxLines, CreateMulti(cut)
      PROVE  ImportInv'
  <2>1. /\ cut \in 1 .. Len(file) - 1 /\ mode' = "multi" /\ file' = file
        /\ jobs' = <<Job(SubSeq(file, 1, cut)), Job(SubSeq(file, cut + 1, Len(file)))>>
    BY <1>4 DEF CreateMulti
  <2>2. Imports(jobs', file')
    BY <1>0, <2>1, TwoJobs
  <2>. QED
    BY <1>0, <2>1, <2>2, ImportedIs DEF ImportInv
<1>5. CASE UNCHANGED importVars
  BY <1>5 DEF importVars, ImportInv, EveryNumberImported, FilesAreDealtFairly, Shared
<1>. QED
  BY <1>1, <1>2, <1>3, <1>4, <1>5 DEF ImportNext

LEMMA ImportInvariant ==
  ImportSpec => []ImportInv
BY ImportStart, ImportSteps, PTL DEF ImportSpec

(* However a file of any length is split, merged and dealt out, to any     *)
(* number of accounts, its jobs check its numbers, all of them and no      *)
(* others, none twice in one job, and no text that is no number is lost.   *)
THEOREM NoNumberIsLost ==
  ImportSpec => []EveryNumberImported
<1>1. ImportInv => EveryNumberImported
  BY DEF ImportInv
<1>. QED
  BY <1>1, ImportInvariant, PTL

(* With one text to the line a number goes to one branch, in whatever      *)
(* spellings it occurs, and the branches share the work to one item.       *)
THEOREM DealingIsFair ==
  ImportSpec => []FilesAreDealtFairly
<1>1. ImportInv => FilesAreDealtFairly
  BY DEF ImportInv
<1>. QED
  BY <1>1, ImportInvariant, PTL
=============================================================================
