----------------------------- MODULE Induction -----------------------------
(***************************************************************************)
(* Induction without operator parameters.  The induction theorems of the   *)
(* library take the predicate as an operator, which the provers cannot     *)
(* instantiate.  Here the predicate is a set: what holds of 0 and of the   *)
(* successor of whatever it holds of holds of every number.  From that     *)
(* follow the facts about iteration the other proofs need: the recursive   *)
(* function that replays a sequence exists, and so does the one the folds  *)
(* of SequencesExt are defined by.  Last come lists linked through an      *)
(* array, as the tables of the program have them.                          *)
(***************************************************************************)
EXTENDS SequencesExt, FiniteSetTheorems, SequenceTheorems, TLAPS

\* A set with 0 and the successor of each of its numbers has every number: were n
\* missing, i |-> i + 1 would map the numbers of the set up to n one to one into those
\* without 0, which are fewer.
LEMMA NatSetInduction ==
  ASSUME NEW S, 0 \in S, \A n \in Nat : n \in S => n + 1 \in S
  PROVE  Nat \subseteq S
<1>1. SUFFICES ASSUME NEW n \in Nat, n \notin S PROVE FALSE
  OBVIOUS
<1> DEFINE T == (0..n) \cap S
           U == T \ {0}
           f == [i \in T |-> i + 1]
<1>2. IsFiniteSet(T) /\ Cardinality(T) \in Nat
  <2>1. IsFiniteSet(0..n) BY FS_Interval
  <2>2. IsFiniteSet(T) BY <2>1, FS_Subset
  <2> QED BY <2>2, FS_CardinalityType
<1>3. 0 \in T BY <1>1
<1>4. /\ IsFiniteSet(U) /\ Cardinality(U) = Cardinality(T) - 1
  BY <1>2, <1>3, FS_RemoveElement
<1>5. f \in [T -> U]
  BY <1>1, SMT
<1>6. \A i, j \in T : f[i] = f[j] => i = j
  OBVIOUS
<1>7. Cardinality(U) < Cardinality(T) BY <1>2, <1>4
<1>8. \E x, y \in T : x # y /\ f[x] = f[y]
  <2> HIDE DEF f, U, T
  <2> QED BY <1>2, <1>4, <1>5, <1>7, FS_PigeonHole
<1> QED BY <1>6, <1>8

\* The same up to a bound.
LEMMA IntervalInduction ==
  ASSUME NEW n \in Nat, NEW S, 0 \in S, \A i \in 1..n : i - 1 \in S => i \in S
  PROVE  0..n \subseteq S
<1> DEFINE T == S \cup {i \in Nat : i > n}
<1>1. 0 \in T OBVIOUS
<1>2. ASSUME NEW i \in Nat, i \in T PROVE i + 1 \in T
  <2>1. CASE i < n
    <3>1. i \in S BY <1>2, <2>1
    <3>2. i + 1 \in 1..n /\ (i + 1) - 1 = i BY <1>2, <2>1
    <3> QED BY <3>1, <3>2
  <2>2. CASE i >= n BY <1>2, <2>2
  <2> QED BY <1>2, <2>1, <2>2
<1>3. Nat \subseteq T
  <2> HIDE DEF T
  <2> QED BY <1>1, <1>2, NatSetInduction
<1> QED BY <1>3

\* The last position of a nonempty sequence, in the terms of the fold operators.
LEMMA LastOfInterval ==
  ASSUME NEW n \in Nat \ {0}
  PROVE  /\ Max(1..n) = n
         /\ (1..n) \ {n} = 1..(n-1)
         /\ 1..n # {}
<1>1. n \in 1..n /\ \A y \in 1..n : n >= y OBVIOUS
<1>2. \A x \in 1..n : (\A y \in 1..n : x >= y) => x = n OBVIOUS
<1>3. Max(1..n) = n
  BY <1>1, <1>2 DEF Max
<1>4. (1..n) \ {n} = 1..(n-1) OBVIOUS
<1> QED BY <1>3, <1>4

\* A set of positions up to n that has n ends with it.
LEMMA LastOfSet ==
  ASSUME NEW n \in Nat, NEW s \in SUBSET (1..n), n \in s
  PROVE  Max(s) = n
<1>1. \A y \in s : n >= y OBVIOUS
<1>2. \A x \in s : (\A y \in s : x >= y) => x = n BY <1>1
<1> QED BY <1>1, <1>2 DEF Max

\* A nonempty set of positions has its maximum.
LEMMA MaxInSet ==
  ASSUME NEW n \in Nat, NEW s \in SUBSET (1..n), s # {}
  PROVE  Max(s) \in s /\ \A y \in s : Max(s) >= y
<1> DEFINE Q(k) == \E x \in s \cap (1..k) : \A y \in s \cap (1..k) : x >= y
           R == {k \in 0..n : s \cap (1..k) = {} \/ Q(k)}
<1>1. 0 \in R OBVIOUS
<1>2. ASSUME NEW k \in 1..n, k - 1 \in R PROVE k \in R
  <2>1. CASE k \in s
    <3>1. k \in s \cap (1..k) /\ \A y \in s \cap (1..k) : k >= y BY <2>1
    <3> QED BY <3>1
  <2>2. CASE k \notin s
    <3>1. s \cap (1..k) = s \cap (1..(k-1)) BY <2>2
    <3>2. s \cap (1..(k-1)) = {} \/ Q(k-1) BY <1>2
    <3>3. Q(k-1) => Q(k) BY <3>1
    <3> HIDE DEF Q
    <3> QED BY <3>1, <3>2, <3>3
  <2> QED BY <2>1, <2>2
<1>3. n \in R
  <2> HIDE DEF R
  <2>1. 0..n \subseteq R BY <1>1, <1>2, IntervalInduction
  <2> QED BY <2>1
<1>4. s \cap (1..n) = s OBVIOUS
<1>5. \E x \in s : \A y \in s : x >= y BY <1>3, <1>4
<1> QED BY <1>5 DEF Max

\* A set of numbers has a least one.
LEMMA LeastOfSet ==
  ASSUME NEW s \in SUBSET Nat, s # {}
  PROVE  \E x \in s : \A y \in s : x <= y
<1> DEFINE T == {n \in Nat : \A y \in s : n <= y}
<1>1. SUFFICES ASSUME \A x \in s : \E y \in s : y < x PROVE FALSE
  <2>1. \A x, y \in s : ~(x <= y) <=> y < x OBVIOUS
  <2> QED BY <2>1
<1>2. 0 \in T OBVIOUS
<1>3. ASSUME NEW n \in Nat, n \in T PROVE n + 1 \in T
  <2>1. n \notin s
    <3> SUFFICES ASSUME n \in s PROVE FALSE OBVIOUS
    <3>1. PICK y \in s : y < n BY <1>1
    <3>2. n <= y BY <1>3
    <3> QED BY <3>1, <3>2
  <2>2. ASSUME NEW y \in s PROVE n + 1 <= y
    <3>1. n <= y /\ n # y /\ y \in Nat BY <1>3, <2>1
    <3> QED BY <3>1
  <2> QED BY <2>2
<1>4. Nat \subseteq T
  <2> HIDE DEF T
  <2> QED BY <1>2, <1>3, NatSetInduction
<1>5. PICK m \in s : TRUE OBVIOUS
<1>6. m + 1 \in T BY <1>4
<1>7. m + 1 <= m BY <1>6
<1> QED BY <1>7

\* It is the minimum.
LEMMA MinInSet ==
  ASSUME NEW s \in SUBSET Nat, s # {}
  PROVE  Min(s) \in s /\ \A y \in s : Min(s) <= y
BY LeastOfSet DEF Min

\* The values a function G, applied to what it gave last and to the next element of
\* seq, runs through.
RunsOf(V, G, base, seq) ==
  {h \in [0..Len(seq) -> V] :
     h[0] = base /\ \A i \in 1..Len(seq) : h[i] = G[h[i-1]][seq[i]]}

\* Whatever the function and the sequence, there is a run.
LEMMA RunExists ==
  ASSUME NEW V, NEW E, NEW G \in [V -> [E -> V]], NEW base \in V, NEW seq \in Seq(E)
  PROVE  RunsOf(V, G, base, seq) # {}
<1> DEFINE Run(n, h) == h[0] = base /\ \A i \in 1..n : h[i] = G[h[i-1]][seq[i]]
           Runs(n) == \E h \in [0..n -> V] : Run(n, h)
           S == {n \in 0..Len(seq) : Runs(n)}
<1>0. Len(seq) \in Nat BY LenProperties
<1>1. 0 \in S
  <2> DEFINE h == [i \in 0..0 |-> base]
  <2>1. h \in [0..0 -> V] OBVIOUS
  <2>2. Run(0, h) OBVIOUS
  <2>3. Runs(0)
    <3> HIDE DEF h, Run
    <3> QED BY <2>1, <2>2
  <2> HIDE DEF Runs
  <2> QED BY <1>0, <2>3
<1>2. ASSUME NEW n \in 1..Len(seq), n - 1 \in S PROVE n \in S
  <2>1. PICK h \in [0..(n-1) -> V] : Run(n - 1, h) BY <1>2
  <2>2. G[h[n-1]][seq[n]] \in V
    <3>1. seq[n] \in E BY ElementOfSeq
    <3>2. h[n-1] \in V BY <1>0
    <3> QED BY <3>1, <3>2
  <2> DEFINE k == [i \in 0..n |-> IF i = n THEN G[h[n-1]][seq[n]] ELSE h[i]]
  <2>3. k \in [0..n -> V]
    <3>1. \A i \in 0..n : i # n => h[i] \in V BY <1>0
    <3> QED BY <2>2, <3>1
  <2>4. k[0] = base BY <1>0, <2>1
  <2>5. ASSUME NEW i \in 1..n PROVE k[i] = G[k[i-1]][seq[i]]
    <3>1. k[i-1] = h[i-1] BY <1>0
    <3>2. CASE i = n BY <3>1, <3>2
    <3>3. CASE i # n
      <4>1. i \in 1..(n-1) BY <1>0, <3>3
      <4>2. k[i] = h[i] BY <3>3
      <4>3. h[i] = G[h[i-1]][seq[i]] BY <4>1, <2>1
      <4> QED BY <3>1, <4>2, <4>3
    <3> QED BY <3>2, <3>3
  <2>6. Run(n, k) BY <2>4, <2>5
  <2>7. Runs(n)
    <3> HIDE DEF k, Run
    <3> QED BY <2>3, <2>6
  <2> HIDE DEF Runs
  <2> QED BY <2>7, <1>0
<1>3. Len(seq) \in S
  <2> HIDE DEF S
  <2>1. 0..Len(seq) \subseteq S BY <1>0, <1>1, <1>2, IntervalInduction
  <2> QED BY <1>0, <2>1
<1>4. Runs(Len(seq))
  <2> HIDE DEF Runs
  <2> QED BY <1>3
<1> QED BY <1>4 DEF RunsOf

\* The same without a sequence.
IterationsOf(V, G, base, n) ==
  {h \in [0..n -> V] : h[0] = base /\ \A i \in 1..n : h[i] = G[h[i-1]]}

\* Whatever the function, there is such a run of any length.
LEMMA IterationExists ==
  ASSUME NEW V, NEW G \in [V -> V], NEW base \in V, NEW n \in Nat
  PROVE  IterationsOf(V, G, base, n) # {}
<1> DEFINE seq == [i \in 1..n |-> 0]
           F == [v \in V |-> [x \in {0} |-> G[v]]]
<1>1. seq \in Seq({0}) /\ Len(seq) = n
  <2>1. seq \in [1..n -> {0}] OBVIOUS
  <2>2. DOMAIN seq = 1..n OBVIOUS
  <2> HIDE DEF seq
  <2>3. seq \in Seq({0}) BY <2>1, SeqDef
  <2> QED BY <2>2, <2>3, LenProperties
<1>2. F \in [V -> [{0} -> V]] OBVIOUS
<1>3. \A v \in V : F[v][0] = G[v] OBVIOUS
<1>4. \A i \in 1..n : seq[i] = 0 OBVIOUS
<1> HIDE DEF seq, F
<1>5. RunsOf(V, F, base, seq) # {} BY <1>1, <1>2, RunExists, Zenon
<1>6. PICK h \in [0..n -> V] : h[0] = base /\ \A i \in 1..n : h[i] = F[h[i-1]][seq[i]]
  BY <1>1, <1>5 DEF RunsOf
<1>7. \A i \in 1..n : h[i] = G[h[i-1]]
  <2> TAKE i \in 1..n
  <2>1. h[i-1] \in V BY <1>6
  <2> QED BY <2>1, <1>3, <1>4, <1>6
<1> QED BY <1>6, <1>7 DEF IterationsOf

\* The same with the recursion of the fold operators, over sets of positions.
FoldsOf(V, G, base, seq) ==
  {g \in [SUBSET (1..Len(seq)) -> V] :
     g = [s \in SUBSET (1..Len(seq)) |->
            IF s = {} THEN base ELSE G[g[s \ {Max(s)}]][seq[Max(s)]]]}

\* Whatever the function and the sequence, the recursion of a fold has a solution.
LEMMA FoldExists ==
  ASSUME NEW V, NEW E, NEW G \in [V -> [E -> V]], NEW base \in V, NEW seq \in Seq(E)
  PROVE  FoldsOf(V, G, base, seq) # {}
<1> DEFINE Step(g, s) == IF s = {} THEN base ELSE G[g[s \ {Max(s)}]][seq[Max(s)]]
           Fold(n, g) == \A s \in SUBSET (1..n) : g[s] = Step(g, s)
           Folds(n) == \E g \in [SUBSET (1..n) -> V] : Fold(n, g)
           S == {n \in 0..Len(seq) : Folds(n)}
<1>0. Len(seq) \in Nat BY LenProperties
<1>1. 0 \in S
  <2> DEFINE g == [s \in SUBSET (1..0) |-> base]
  <2>1. g \in [SUBSET (1..0) -> V] OBVIOUS
  <2>2. \A s \in SUBSET (1..0) : s = {} OBVIOUS
  <2>3. Fold(0, g) BY <2>2
  <2>4. Folds(0)
    <3> HIDE DEF g, Fold
    <3> QED BY <2>1, <2>3
  <2> HIDE DEF Folds
  <2> QED BY <1>0, <2>4
<1>2. ASSUME NEW n \in 1..Len(seq), n - 1 \in S PROVE n \in S
  <2>1. PICK g \in [SUBSET (1..(n-1)) -> V] : Fold(n - 1, g)
    <3>1. Folds(n - 1)
      <4> HIDE DEF Folds
      <4> QED BY <1>2
    <3> HIDE DEF Fold
    <3> QED BY <3>1
  <2>2. seq[n] \in E BY ElementOfSeq
  <2> DEFINE k == [s \in SUBSET (1..n) |->
                     IF n \in s THEN G[g[s \ {n}]][seq[n]] ELSE g[s]]
  <2>3. \A s \in SUBSET (1..n) : /\ s \ {n} \in SUBSET (1..(n-1))
                                 /\ n \notin s => s \in SUBSET (1..(n-1))
    BY <1>0
  <2>4. k \in [SUBSET (1..n) -> V]
    <3>1. ASSUME NEW s \in SUBSET (1..n) PROVE k[s] \in V
      <4>1. CASE n \in s
        <5>1. g[s \ {n}] \in V BY <2>3
        <5>2. \A v \in V, e \in E : G[v][e] \in V OBVIOUS
        <5>3. G[g[s \ {n}]][seq[n]] \in V BY <5>1, <5>2, <2>2
        <5> QED BY <4>1, <5>3
      <4>2. CASE n \notin s BY <4>2, <2>3
      <4> QED BY <4>1, <4>2
    <3> QED BY <3>1
  <2>5. ASSUME NEW s \in SUBSET (1..n) PROVE k[s] = Step(k, s)
    <3>1. CASE n \in s
      <4>1. Max(s) = n BY <3>1, <1>0, LastOfSet
      <4>2. s \ {n} \in SUBSET (1..n) /\ n \notin s \ {n} OBVIOUS
      <4>3. k[s \ {n}] = g[s \ {n}] BY <4>2
      <4>4. k[s] = G[g[s \ {n}]][seq[n]] BY <3>1
      <4>5. s # {} BY <3>1
      <4> HIDE DEF k
      <4> QED BY <4>1, <4>3, <4>4, <4>5
    <3>2. CASE n \notin s
      <4>1. s \in SUBSET (1..(n-1)) BY <3>2, <2>3
      <4>2. g[s] = Step(g, s) BY <4>1, <2>1
      <4>3. s \ {Max(s)} \in SUBSET (1..n) /\ n \notin s \ {Max(s)} BY <3>2
      <4>4. k[s \ {Max(s)}] = g[s \ {Max(s)}] BY <4>3
      <4>5. k[s] = g[s] BY <3>2
      <4> HIDE DEF k
      <4> QED BY <4>2, <4>4, <4>5
    <3> QED BY <3>1, <3>2
  <2>6. Fold(n, k)
    <3> HIDE DEF k, Step
    <3> QED BY <2>5
  <2>7. Folds(n)
    <3> HIDE DEF k, Fold
    <3> QED BY <2>4, <2>6
  <2> HIDE DEF Folds
  <2> QED BY <2>7, <1>0
<1>3. Len(seq) \in S
  <2> HIDE DEF S
  <2>1. 0..Len(seq) \subseteq S BY <1>0, <1>1, <1>2, IntervalInduction
  <2> QED BY <1>0, <2>1
<1>4. PICK g \in [SUBSET (1..Len(seq)) -> V] : Fold(Len(seq), g)
  <2>1. Folds(Len(seq))
    <3> HIDE DEF Folds
    <3> QED BY <1>3
  <2> HIDE DEF Fold
  <2> QED BY <2>1
<1>5. g = [s \in SUBSET (1..Len(seq)) |-> Step(g, s)]
  <2> HIDE DEF Step
  <2> QED BY <1>4
<1>6. g \in FoldsOf(V, G, base, seq) BY <1>5 DEF FoldsOf
<1> QED BY <1>6

----------------------------------------------------------------------------
(* Lists linked through an array: the element after i is next[i], and stop *)
(* ends the list.  Linked says that the list that starts with first has    *)
(* the elements of set, each once; e[n] is the element that n links lead   *)
(* to.                                                                     *)

LinkedBy(next, stop, first, set, k, e) ==
    /\ e[0] = first /\ e[k] = stop
    /\ \A n \in 0..(k - 1) : e[n] \in set /\ e[n + 1] = next[e[n]]
    /\ \A i \in set : \E n \in 0..(k - 1) : e[n] = i
    /\ \A m, n \in 0..(k - 1) : e[m] = e[n] => m = n

Linked(next, stop, first, set) ==
    \E k \in Nat : \E e \in [0..k -> Int] : LinkedBy(next, stop, first, set, k, e)

\* A list without elements.
LEMMA LinkedNone ==
  ASSUME NEW next, NEW stop \in Int
  PROVE  Linked(next, stop, stop, {})
<1> DEFINE e == [n \in 0..0 |-> stop]
<1>1. e \in [0..0 -> Int] /\ e[0] = stop OBVIOUS
<1> HIDE DEF e
<1>2. LinkedBy(next, stop, stop, {}, 0, e) BY <1>1 DEF LinkedBy
<1> QED BY <1>1, <1>2 DEF Linked

\* A list that ends where it starts has no elements.
LEMMA LinkedEmpty ==
  ASSUME NEW next, NEW stop, NEW set, stop \notin set, Linked(next, stop, stop, set)
  PROVE  set = {}
<1>1. PICK k \in Nat : \E e \in [0..k -> Int] : LinkedBy(next, stop, stop, set, k, e)
  BY DEF Linked
<1>2. PICK e \in [0..k -> Int] : LinkedBy(next, stop, stop, set, k, e) BY <1>1
<1>3. ASSUME k # 0 PROVE FALSE
  <2>1. 0 \in 0..(k - 1) BY <1>3
  <2>2. e[0] \in set /\ e[0] = stop BY <1>2, <2>1 DEF LinkedBy
  <2> QED BY <2>2
<1> QED BY <1>2, <1>3 DEF LinkedBy

\* What leaves the links of its elements alone leaves the list alone.
LEMMA LinkedSame ==
  ASSUME NEW next, NEW stop, NEW first, NEW set, Linked(next, stop, first, set),
         NEW other, \A i \in set : other[i] = next[i]
  PROVE  Linked(other, stop, first, set)
<1>1. PICK k \in Nat : \E e \in [0..k -> Int] : LinkedBy(next, stop, first, set, k, e)
  BY DEF Linked
<1>2. PICK e \in [0..k -> Int] : LinkedBy(next, stop, first, set, k, e) BY <1>1
<1>3. LinkedBy(other, stop, first, set, k, e) BY <1>2 DEF LinkedBy
<1> QED BY <1>3 DEF Linked

\* The first element is taken off.
LEMMA LinkedRest ==
  ASSUME NEW next, NEW stop, NEW first, NEW set \in SUBSET Nat, Linked(next, stop, first, set),
         first # stop, NEW other, \A i \in set \ {first} : other[i] = next[i]
  PROVE  first \in set /\ Linked(other, stop, next[first], set \ {first})
<1>1. PICK k \in Nat : \E d \in [0..k -> Int] : LinkedBy(next, stop, first, set, k, d) BY DEF Linked
<1>2. PICK d \in [0..k -> Int] : LinkedBy(next, stop, first, set, k, d) BY <1>1
<1> DEFINE i == first
           e == [n \in 0..(k - 1) |-> d[n + 1]]
<1>3. d[0] = i /\ d[k] = stop BY <1>2 DEF LinkedBy
<1>4. k # 0 BY <1>3
<1>5. 0 \in 0..(k - 1) /\ k - 1 \in Nat BY <1>4
<1>6. i \in set BY <1>2, <1>3, <1>5 DEF LinkedBy
<1>7. e \in [0..(k - 1) -> Int] BY <1>5
<1>8. \A n \in 0..(k - 1) : e[n] = d[n + 1] OBVIOUS
<1>9. e[0] = next[first] /\ e[k - 1] = stop
  <2>1. d[0 + 1] = next[d[0]] BY <1>2, <1>5 DEF LinkedBy
  <2>2. e[0] = d[0 + 1] BY <1>5, <1>8
  <2>3. e[k - 1] = d[k] BY <1>5, <1>8
  <2> QED BY <1>3, <2>1, <2>2, <2>3
<1> HIDE DEF e
<1>10. ASSUME NEW n \in 0..((k - 1) - 1)
       PROVE  e[n] \in set \ {i} /\ e[n + 1] = other[e[n]]
  <2>1. n \in 0..(k - 1) /\ n + 1 \in 0..(k - 1) /\ n + 1 # 0 BY <1>5
  <2>2. e[n] = d[n + 1] /\ e[n + 1] = d[(n + 1) + 1] BY <1>8, <2>1
  <2>3. d[n + 1] \in set /\ d[(n + 1) + 1] = next[d[n + 1]] BY <1>2, <2>1 DEF LinkedBy
  <2>4. d[n + 1] # i BY <1>2, <1>3, <1>5, <2>1 DEF LinkedBy
  <2> QED BY <2>2, <2>3, <2>4
<1>11. ASSUME NEW j \in set \ {i} PROVE \E n \in 0..((k - 1) - 1) : e[n] = j
  <2>1. PICK m \in 0..(k - 1) : d[m] = j BY <1>2 DEF LinkedBy
  <2>2. m # 0 BY <1>3, <2>1
  <2>3. m - 1 \in 0..((k - 1) - 1) /\ m - 1 \in 0..(k - 1) /\ (m - 1) + 1 = m BY <1>5, <2>2
  <2>4. e[m - 1] = j BY <1>8, <2>1, <2>3
  <2> QED BY <2>3, <2>4
<1>12. ASSUME NEW m \in 0..((k - 1) - 1), NEW n \in 0..((k - 1) - 1), e[m] = e[n] PROVE m = n
  <2>1. m \in 0..(k - 1) /\ m + 1 \in 0..(k - 1) /\ n \in 0..(k - 1) /\ n + 1 \in 0..(k - 1)
    BY <1>5
  <2>2. d[m + 1] = d[n + 1] BY <1>8, <1>12, <2>1
  <2>3. m + 1 = n + 1 BY <1>2, <2>1, <2>2 DEF LinkedBy
  <2> QED BY <2>1, <2>3
<1>13. LinkedBy(other, stop, next[first], set \ {i}, k - 1, e) BY <1>9, <1>10, <1>11, <1>12 DEF LinkedBy
<1> QED BY <1>5, <1>6, <1>7, <1>13 DEF Linked

\* An element is put in front.
LEMMA LinkedMore ==
  ASSUME NEW next, NEW stop, NEW first, NEW set \in SUBSET Nat, Linked(next, stop, first, set),
         NEW i \in Nat \ set, NEW other, other[i] = first, \A j \in set : other[j] = next[j]
  PROVE  Linked(other, stop, i, set \cup {i})
<1>1. PICK k \in Nat : \E d \in [0..k -> Int] : LinkedBy(next, stop, first, set, k, d) BY DEF Linked
<1>2. PICK d \in [0..k -> Int] : LinkedBy(next, stop, first, set, k, d) BY <1>1
<1> DEFINE e == [n \in 0..(k + 1) |-> IF n = 0 THEN i ELSE d[n - 1]]
<1>3. e \in [0..(k + 1) -> Int]
  <2>1. \A n \in 0..(k + 1) : n # 0 => n - 1 \in 0..k OBVIOUS
  <2> QED BY <2>1
<1>4. e[0] = i /\ \A n \in 0..k : e[n + 1] = d[n]
  <2>1. \A n \in 0..k : n + 1 \in 0..(k + 1) /\ n + 1 # 0 /\ (n + 1) - 1 = n OBVIOUS
  <2> QED BY <2>1
<1> HIDE DEF e
<1>5. e[k + 1] = stop BY <1>2, <1>4 DEF LinkedBy
<1>6. ASSUME NEW n \in 0..((k + 1) - 1), n # 0
      PROVE  n - 1 \in 0..(k - 1) /\ n - 1 \in 0..k /\ n \in 0..k /\ (n - 1) + 1 = n /\ e[n] = d[n - 1]
  <2>1. n - 1 \in 0..(k - 1) /\ n - 1 \in 0..k /\ n \in 0..k /\ (n - 1) + 1 = n BY <1>6
  <2> QED BY <1>4, <2>1
<1>7. ASSUME NEW n \in 0..((k + 1) - 1)
      PROVE  e[n] \in set \cup {i} /\ e[n + 1] = other[e[n]]
  <2>1. CASE n = 0 BY <1>2, <1>4, <2>1 DEF LinkedBy
  <2>2. CASE n # 0
    <3>1. e[n] = d[n - 1] /\ e[n + 1] = d[n] BY <1>4, <1>6, <2>2
    <3>2. d[n - 1] \in set /\ d[(n - 1) + 1] = next[d[n - 1]] BY <1>2, <1>6, <2>2 DEF LinkedBy
    <3>3. d[(n - 1) + 1] = d[n] BY <1>6, <2>2
    <3> QED BY <3>1, <3>2, <3>3
  <2> QED BY <2>1, <2>2
<1>8. ASSUME NEW j \in set \cup {i} PROVE \E n \in 0..((k + 1) - 1) : e[n] = j
  <2>1. CASE j = i
    <3>1. 0 \in 0..((k + 1) - 1) OBVIOUS
    <3> QED BY <1>4, <2>1, <3>1
  <2>2. CASE j \in set
    <3>1. PICK m \in 0..(k - 1) : d[m] = j BY <1>2, <2>2 DEF LinkedBy
    <3>2. m \in 0..k /\ m + 1 \in 0..((k + 1) - 1) OBVIOUS
    <3> QED BY <1>4, <3>1, <3>2
  <2> QED BY <2>1, <2>2
<1>9. ASSUME NEW m \in 0..((k + 1) - 1), NEW n \in 0..((k + 1) - 1), e[m] = e[n] PROVE m = n
  <2>1. \A x \in 0..((k + 1) - 1) : x # 0 => e[x] # i
    <3> SUFFICES ASSUME NEW x \in 0..((k + 1) - 1), x # 0 PROVE e[x] # i OBVIOUS
    <3>1. d[x - 1] \in set BY <1>2, <1>6 DEF LinkedBy
    <3> QED BY <1>6, <3>1
  <2>2. CASE m = 0 \/ n = 0 BY <1>4, <1>9, <2>1, <2>2
  <2>3. CASE m # 0 /\ n # 0
    <3>1. d[m - 1] = d[n - 1] BY <1>6, <1>9, <2>3
    <3>2. m - 1 = n - 1 BY <1>2, <1>6, <2>3, <3>1 DEF LinkedBy
    <3> QED BY <3>2
  <2> QED BY <2>2, <2>3
<1>10. LinkedBy(other, stop, i, set \cup {i}, k + 1, e) BY <1>4, <1>5, <1>7, <1>8, <1>9 DEF LinkedBy
<1>11. k + 1 \in Nat OBVIOUS
<1> QED BY <1>3, <1>10, <1>11 DEF Linked

\* The list is as long as it has elements.
LEMMA LinkedLength ==
  ASSUME NEW next, NEW stop, NEW first, NEW set, NEW k \in Nat, NEW e \in [0..k -> Int],
         LinkedBy(next, stop, first, set, k, e)
  PROVE  Cardinality(set) = k
<1> DEFINE d == [n \in 0..(k - 1) |-> e[n]]
<1>1. d \in [0..(k - 1) -> set] /\ \A n \in 0..(k - 1) : d[n] = e[n] BY DEF LinkedBy
<1> HIDE DEF d
<1>2. \A i \in set : \E n \in 0..(k - 1) : d[n] = i BY <1>1 DEF LinkedBy
<1>3. \A m, n \in 0..(k - 1) : d[m] = d[n] => m = n BY <1>1 DEF LinkedBy
<1>4. d \in Surjection(0..(k - 1), set) BY <1>1, <1>2 DEF Surjection
<1>5. d \in Injection(0..(k - 1), set) BY <1>1, <1>3 DEF Injection, IsInjective
<1>6. ExistsBijection(0..(k - 1), set) BY <1>4, <1>5 DEF ExistsBijection, Bijection
<1>7. IsFiniteSet(0..(k - 1)) /\ Cardinality(0..(k - 1)) = k
  <2>1. k - 1 \in Int /\ 0 \in Int OBVIOUS
  <2>2. IsFiniteSet(0..(k - 1)) /\ Cardinality(0..(k - 1)) = IF 0 > k - 1 THEN 0 ELSE k - 1 - 0 + 1
    BY <2>1, FS_Interval
  <2> QED BY <2>2
<1> QED BY <1>6, <1>7, FS_Bijection
=============================================================================
