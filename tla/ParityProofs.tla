---------------------------- MODULE ParityProofs ----------------------------
(***************************************************************************)
(* Proofs about sums of parity constraints and their elimination.  First   *)
(* the parity of sets and what a sum of two constraints is; then the       *)
(* folds of the two algorithms; then an invariant for each of them.        *)
(***************************************************************************)
EXTENDS ParitySession, Induction

----------------------------------------------------------------------------
(* The parity of finite sets.                                              *)

\* It is 0 or 1.
LEMMA OddType ==
  ASSUME NEW s, IsFiniteSet(s)
  PROVE  Odd(s) \in {0, 1}
<1>1. Cardinality(s) \in Nat BY FS_CardinalityType
<1> QED BY <1>1 DEF Odd

\* The parity of what two sets do not share.
LEMMA OddSum ==
  ASSUME NEW s, NEW t, IsFiniteSet(s), IsFiniteSet(t)
  PROVE  Odd(SymDiff(s, t)) = (Odd(s) + Odd(t)) % 2
<1> DEFINE u == s \cup t
           i == s \cap t
<1>1. /\ IsFiniteSet(u) /\ IsFiniteSet(i)
      /\ Cardinality(u) = Cardinality(s) + Cardinality(t) - Cardinality(i)
  BY FS_Union, FS_Intersection
<1>2. /\ Cardinality(s) \in Nat /\ Cardinality(t) \in Nat /\ Cardinality(u) \in Nat /\ Cardinality(i) \in Nat
  BY <1>1, FS_CardinalityType
<1>3. u \ i = SymDiff(s, t) /\ u \cap i = i BY DEF SymDiff
<1>4. Cardinality(u \ i) = Cardinality(u) - Cardinality(u \cap i) BY <1>1, FS_Difference
<1> HIDE DEF u, i
<1>5. Cardinality(SymDiff(s, t)) = Cardinality(s) + Cardinality(t) - 2 * Cardinality(i)
  <2>1. Cardinality(SymDiff(s, t)) = Cardinality(u) - Cardinality(i) BY <1>3, <1>4
  <2> QED BY <1>1, <1>2, <2>1
<1>6. \A x, y, z \in Nat : (x + y - 2 * z) % 2 = ((x % 2) + (y % 2)) % 2 OBVIOUS
<1> QED BY <1>2, <1>5, <1>6 DEF Odd

\* One element more or less changes it.
LEMMA OddToggle ==
  ASSUME NEW s, NEW v, IsFiniteSet(s)
  PROVE  Odd(SymDiff(s, {v})) = (Odd(s) + 1) % 2
<1>1. IsFiniteSet({v}) /\ Cardinality({v}) = 1 BY FS_Singleton
<1>2. Odd({v}) = 1 BY <1>1 DEF Odd
<1> QED BY <1>1, <1>2, OddSum

\* The sets of the places of two lists that have something, where the second list has at
\* m what the first has at just one of m and n, and nothing at n.
LEMMA OddReplaced ==
  ASSUME NEW s, NEW t, IsFiniteSet(s), IsFiniteSet(t), NEW m, NEW n, m # n,
         \A i : i # m /\ i # n => (i \in s <=> i \in t),
         n \notin t, m \in t <=> ~(m \in s <=> n \in s)
  PROVE  Odd(s) = Odd(t)
<1>1. Odd(s) \in {0, 1} /\ Odd(t) \in {0, 1} BY OddType
<1>2. SymDiff(s, t) = {} \/ SymDiff(s, t) = {m, n} BY DEF SymDiff
<1>3. Odd({}) = 0
  <2>1. Cardinality({}) = 0 BY FS_EmptySet
  <2> QED BY <2>1 DEF Odd
<1>4. Odd({m, n}) = 0
  <2>1. SymDiff({m}, {n}) = {m, n} BY DEF SymDiff
  <2>2. IsFiniteSet({m}) /\ Cardinality({m}) = 1 BY FS_Singleton
  <2>3. Odd({m}) = 1 BY <2>2 DEF Odd
  <2>4. Odd(SymDiff({m}, {n})) = (Odd({m}) + 1) % 2 BY <2>2, OddToggle
  <2> QED BY <2>1, <2>3, <2>4
<1>5. (Odd(s) + Odd(t)) % 2 = 0 BY <1>2, <1>3, <1>4, OddSum
<1> QED BY <1>1, <1>5

\* Sets of variables are finite.
LEMMA VarsFinite ==
  /\ IsFiniteSet(Vars) /\ Cardinality(Vars) = VarCount
  /\ \A s \in SUBSET Vars : IsFiniteSet(s)
<1>1. VarCount \in Nat BY ParityAssumption
<1>2. IsFiniteSet(1..VarCount) /\ Cardinality(1..VarCount) = VarCount
  BY <1>1, FS_Interval
<1> QED BY <1>2, FS_Subset DEF Vars

----------------------------------------------------------------------------
(* coefficient_sum.                                                        *)

\* What the loops keep: the sum of what was passed of both lists, ascending and below
\* what is ahead.
Passed(list, i) == {list[j] : j \in 1..(i - 1)}
Ahead(list, i) == {list[j] : j \in i..Len(list)}

MergedTo(list1, list2, i1, i2, total) ==
    /\ Range(total) = SymDiff(Passed(list1, i1), Passed(list2, i2))
    /\ \A x \in Passed(list1, i1) \cup Passed(list2, i2),
          y \in Ahead(list1, i1) \cup Ahead(list2, i2) : x < y

Cursors(list1, list2) ==
    {c \in [i1 : 1..(Len(list1) + 1), i2 : 1..(Len(list2) + 1), sum : Lists] :
        MergedTo(list1, list2, c.i1, c.i2, c.sum)}

\* A list, its elements and its ends.
LEMMA ListRange ==
  ASSUME NEW list \in Lists
  PROVE  /\ Len(list) \in Nat /\ DOMAIN list = 1..Len(list)
         /\ \A i \in 1..Len(list) : list[i] \in Vars
         /\ Range(list) \in SUBSET Vars /\ Range(list) = Passed(list, Len(list) + 1)
         /\ IsFiniteSet(Range(list))
<1>1. list \in Seq(Vars) BY DEF Lists
<1>2. Len(list) \in Nat /\ DOMAIN list = 1..Len(list) BY <1>1, LenProperties
<1>3. \A i \in 1..Len(list) : list[i] \in Vars BY <1>1, <1>2, ElementOfSeq
<1>4. (Len(list) + 1) - 1 = Len(list) BY <1>2
<1>5. Range(list) = Passed(list, Len(list) + 1) BY <1>2, <1>4 DEF Range, Passed
<1>6. Range(list) \in SUBSET Vars BY <1>2, <1>3 DEF Range
<1> QED BY <1>2, <1>3, <1>5, <1>6, VarsFinite

\* A list with a greater element at its end.
LEMMA ListAppend ==
  ASSUME NEW list \in Lists, NEW v \in Vars, \A x \in Range(list) : x < v
  PROVE  Append(list, v) \in Lists /\ Range(Append(list, v)) = Range(list) \cup {v}
<1>1. list \in Seq(Vars) BY DEF Lists
<1> DEFINE n == Len(list)
           more == Append(list, v)
<1>2. n \in Nat /\ DOMAIN list = 1..n BY <1>1, LenProperties
<1>3. /\ more \in Seq(Vars) /\ Len(more) = n + 1
      /\ \A i \in 1..n : more[i] = list[i]
      /\ more[n + 1] = v
  BY <1>1, AppendProperties
<1>4. DOMAIN more = 1..(n + 1) BY <1>3, LenProperties
<1> HIDE DEF more
<1>5. ASSUME NEW i \in DOMAIN more, NEW j \in DOMAIN more, i < j PROVE more[i] < more[j]
  <2>1. i \in 1..n BY <1>2, <1>4, <1>5
  <2>2. list[i] \in Range(list) BY <1>2, <2>1 DEF Range
  <2>3. CASE j = n + 1 BY <1>3, <2>1, <2>2, <2>3
  <2>4. CASE j # n + 1
    <3>1. j \in 1..n BY <1>2, <1>4, <2>4
    <3>2. list[i] < list[j] BY <1>2, <1>5, <2>1, <3>1 DEF Lists
    <3> QED BY <1>3, <2>1, <3>1, <3>2
  <2> QED BY <2>3, <2>4
<1>6. more \in Lists BY <1>3, <1>5 DEF Lists
<1>7. Range(more) = Range(list) \cup {v}
  <2>1. ASSUME NEW x \in Range(more) PROVE x \in Range(list) \cup {v}
    <3>1. PICK i \in 1..(n + 1) : x = more[i] BY <1>4 DEF Range
    <3>2. i = n + 1 \/ i \in 1..n BY <1>2
    <3> QED BY <1>2, <1>3, <3>1, <3>2 DEF Range
  <2>2. ASSUME NEW x \in Range(list) PROVE x \in Range(more)
    <3>1. PICK i \in 1..n : x = list[i] BY <1>2 DEF Range
    <3>2. i \in 1..(n + 1) BY <1>2
    <3> QED BY <1>3, <1>4, <3>1, <3>2 DEF Range
  <2>3. v \in Range(more)
    <3>1. n + 1 \in 1..(n + 1) BY <1>2
    <3> QED BY <1>3, <1>4, <3>1 DEF Range
  <2> QED BY <2>1, <2>2, <2>3
<1> QED BY <1>6, <1>7 DEF more

\* One place further in a list.
LEMMA ListNext ==
  ASSUME NEW list \in Lists, NEW i \in 1..Len(list)
  PROVE  /\ list[i] \in Vars
         /\ i + 1 \in 1..(Len(list) + 1)
         /\ Passed(list, i + 1) = Passed(list, i) \cup {list[i]}
         /\ Ahead(list, i) = Ahead(list, i + 1) \cup {list[i]}
         /\ \A y \in Ahead(list, i + 1) : list[i] < y
<1>1. Len(list) \in Nat /\ DOMAIN list = 1..Len(list) /\ list[i] \in Vars BY ListRange
<1>2. (i + 1) - 1 = i /\ 1..i = (1..(i - 1)) \cup {i} BY <1>1
<1>3. Passed(list, i + 1) = Passed(list, i) \cup {list[i]} BY <1>2 DEF Passed
<1>4. i..Len(list) = ((i + 1)..Len(list)) \cup {i} BY <1>1
<1>5. Ahead(list, i) = Ahead(list, i + 1) \cup {list[i]} BY <1>4 DEF Ahead
<1>6. ASSUME NEW y \in Ahead(list, i + 1) PROVE list[i] < y
  <2>1. PICK j \in (i + 1)..Len(list) : y = list[j] BY DEF Ahead
  <2>2. j \in DOMAIN list /\ i \in DOMAIN list /\ i < j BY <1>1
  <2> QED BY <2>1, <2>2 DEF Lists
<1> QED BY <1>1, <1>3, <1>5, <1>6

\* Nothing is ahead at the end.
LEMMA NothingAhead ==
  ASSUME NEW list \in Lists, NEW i \in 1..(Len(list) + 1), ~(i <= Len(list))
  PROVE  Ahead(list, i) = {}
<1>1. Len(list) \in Nat BY ListRange
<1>2. i..Len(list) = {} BY <1>1
<1> QED BY <1>2 DEF Ahead

\* The two lists can be exchanged.
LEMMA MergedSwapped ==
  ASSUME NEW list1, NEW list2, NEW i1, NEW i2, NEW total, MergedTo(list1, list2, i1, i2, total)
  PROVE  MergedTo(list2, list1, i2, i1, total)
BY DEF MergedTo, SymDiff

\* The smaller one of the next variables is added.
LEMMA MergeFirst ==
  ASSUME NEW list1 \in Lists, NEW list2 \in Lists,
         NEW i1 \in 1..Len(list1), NEW i2 \in 1..(Len(list2) + 1), NEW total \in Lists,
         MergedTo(list1, list2, i1, i2, total),
         i2 <= Len(list2) => list1[i1] < list2[i2]
  PROVE  /\ Append(total, list1[i1]) \in Lists
         /\ MergedTo(list1, list2, i1 + 1, i2, Append(total, list1[i1]))
<1> DEFINE v == list1[i1]
           P1 == Passed(list1, i1)
           P2 == Passed(list2, i2)
           A1 == Ahead(list1, i1 + 1)
           A2 == Ahead(list2, i2)
<1>1. /\ v \in Vars /\ v \in Int /\ Passed(list1, i1 + 1) = P1 \cup {v}
      /\ Ahead(list1, i1) = A1 \cup {v} /\ \A y \in A1 : v < y
  BY ListNext DEF Vars
<1>2. /\ Range(total) = SymDiff(P1, P2)
      /\ \A x \in P1 \cup P2, y \in A1 \cup {v} \cup A2 : x < y
  BY <1>1 DEF MergedTo
<1>3. v \notin P1 /\ v \notin P2
  <2>1. ~(v < v) BY <1>1
  <2> QED BY <1>2, <2>1
<1>4. \A y \in A2 : v < y
  <2>1. CASE i2 <= Len(list2)
    <3>1. i2 \in 1..Len(list2) BY <2>1, ListRange
    <3>2. /\ A2 = Ahead(list2, i2 + 1) \cup {list2[i2]} /\ list2[i2] \in Vars
          /\ \A y \in Ahead(list2, i2 + 1) : list2[i2] < y
      BY <3>1, ListNext
    <3>3. \A y \in Ahead(list2, i2 + 1) : y \in Int
      <4>1. Len(list2) \in Nat /\ \A j \in 1..Len(list2) : list2[j] \in Int BY ListRange DEF Vars
      <4>2. \A j \in (i2 + 1)..Len(list2) : j \in 1..Len(list2) BY <3>1, <4>1
      <4> QED BY <4>1, <4>2 DEF Ahead
    <3>4. v < list2[i2] /\ list2[i2] \in Int BY <2>1, <3>2 DEF Vars
    <3> HIDE DEF v, A2
    <3> QED BY <1>1, <3>2, <3>3, <3>4
  <2>2. CASE ~(i2 <= Len(list2)) BY <2>2, NothingAhead
  <2> QED BY <2>1, <2>2
<1>5. \A x \in Range(total) : x < v BY <1>2 DEF SymDiff
<1>6. Append(total, v) \in Lists /\ Range(Append(total, v)) = Range(total) \cup {v}
  BY <1>1, <1>5, ListAppend
<1>7. SymDiff(P1 \cup {v}, P2) = SymDiff(P1, P2) \cup {v} BY <1>3 DEF SymDiff
<1>8. \A x \in (P1 \cup {v}) \cup P2, y \in A1 \cup A2 : x < y BY <1>1, <1>2, <1>4
<1> HIDE DEF v, P1, P2, A1, A2
<1>9. MergedTo(list1, list2, i1 + 1, i2, Append(total, v))
  BY <1>1, <1>2, <1>6, <1>7, <1>8 DEF MergedTo, P1, P2, A1, A2
<1> QED BY <1>6, <1>9 DEF v

\* Equal ones cancel.
LEMMA MergeEqual ==
  ASSUME NEW list1 \in Lists, NEW list2 \in Lists,
         NEW i1 \in 1..Len(list1), NEW i2 \in 1..Len(list2), NEW total \in Lists,
         MergedTo(list1, list2, i1, i2, total), list1[i1] = list2[i2]
  PROVE  MergedTo(list1, list2, i1 + 1, i2 + 1, total)
<1> DEFINE v == list1[i1]
           P1 == Passed(list1, i1)
           P2 == Passed(list2, i2)
           A1 == Ahead(list1, i1 + 1)
           A2 == Ahead(list2, i2 + 1)
<1>1. /\ v \in Vars /\ v \in Int /\ Passed(list1, i1 + 1) = P1 \cup {v}
      /\ Ahead(list1, i1) = A1 \cup {v} /\ \A y \in A1 : v < y
  BY ListNext DEF Vars
<1>2. /\ Passed(list2, i2 + 1) = P2 \cup {v}
      /\ Ahead(list2, i2) = A2 \cup {v} /\ \A y \in A2 : v < y
  BY ListNext
<1>3. /\ Range(total) = SymDiff(P1, P2)
      /\ \A x \in P1 \cup P2, y \in A1 \cup {v} \cup A2 : x < y
  BY <1>1, <1>2 DEF MergedTo
<1>4. v \notin P1 /\ v \notin P2
  <2>1. ~(v < v) BY <1>1
  <2> QED BY <1>3, <2>1
<1>5. SymDiff(P1 \cup {v}, P2 \cup {v}) = SymDiff(P1, P2) BY <1>4 DEF SymDiff
<1>6. \A x \in (P1 \cup {v}) \cup (P2 \cup {v}), y \in A1 \cup A2 : x < y BY <1>1, <1>2, <1>3
<1> HIDE DEF v, P1, P2, A1, A2
<1> QED BY <1>1, <1>2, <1>3, <1>5, <1>6 DEF MergedTo, P1, P2, A1, A2

\* A turn keeps this, and gets ahead unless both lists have ended.
LEMMA SumTurnRight ==
  ASSUME NEW list1 \in Lists, NEW list2 \in Lists, NEW c \in Cursors(list1, list2)
  PROVE  /\ SumTurn(list1, list2, c) \in Cursors(list1, list2)
         /\ \/ c.i1 = Len(list1) + 1 /\ c.i2 = Len(list2) + 1 /\ SumTurn(list1, list2, c) = c
            \/ SumTurn(list1, list2, c).i1 + SumTurn(list1, list2, c).i2 > c.i1 + c.i2
<1> DEFINE more1 == c.i1 <= Len(list1)
           more2 == c.i2 <= Len(list2)
           first1 == more1 /\ (more2 => list1[c.i1] < list2[c.i2])
           first2 == more2 /\ (more1 => list2[c.i2] < list1[c.i1])
           both == more1 /\ more2 /\ ~first1 /\ ~first2
           d == SumTurn(list1, list2, c)
<1>1. /\ c \in [i1 : 1..(Len(list1) + 1), i2 : 1..(Len(list2) + 1), sum : Lists]
      /\ MergedTo(list1, list2, c.i1, c.i2, c.sum)
  BY DEF Cursors
<1>2. c.i1 \in 1..(Len(list1) + 1) /\ c.i2 \in 1..(Len(list2) + 1) /\ c.sum \in Lists BY <1>1
<1>3. Len(list1) \in Nat /\ Len(list2) \in Nat BY ListRange
<1>4. d = CASE first1 -> [i1 |-> c.i1 + 1, i2 |-> c.i2, sum |-> Append(c.sum, list1[c.i1])]
            [] first2 -> [i1 |-> c.i1, i2 |-> c.i2 + 1, sum |-> Append(c.sum, list2[c.i2])]
            [] both -> [c EXCEPT !.i1 = @ + 1, !.i2 = @ + 1]
            [] OTHER -> c
  BY Zenon DEF SumTurn
<1>5. more1 => c.i1 \in 1..Len(list1) /\ c.i1 + 1 \in 1..(Len(list1) + 1) /\ list1[c.i1] \in Int
  BY <1>2, <1>3, ListRange DEF Vars
<1>6. more2 => c.i2 \in 1..Len(list2) /\ c.i2 + 1 \in 1..(Len(list2) + 1) /\ list2[c.i2] \in Int
  BY <1>2, <1>3, ListRange DEF Vars
<1>7. ~(first1 /\ first2) /\ ~(first1 /\ both) /\ ~(first2 /\ both)
  <2>1. \A x, y \in Int : ~(x < y /\ y < x) OBVIOUS
  <2> QED BY <1>5, <1>6, <2>1
<1> HIDE DEF d
<1>8. CASE first1
  <2>1. d = [i1 |-> c.i1 + 1, i2 |-> c.i2, sum |-> Append(c.sum, list1[c.i1])]
    <3> HIDE DEF first1, first2, both
    <3> QED BY <1>4, <1>7, <1>8
  <2>2. Append(c.sum, list1[c.i1]) \in Lists /\ MergedTo(list1, list2, c.i1 + 1, c.i2, Append(c.sum, list1[c.i1]))
    BY <1>1, <1>2, <1>5, <1>8, MergeFirst
  <2> HIDE DEF first1, first2, both
  <2>3. d \in Cursors(list1, list2) BY <1>2, <1>5, <1>8, <2>1, <2>2 DEF Cursors, first1
  <2> QED BY <1>2, <2>1, <2>3 DEF d
<1>9. CASE first2
  <2>1. d = [i1 |-> c.i1, i2 |-> c.i2 + 1, sum |-> Append(c.sum, list2[c.i2])]
    <3> HIDE DEF first1, first2, both
    <3> QED BY <1>4, <1>7, <1>9
  <2>2. MergedTo(list2, list1, c.i2, c.i1, c.sum) BY <1>1, MergedSwapped
  <2>3. Append(c.sum, list2[c.i2]) \in Lists /\ MergedTo(list2, list1, c.i2 + 1, c.i1, Append(c.sum, list2[c.i2]))
    BY <1>2, <1>6, <1>9, <2>2, MergeFirst
  <2>4. MergedTo(list1, list2, c.i1, c.i2 + 1, Append(c.sum, list2[c.i2])) BY <2>3, MergedSwapped
  <2> HIDE DEF first1, first2, both
  <2>5. d \in Cursors(list1, list2) BY <1>2, <1>6, <1>9, <2>1, <2>3, <2>4 DEF Cursors, first2
  <2> QED BY <1>2, <2>1, <2>5 DEF d
<1>10. CASE both
  <2>1. d = [c EXCEPT !.i1 = c.i1 + 1, !.i2 = c.i2 + 1]
    <3> HIDE DEF first1, first2, both
    <3> QED BY <1>4, <1>7, <1>10
  <2>2. list1[c.i1] = list2[c.i2]
    <3>1. \A x, y \in Int : ~(x < y) /\ ~(y < x) => x = y OBVIOUS
    <3> QED BY <1>5, <1>6, <1>10, <3>1
  <2>3. MergedTo(list1, list2, c.i1 + 1, c.i2 + 1, c.sum) BY <1>1, <1>2, <1>5, <1>6, <1>10, <2>2, MergeEqual
  <2>4. d.i1 = c.i1 + 1 /\ d.i2 = c.i2 + 1 /\ d.sum = c.sum BY <1>1, <2>1
  <2>5. d \in [i1 : 1..(Len(list1) + 1), i2 : 1..(Len(list2) + 1), sum : Lists]
    BY <1>1, <1>5, <1>6, <1>10, <2>1
  <2>6. d \in Cursors(list1, list2) BY <2>3, <2>4, <2>5 DEF Cursors
  <2> QED BY <1>2, <2>4, <2>6 DEF d
<1>11. CASE ~more1 /\ ~more2
  <2>1. d = c BY <1>4, <1>11
  <2> QED BY <1>2, <1>3, <1>11, <2>1 DEF d
<1>12. first1 \/ first2 \/ both \/ (~more1 /\ ~more2) OBVIOUS
<1> QED BY <1>8, <1>9, <1>10, <1>11, <1>12

\* The sum of two lists has the variables that just one of them has.
LEMMA CoefficientSumRight ==
  ASSUME NEW list1 \in Lists, NEW list2 \in Lists
  PROVE  /\ coefficient_sum(list1, list2) \in Lists
         /\ Range(coefficient_sum(list1, list2)) = SymDiff(Range(list1), Range(list2))
<1> DEFINE n == Len(list1) + Len(list2)
           V == Cursors(list1, list2)
           base == [i1 |-> 1, i2 |-> 1, sum |-> <<>>]
           Body(f) == [t \in 0..n |-> IF t = 0 THEN base ELSE SumTurn(list1, list2, f[t - 1])]
           G == [c \in V |-> SumTurn(list1, list2, c)]
           at == CHOOSE f : f = Body(f)
<1>0. Len(list1) \in Nat /\ Len(list2) \in Nat /\ n \in Nat BY ListRange
<1>1. base \in V
  <2>1. <<>> \in Lists /\ Range(<<>>) = {}
    <3>1. <<>> \in Seq(Vars) /\ DOMAIN <<>> = {} OBVIOUS
    <3> QED BY <3>1 DEF Lists, Range
  <2>2. Passed(list1, 1) = {} /\ Passed(list2, 1) = {} BY DEF Passed
  <2>3. MergedTo(list1, list2, 1, 1, <<>>) BY <2>1, <2>2 DEF MergedTo, SymDiff
  <2>4. 1 \in 1..(Len(list1) + 1) /\ 1 \in 1..(Len(list2) + 1) BY <1>0
  <2> QED BY <2>1, <2>3, <2>4 DEF Cursors
<1>2. G \in [V -> V] BY SumTurnRight
<1>3. \A c \in V : G[c] = SumTurn(list1, list2, c) OBVIOUS
<1> HIDE DEF V, base, n, G
<1>4. \E f : f = Body(f)
  <2>1. IterationsOf(V, G, base, n) # {} BY <1>0, <1>1, <1>2, IterationExists
  <2>2. PICK h \in [0..n -> V] : h[0] = base /\ \A i \in 1..n : h[i] = G[h[i - 1]]
    BY <2>1 DEF IterationsOf
  <2>3. ASSUME NEW t \in 0..n PROVE h[t] = IF t = 0 THEN base ELSE SumTurn(list1, list2, h[t - 1])
    <3>1. CASE t = 0 BY <2>2, <3>1
    <3>2. CASE t # 0
      <4>1. t \in 1..n /\ t - 1 \in 0..n BY <1>0, <3>2
      <4> QED BY <1>3, <2>2, <3>2, <4>1
    <3> QED BY <3>1, <3>2
  <2>4. h = Body(h) BY <2>2, <2>3
  <2> QED BY <2>4
<1>5. at = Body(at)
  <2> HIDE DEF Body
  <2> QED BY <1>4
<1>6. coefficient_sum(list1, list2) = at[n].sum BY DEF coefficient_sum, n, base
<1> HIDE DEF at
<1>7. at[0] = base /\ \A t \in 1..n : at[t] = SumTurn(list1, list2, at[t - 1])
  <2>1. 0 \in 0..n /\ \A t \in 1..n : t \in 0..n /\ t # 0 BY <1>0
  <2> QED BY <1>5, <2>1
<1> DEFINE Ended(c) == c.i1 = Len(list1) + 1 /\ c.i2 = Len(list2) + 1
           S == {t \in 0..n : at[t] \in V /\ (Ended(at[t]) \/ at[t].i1 + at[t].i2 >= t + 2)}
<1>8. 0 \in S BY <1>0, <1>1, <1>7 DEF base
<1>9. ASSUME NEW t \in 1..n, t - 1 \in S PROVE t \in S
  <2> DEFINE c == at[t - 1]
             d == SumTurn(list1, list2, c)
  <2>1. c \in V /\ (Ended(c) \/ c.i1 + c.i2 >= (t - 1) + 2) BY <1>9
  <2>2. at[t] = d BY <1>7
  <2> HIDE DEF c, d
  <2>3. /\ d \in V
        /\ (Ended(c) /\ d = c) \/ d.i1 + d.i2 > c.i1 + c.i2
    BY <2>1, SumTurnRight DEF d, V
  <2>4. c.i1 \in Int /\ c.i2 \in Int /\ d.i1 \in Int /\ d.i2 \in Int
    BY <2>1, <2>3 DEF V, Cursors
  <2>5. \A i1, i2 \in Int : i1 \in 1..(Len(list1) + 1) /\ i2 \in 1..(Len(list2) + 1)
           /\ i1 + i2 > Len(list1) + 1 + (Len(list2) + 1) => FALSE
    BY <1>0
  <2>6. d.i1 \in 1..(Len(list1) + 1) /\ d.i2 \in 1..(Len(list2) + 1) BY <2>3 DEF V, Cursors
  <2>7. Ended(d) \/ d.i1 + d.i2 >= t + 2
    <3>1. CASE Ended(c)
      <4>1. d = c BY <1>0, <2>3, <2>5, <2>6, <3>1
      <4> QED BY <3>1, <4>1
    <3>2. CASE c.i1 + c.i2 >= (t - 1) + 2 /\ ~Ended(c)
      <4>1. d.i1 + d.i2 > c.i1 + c.i2 BY <2>3, <3>2
      <4>2. \A w, x, y, z \in Int : w + x >= (t - 1) + 2 /\ y + z > w + x => y + z >= t + 2
        BY <1>0
      <4>3. d.i1 + d.i2 >= t + 2 BY <2>4, <3>2, <4>1, <4>2
      <4> QED BY <4>3
    <3> QED BY <2>1, <3>1, <3>2
  <2> QED BY <2>2, <2>3, <2>7
<1>10. n \in S
  <2> HIDE DEF S
  <2>1. 0..n \subseteq S BY <1>0, <1>8, <1>9, IntervalInduction
  <2> QED BY <1>0, <2>1
<1> DEFINE c == at[n]
<1>11. /\ c \in [i1 : 1..(Len(list1) + 1), i2 : 1..(Len(list2) + 1), sum : Lists]
       /\ MergedTo(list1, list2, c.i1, c.i2, c.sum)
  BY <1>10 DEF V, Cursors
<1>12. Ended(c)
  <2>1. Ended(c) \/ c.i1 + c.i2 >= n + 2 BY <1>10
  <2> HIDE DEF c
  <2>2. c.i1 \in 1..(Len(list1) + 1) /\ c.i2 \in 1..(Len(list2) + 1) BY <1>11
  <2>3. \A i1 \in 1..(Len(list1) + 1), i2 \in 1..(Len(list2) + 1) :
          i1 + i2 >= n + 2 => i1 = Len(list1) + 1 /\ i2 = Len(list2) + 1
    BY <1>0 DEF n
  <2> QED BY <2>1, <2>2, <2>3
<1>13. Range(c.sum) = SymDiff(Range(list1), Range(list2))
  BY <1>11, <1>12, ListRange DEF MergedTo
<1> QED BY <1>6, <1>11, <1>13

----------------------------------------------------------------------------
(* Validations.                                                            *)

Satisfies(a, c) == Odd(a \cap Range(c.variables)) = c.phase

\* The constraints that their validations agree with.
Right == {c \in Constraints : c.validation = Solutions({c})}

LEMMA SolutionsSatisfy ==
  ASSUME NEW set
  PROVE  Solutions(set) = {a \in M!Assignments : \A c \in set : Satisfies(a, c)}
BY DEF Solutions, Satisfies, Odd

\* What a constraint is made of.
LEMMA ConstraintParts ==
  ASSUME NEW c \in Constraints
  PROVE  /\ c.variables \in Lists /\ c.phase \in {0, 1} /\ c.validation \in SUBSET M!Assignments
         /\ Range(c.variables) \in SUBSET Vars /\ IsFiniteSet(Range(c.variables))
BY ListRange DEF Constraints

\* The function of a list of variables and a phase.
XorFunction(list, phase) == {a \in M!Assignments : Odd(a \cap Range(list)) = phase}

\* A step of BDD_build_xor, for both phases.
BuildNode(v, low, high) == M!ITE({a \in M!Assignments : v \in a}, high, low)
BuildStep(f, v) == [even |-> BuildNode(v, f.even, f.odd), odd |-> BuildNode(v, f.odd, f.even)]

LEMMA BuildStepRight ==
  ASSUME NEW set \in SUBSET Vars, NEW v \in Vars, v \notin set, NEW f,
         f.even = {a \in M!Assignments : Odd(a \cap set) = 0},
         f.odd = {a \in M!Assignments : Odd(a \cap set) = 1}
  PROVE  /\ BuildStep(f, v).even = {a \in M!Assignments : Odd(a \cap (set \cup {v})) = 0}
         /\ BuildStep(f, v).odd = {a \in M!Assignments : Odd(a \cap (set \cup {v})) = 1}
<1> DEFINE n == BuildStep(f, v)
<1>1. /\ n.even = BuildNode(v, f.even, f.odd)
      /\ n.odd = BuildNode(v, f.odd, f.even)
  BY DEF BuildStep
<1>2. ASSUME NEW a \in M!Assignments
      PROVE  /\ v \in a => Odd(a \cap (set \cup {v})) = (Odd(a \cap set) + 1) % 2
             /\ v \notin a => Odd(a \cap (set \cup {v})) = Odd(a \cap set)
             /\ Odd(a \cap set) \in {0, 1}
  <2>1. a \cap set \in SUBSET Vars BY DEF M!Assignments
  <2>2. IsFiniteSet(a \cap set) BY <2>1, VarsFinite
  <2>3. v \in a => a \cap (set \cup {v}) = SymDiff(a \cap set, {v}) BY DEF SymDiff
  <2>4. v \notin a => a \cap (set \cup {v}) = a \cap set OBVIOUS
  <2> QED BY <2>2, <2>3, <2>4, OddToggle, OddType
<1> HIDE DEF n
<1>3. ASSUME NEW a \in M!Assignments
      PROVE  /\ a \in n.even <=> Odd(a \cap (set \cup {v})) = 0
             /\ a \in n.odd <=> Odd(a \cap (set \cup {v})) = 1
  <2>1. a \in n.even <=> IF v \in a THEN a \in f.odd ELSE a \in f.even BY <1>1 DEF BuildNode, M!ITE
  <2>2. a \in n.odd <=> IF v \in a THEN a \in f.even ELSE a \in f.odd BY <1>1 DEF BuildNode, M!ITE
  <2>3. a \in f.even <=> Odd(a \cap set) = 0 OBVIOUS
  <2>4. a \in f.odd <=> Odd(a \cap set) = 1 OBVIOUS
  <2>5. Odd(a \cap set) = 0 \/ Odd(a \cap set) = 1 BY <1>2
  <2>6. (0 + 1) % 2 = 1 /\ (1 + 1) % 2 = 0 /\ 0 # 1 OBVIOUS
  <2> QED BY <1>2, <2>1, <2>2, <2>3, <2>4, <2>5, <2>6
<1>4. n.even \subseteq M!Assignments /\ n.odd \subseteq M!Assignments
  BY <1>1 DEF BuildNode, M!ITE
<1> QED BY <1>3, <1>4 DEF n

\* The fold goes through these steps.
LEMMA BuildRun ==
  ASSUME NEW list \in Lists, NEW phase
  PROVE  \E h :
           /\ h[0] = [even |-> M!Assignments, odd |-> {}]
           /\ \A i \in 1..Len(list) : h[i] = BuildStep(h[i - 1], Reverse(list)[i])
           /\ BDD_build_xor(list, phase) = IF phase = 1 THEN h[Len(list)].odd ELSE h[Len(list)].even
<1> DEFINE seq == Reverse(list)
           n == Len(seq)
           V == [even : SUBSET M!Assignments, odd : SUBSET M!Assignments]
           base == [even |-> M!Assignments, odd |-> {}]
           G == [f \in V |-> [v \in Vars |-> BuildStep(f, v)]]
           Body(f) == [s \in SUBSET (1..n) |->
                         IF s = {} THEN base ELSE BuildStep(f[s \ {Max(s)}], seq[Max(s)])]
           fold == CHOOSE f : f = Body(f)
<1>1. seq \in Seq(Vars) /\ Len(seq) = Len(list) /\ n \in Nat /\ DOMAIN seq = 1..n
  <2>1. Len(list) \in Nat /\ \A i \in 1..Len(list) : list[i] \in Vars BY ListRange
  <2>2. \A i \in 1..Len(list) : (Len(list) - i) + 1 \in 1..Len(list) BY <2>1
  <2>3. seq \in [1..Len(list) -> Vars] BY <2>1, <2>2 DEF Reverse
  <2>4. DOMAIN seq = 1..Len(list) BY DEF Reverse
  <2> HIDE DEF seq
  <2>5. seq \in Seq(Vars) BY <2>1, <2>3, SeqDef
  <2> QED BY <2>1, <2>4, <2>5, LenProperties
<1>2. G \in [V -> [Vars -> V]] /\ base \in V
  BY DEF BuildStep, BuildNode, M!ITE
<1>3. \A f \in V, v \in Vars : G[f][v] = BuildStep(f, v) OBVIOUS
<1>4. BDD_build_xor(list, phase) = IF phase = 1 THEN fold[1..n].odd ELSE fold[1..n].even
  BY <1>1 DEF BDD_build_xor, FoldLeft, MapThenFoldSet, BuildStep, BuildNode
<1> HIDE DEF seq, G, V, base
<1>5. \E f : f = Body(f)
  <2>1. FoldsOf(V, G, base, seq) # {} BY <1>1, <1>2, FoldExists, Zenon
  <2>2. PICK f \in [SUBSET (1..n) -> V] :
          f = [s \in SUBSET (1..n) |-> IF s = {} THEN base ELSE G[f[s \ {Max(s)}]][seq[Max(s)]]]
    BY <2>1 DEF FoldsOf
  <2>3. ASSUME NEW s \in SUBSET (1..n), s # {}
        PROVE  G[f[s \ {Max(s)}]][seq[Max(s)]] = BuildStep(f[s \ {Max(s)}], seq[Max(s)])
    <3>1. Max(s) \in 1..n BY <1>1, <2>3, MaxInSet
    <3>2. seq[Max(s)] \in Vars BY <1>1, <3>1, ElementOfSeq
    <3>3. f[s \ {Max(s)}] \in V OBVIOUS
    <3> QED BY <1>3, <3>2, <3>3
  <2>4. f = Body(f) BY <2>2, <2>3
  <2> QED BY <2>4
<1>6. fold = Body(fold)
  <2> HIDE DEF Body
  <2> QED BY <1>5
<1> HIDE DEF fold
<1>7. fold[1..0] = base
  <2>1. 1..0 = {} /\ {} \in SUBSET (1..n) OBVIOUS
  <2> QED BY <1>6, <2>1
<1>8. ASSUME NEW i \in 1..n PROVE fold[1..i] = BuildStep(fold[1..(i-1)], seq[i])
  <2>1. 1..i \in SUBSET (1..n) BY <1>1
  <2>2. Max(1..i) = i /\ (1..i) \ {i} = 1..(i-1) /\ 1..i # {} BY <1>1, LastOfInterval
  <2>3. fold[1..i] = BuildStep(fold[(1..i) \ {Max(1..i)}], seq[Max(1..i)])
    BY <2>1, <2>2, <1>6
  <2> QED BY <2>2, <2>3
<1> DEFINE h == [i \in 0..n |-> fold[1..i]]
<1>9. h[0] = base /\ \A i \in 1..n : h[i] = BuildStep(h[i - 1], seq[i])
  BY <1>1, <1>7, <1>8
<1>10. h[n] = fold[1..n] BY <1>1
<1> HIDE DEF h
<1> QED BY <1>1, <1>4, <1>9, <1>10 DEF seq, base

\* BDD_build_xor is the function of the constraint.
LEMMA BuildXorRight ==
  ASSUME NEW list \in Lists, NEW phase \in {0, 1}
  PROVE  BDD_build_xor(list, phase) = XorFunction(list, phase)
<1> DEFINE n == Len(list)
           rev == Reverse(list)
           Below(i) == {rev[j] : j \in 1..i}
<1>1. n \in Nat /\ DOMAIN list = 1..n /\ \A i \in 1..n : list[i] \in Vars BY ListRange
<1>2. \A i \in 1..n : rev[i] = list[(n - i) + 1] /\ (n - i) + 1 \in 1..n BY <1>1 DEF Reverse
<1>3. PICK h :
        /\ h[0] = [even |-> M!Assignments, odd |-> {}]
        /\ \A i \in 1..n : h[i] = BuildStep(h[i - 1], rev[i])
        /\ BDD_build_xor(list, phase) = IF phase = 1 THEN h[n].odd ELSE h[n].even
  BY BuildRun
<1> HIDE DEF rev
<1> DEFINE Kept(i) == /\ h[i].even = {a \in M!Assignments : Odd(a \cap Below(i)) = 0}
                      /\ h[i].odd = {a \in M!Assignments : Odd(a \cap Below(i)) = 1}
           S == {i \in 0..n : Kept(i)}
<1>4. 0 \in S
  <2>1. Below(0) = {} OBVIOUS
  <2>2. Odd({}) = 0
    <3>1. Cardinality({}) = 0 BY FS_EmptySet
    <3> QED BY <3>1 DEF Odd
  <2>3. \A a \in M!Assignments : Odd(a \cap Below(0)) = 0 /\ Odd(a \cap Below(0)) # 1
    <3> SUFFICES ASSUME NEW a \in M!Assignments PROVE Odd(a \cap Below(0)) = 0 OBVIOUS
    <3>1. a \cap Below(0) = {} BY <2>1
    <3> QED BY <2>2, <3>1
  <2>4. h[0].even = M!Assignments /\ h[0].odd = {} BY <1>3
  <2> HIDE DEF Below
  <2>5. Kept(0) BY <2>3, <2>4
  <2> QED BY <1>1, <2>5
<1>5. ASSUME NEW i \in 1..n, i - 1 \in S PROVE i \in S
  <2>1. Kept(i - 1) BY <1>5
  <2>2. rev[i] \in Vars /\ Below(i - 1) \in SUBSET Vars
    <3>1. \A j \in 1..(i - 1) : j \in 1..n BY <1>1
    <3> QED BY <1>1, <1>2, <3>1
  <2>3. rev[i] \notin Below(i - 1)
    <3>1. SUFFICES ASSUME NEW j \in 1..(i - 1), rev[j] = rev[i] PROVE FALSE OBVIOUS
    <3>2. j \in 1..n /\ (n - i) + 1 < (n - j) + 1 BY <1>1
    <3>3. list[(n - i) + 1] < list[(n - j) + 1] BY <1>1, <1>2, <3>2 DEF Lists
    <3>4. rev[i] < rev[j] /\ rev[i] \in Int BY <1>2, <2>2, <3>2, <3>3 DEF Vars
    <3> QED BY <3>1, <3>4
  <2>4. Below(i) = Below(i - 1) \cup {rev[i]}
    <3>1. 1..i = (1..(i - 1)) \cup {i} BY <1>1
    <3> QED BY <3>1
  <2>5. h[i] = BuildStep(h[i - 1], rev[i]) BY <1>3
  <2> HIDE DEF Below
  <2> DEFINE below == Below(i - 1)
             v == rev[i]
             f == h[i - 1]
  <2>6. /\ below \in SUBSET Vars /\ v \in Vars /\ v \notin below
        /\ f.even = {a \in M!Assignments : Odd(a \cap below) = 0}
        /\ f.odd = {a \in M!Assignments : Odd(a \cap below) = 1}
    BY <2>1, <2>2, <2>3
  <2> HIDE DEF below, v, f
  <2>7. /\ BuildStep(f, v).even = {a \in M!Assignments : Odd(a \cap (below \cup {v})) = 0}
        /\ BuildStep(f, v).odd = {a \in M!Assignments : Odd(a \cap (below \cup {v})) = 1}
    BY <2>6, BuildStepRight
  <2>8. Kept(i) BY <2>4, <2>5, <2>7 DEF below, v, f
  <2> HIDE DEF Kept
  <2> QED BY <1>1, <2>8
<1>6. Kept(n)
  <2> HIDE DEF Kept
  <2>1. 0..n \subseteq S BY <1>1, <1>4, <1>5, IntervalInduction
  <2> QED BY <1>1, <2>1
<1>7. Below(n) = Range(list)
  <2>1. \A i \in 1..n : (n - ((n - i) + 1)) + 1 = i BY <1>1
  <2>2. \A i \in 1..n : list[i] = rev[(n - i) + 1] BY <1>2, <2>1
  <2> QED BY <1>1, <1>2, <2>2 DEF Range
<1> QED BY <1>3, <1>6, <1>7 DEF XorFunction

\* The clauses of TBDD_from_xor leave the same function.
LEMMA FromXorRight ==
  ASSUME NEW list \in Lists, NEW phase \in {0, 1}
  PROVE  TBDD_from_xor(list, phase) = XorFunction(list, phase)
<1> DEFINE set == Range(list)
           wrong == {e \in SUBSET set : Cardinality(e) % 2 # phase}
<1>1. TBDD_from_xor(list, phase) =
        {a \in M!Assignments : \A e \in wrong : a \in ExcludingClause(set, e)}
  BY DEF TBDD_from_xor
<1>2. ASSUME NEW a \in M!Assignments
      PROVE  (\A e \in wrong : a \in ExcludingClause(set, e)) <=> Odd(a \cap set) = phase
  <2>1. \A e : a \in ExcludingClause(set, e) <=> a \cap set # e BY DEF ExcludingClause
  <2>2. (\A e \in wrong : a \in ExcludingClause(set, e)) <=> a \cap set \notin wrong BY <2>1
  <2>3. a \cap set \in SUBSET set OBVIOUS
  <2>4. a \cap set \in wrong <=> Odd(a \cap set) # phase BY <2>3 DEF Odd
  <2> QED BY <2>2, <2>4
<1> HIDE DEF wrong, set
<1>3. TBDD_from_xor(list, phase) = {a \in M!Assignments : Odd(a \cap set) = phase} BY <1>1, <1>2
<1> QED BY <1>3 DEF set, XorFunction

\* A constraint with one of these functions for its validation.
LEMMA RightConstraint ==
  ASSUME NEW list \in Lists, NEW phase \in {0, 1}, NEW c,
         c = [variables |-> list, phase |-> phase, validation |-> XorFunction(list, phase)]
  PROVE  c \in Right /\ c.variables = list /\ c.phase = phase
<1>1. c \in Constraints /\ c.variables = list /\ c.phase = phase BY DEF Constraints, XorFunction
<1>2. c.validation = {a \in M!Assignments : Odd(a \cap Range(c.variables)) = c.phase} BY DEF XorFunction
<1>3. Solutions({c}) = {a \in M!Assignments : Odd(a \cap Range(c.variables)) = c.phase}
  BY DEF Solutions, Odd
<1> QED BY <1>1, <1>2, <1>3 DEF Right

LEMMA XorConstraintRight ==
  ASSUME NEW list \in Lists, NEW phase \in {0, 1}
  PROVE  /\ xor_constraint(list, phase) \in Right
         /\ xor_constraint(list, phase).variables = list
         /\ xor_constraint(list, phase).phase = phase
<1>1. xor_constraint(list, phase) =
        [variables |-> list, phase |-> phase, validation |-> TBDD_from_xor(list, phase)]
  BY DEF xor_constraint
<1> QED BY <1>1, FromXorRight, RightConstraint

LEMMA EmptyList ==
  <<>> \in Lists /\ Range(<<>>) = {} /\ Odd({}) = 0 /\ \A list \in Lists : Range(list) = {} <=> list = <<>>
<1>1. <<>> \in Seq(Vars) /\ DOMAIN <<>> = {} OBVIOUS
<1>2. <<>> \in Lists /\ Range(<<>>) = {} BY <1>1 DEF Lists, Range
<1>3. Cardinality({}) = 0 BY FS_EmptySet
<1>4. ASSUME NEW list \in Lists, Range(list) = {} PROVE list = <<>>
  <2>1. list \in Seq(Vars) /\ Len(list) \in Nat /\ DOMAIN list = 1..Len(list) BY ListRange DEF Lists
  <2>2. ~(Len(list) > 0)
    <3>1. Len(list) > 0 => 1 \in DOMAIN list BY <2>1
    <3> QED BY <1>4, <3>1 DEF Range
  <2>3. Len(list) = 0 BY <2>1, <2>2
  <2> QED BY <2>1, <2>3, EmptySeq
<1> QED BY <1>2, <1>3, <1>4 DEF Odd

LEMMA TautologyRight == Tautology \in Right
<1>1. XorFunction(<<>>, 0) = M!Assignments
  <2>1. \A a : a \cap Range(<<>>) = {} BY EmptyList
  <2> QED BY <2>1, EmptyList DEF XorFunction
<1>2. Tautology = [variables |-> <<>>, phase |-> 0, validation |-> XorFunction(<<>>, 0)]
  BY <1>1 DEF Tautology
<1>3. <<>> \in Lists /\ 0 \in {0, 1} BY EmptyList
<1> QED BY <1>2, <1>3, RightConstraint

\* The sum of two constraints: its variables are those of just one of them, it follows
\* from both, and with one of them it is worth the other.
LEMMA XorPlusRight ==
  ASSUME NEW c \in Constraints, NEW d \in Constraints
  PROVE  /\ xor_plus(c, d) \in Right
         /\ Range(xor_plus(c, d).variables) = SymDiff(Range(c.variables), Range(d.variables))
         /\ xor_plus(c, d).phase = (c.phase + d.phase) % 2
         /\ \A a \in M!Assignments :
               /\ Satisfies(a, c) => (Satisfies(a, xor_plus(c, d)) <=> Satisfies(a, d))
               /\ Satisfies(a, d) => (Satisfies(a, xor_plus(c, d)) <=> Satisfies(a, c))
<1> DEFINE list == coefficient_sum(c.variables, d.variables)
           phase == (c.phase + d.phase) % 2
           plus == xor_plus(c, d)
<1>1. c.variables \in Lists /\ d.variables \in Lists /\ c.phase \in {0, 1} /\ d.phase \in {0, 1}
  BY ConstraintParts
<1>2. list \in Lists /\ Range(list) = SymDiff(Range(c.variables), Range(d.variables))
  BY <1>1, CoefficientSumRight
<1>3. phase \in {0, 1} BY <1>1
<1>4. plus = [variables |-> list, phase |-> phase, validation |-> XorFunction(list, phase)]
  BY <1>2, <1>3, BuildXorRight DEF xor_plus
<1> HIDE DEF list, phase, plus
<1>5. plus \in Right /\ plus.variables = list /\ plus.phase = phase
  BY <1>2, <1>3, <1>4, RightConstraint
<1>6. ASSUME NEW a \in M!Assignments
      PROVE  /\ Satisfies(a, c) => (Satisfies(a, plus) <=> Satisfies(a, d))
             /\ Satisfies(a, d) => (Satisfies(a, plus) <=> Satisfies(a, c))
  <2> DEFINE s == a \cap Range(c.variables)
             t == a \cap Range(d.variables)
  <2>1. IsFiniteSet(s) /\ IsFiniteSet(t) BY ConstraintParts, FS_Subset
  <2>2. a \cap Range(list) = SymDiff(s, t) BY <1>2 DEF SymDiff
  <2>3. Odd(s) \in {0, 1} /\ Odd(t) \in {0, 1} /\ Odd(SymDiff(s, t)) = (Odd(s) + Odd(t)) % 2
    BY <2>1, OddType, OddSum
  <2>4. Satisfies(a, plus) <=> (Odd(s) + Odd(t)) % 2 = (c.phase + d.phase) % 2
    BY <1>5, <2>2, <2>3 DEF Satisfies, phase
  <2>5. (Satisfies(a, c) <=> Odd(s) = c.phase) /\ (Satisfies(a, d) <=> Odd(t) = d.phase)
    BY DEF Satisfies
  <2> HIDE DEF s, t
  <2>6. \A w, x, y, z \in {0, 1} : /\ w = y => ((w + x) % 2 = (y + z) % 2 <=> x = z)
                                   /\ x = z => ((w + x) % 2 = (y + z) % 2 <=> w = y)
    OBVIOUS
  <2> QED BY <1>1, <2>3, <2>4, <2>5, <2>6
<1> QED BY <1>2, <1>5, <1>6 DEF plus, phase

\* So it can be proved.
LEMMA ProvedRight ==
  ASSUME NEW c \in Right, NEW d \in Right
  PROVE  Proved(c, d)
<1> DEFINE e == xor_plus(c, d)
<1>1. c \in Constraints /\ d \in Constraints BY DEF Right
<1>2. e \in Right /\ \A a \in M!Assignments : Satisfies(a, c) => (Satisfies(a, e) <=> Satisfies(a, d))
  BY <1>1, XorPlusRight
<1>3. \A f \in Right : f.validation = {a \in M!Assignments : Satisfies(a, f)}
  BY SolutionsSatisfy DEF Right
<1> HIDE DEF e
<1>4. c.validation \cap d.validation \subseteq e.validation BY <1>2, <1>3
<1> QED BY <1>4 DEF Proved, e

----------------------------------------------------------------------------
(* The folds of the model, as runs.                                        *)

\* AddAll adds one constraint after the other.
LEMMA AddAllRun ==
  ASSUME NEW list \in Seq(Constraints)
  PROVE  \E h :
           /\ h[0] = <<>>
           /\ \A i \in 1..Len(list) : h[i] = add(h[i - 1], list[i])
           /\ AddAll(list) = h[Len(list)]
<1> DEFINE seq == list
           n == Len(seq)
           V == Seq(Constraints)
           base == <<>>
           G == [f \in V |-> [v \in Constraints |-> add(f, v)]]
           Body(f) == [s \in SUBSET (1..n) |->
                         IF s = {} THEN base ELSE add(f[s \ {Max(s)}], seq[Max(s)])]
           fold == CHOOSE f : f = Body(f)
<1>1. seq \in Seq(Constraints) /\ n \in Nat /\ DOMAIN seq = 1..n
  BY LenProperties
<1>2. G \in [V -> [Constraints -> V]] /\ base \in V
  <2>1. <<>> \in Seq(Constraints) OBVIOUS
  <2>2. \A f \in Seq(Constraints), v \in Constraints : add(f, v) \in Seq(Constraints)
    BY AppendProperties DEF add
  <2> QED BY <2>1, <2>2
<1>3. \A f \in V, v \in Constraints : G[f][v] = add(f, v) OBVIOUS
<1>4. AddAll(list) = fold[1..n]
  BY <1>1 DEF AddAll, FoldLeft, MapThenFoldSet
<1> HIDE DEF seq, G, V, base
<1>5. \E f : f = Body(f)
  <2>1. FoldsOf(V, G, base, seq) # {} BY <1>1, <1>2, FoldExists, Zenon
  <2>2. PICK f \in [SUBSET (1..n) -> V] :
          f = [s \in SUBSET (1..n) |-> IF s = {} THEN base ELSE G[f[s \ {Max(s)}]][seq[Max(s)]]]
    BY <2>1 DEF FoldsOf
  <2>3. ASSUME NEW s \in SUBSET (1..n), s # {}
        PROVE  G[f[s \ {Max(s)}]][seq[Max(s)]] = add(f[s \ {Max(s)}], seq[Max(s)])
    <3>1. Max(s) \in 1..n BY <1>1, <2>3, MaxInSet
    <3>2. seq[Max(s)] \in Constraints BY <1>1, <3>1, ElementOfSeq
    <3>3. f[s \ {Max(s)}] \in V OBVIOUS
    <3> QED BY <1>3, <3>2, <3>3
  <2>4. f = Body(f) BY <2>2, <2>3
  <2> QED BY <2>4
<1>6. fold = Body(fold)
  <2> HIDE DEF Body
  <2> QED BY <1>5
<1> HIDE DEF fold
<1>7. fold[1..0] = base
  <2>1. 1..0 = {} /\ {} \in SUBSET (1..n) OBVIOUS
  <2> QED BY <1>6, <2>1
<1>8. ASSUME NEW i \in 1..n PROVE fold[1..i] = add(fold[1..(i - 1)], seq[i])
  <2>1. 1..i \in SUBSET (1..n) BY <1>1
  <2>2. i \in Nat \ {0} BY <1>1
  <2>3. Max(1..i) = i /\ (1..i) \ {i} = 1..(i - 1) /\ 1..i # {} BY <2>2, LastOfInterval
  <2>4. fold[1..i] = add(fold[(1..i) \ {Max(1..i)}], seq[Max(1..i)])
    BY <2>1, <2>3, <1>6
  <2> QED BY <2>3, <2>4
<1> DEFINE h == [i \in 0..n |-> fold[1..i]]
<1>9. h[0] = base /\ \A i \in 1..n : h[i] = add(h[i - 1], seq[i])
  BY <1>1, <1>7, <1>8
<1>10. h[n] = fold[1..n] BY <1>1
<1> HIDE DEF h
<1> QED BY <1>4, <1>9, <1>10 DEF seq, base

\* So does the end of get_sum.
LEMMA RestRun ==
  ASSUME NEW list \in Seq(Right \cup {NULL})
  PROVE  \E h :
           /\ h[0] = Tautology
           /\ \A i \in 1..Len(list) : h[i] = AddNode(h[i - 1], list[i])
           /\ FoldLeft(AddNode, Tautology, list) = h[Len(list)]
<1> DEFINE seq == list
           n == Len(seq)
           V == Right
           base == Tautology
           G == [f \in V |-> [v \in (Right \cup {NULL}) |-> AddNode(f, v)]]
           Body(f) == [s \in SUBSET (1..n) |->
                         IF s = {} THEN base ELSE AddNode(f[s \ {Max(s)}], seq[Max(s)])]
           fold == CHOOSE f : f = Body(f)
<1>1. seq \in Seq((Right \cup {NULL})) /\ n \in Nat /\ DOMAIN seq = 1..n
  BY LenProperties
<1>2. G \in [V -> [(Right \cup {NULL}) -> V]] /\ base \in V
  <2>1. \A f \in Right, v \in Right \cup {NULL} : AddNode(f, v) \in Right
    BY XorPlusRight DEF AddNode, Right
  <2> QED BY <2>1, TautologyRight
<1>3. \A f \in V, v \in (Right \cup {NULL}) : G[f][v] = AddNode(f, v) OBVIOUS
<1>4. FoldLeft(AddNode, Tautology, list) = fold[1..n]
  BY <1>1 DEF FoldLeft, MapThenFoldSet
<1> HIDE DEF seq, G, V, base
<1>5. \E f : f = Body(f)
  <2>1. FoldsOf(V, G, base, seq) # {} BY <1>1, <1>2, FoldExists, Zenon
  <2>2. PICK f \in [SUBSET (1..n) -> V] :
          f = [s \in SUBSET (1..n) |-> IF s = {} THEN base ELSE G[f[s \ {Max(s)}]][seq[Max(s)]]]
    BY <2>1 DEF FoldsOf
  <2>3. ASSUME NEW s \in SUBSET (1..n), s # {}
        PROVE  G[f[s \ {Max(s)}]][seq[Max(s)]] = AddNode(f[s \ {Max(s)}], seq[Max(s)])
    <3>1. Max(s) \in 1..n BY <1>1, <2>3, MaxInSet
    <3>2. seq[Max(s)] \in (Right \cup {NULL}) BY <1>1, <3>1, ElementOfSeq
    <3>3. f[s \ {Max(s)}] \in V OBVIOUS
    <3> QED BY <1>3, <3>2, <3>3
  <2>4. f = Body(f) BY <2>2, <2>3
  <2> QED BY <2>4
<1>6. fold = Body(fold)
  <2> HIDE DEF Body
  <2> QED BY <1>5
<1> HIDE DEF fold
<1>7. fold[1..0] = base
  <2>1. 1..0 = {} /\ {} \in SUBSET (1..n) OBVIOUS
  <2> QED BY <1>6, <2>1
<1>8. ASSUME NEW i \in 1..n PROVE fold[1..i] = AddNode(fold[1..(i - 1)], seq[i])
  <2>1. 1..i \in SUBSET (1..n) BY <1>1
  <2>2. i \in Nat \ {0} BY <1>1
  <2>3. Max(1..i) = i /\ (1..i) \ {i} = 1..(i - 1) /\ 1..i # {} BY <2>2, LastOfInterval
  <2>4. fold[1..i] = AddNode(fold[(1..i) \ {Max(1..i)}], seq[Max(1..i)])
    BY <2>1, <2>3, <1>6
  <2> QED BY <2>3, <2>4
<1> DEFINE h == [i \in 0..n |-> fold[1..i]]
<1>9. h[0] = base /\ \A i \in 1..n : h[i] = AddNode(h[i - 1], seq[i])
  BY <1>1, <1>7, <1>8
<1>10. h[n] = fold[1..n] BY <1>1
<1> HIDE DEF h
<1> QED BY <1>4, <1>9, <1>10 DEF seq, base

\* So does xor_sum_list_linear, after the first one.
LEMMA LinearRun ==
  ASSUME NEW list \in Seq(Right), list # <<>>
  PROVE  \E h :
           /\ h[0] = list[1]
           /\ \A i \in 1..Len(Tail(list)) : h[i] = xor_plus(h[i - 1], Tail(list)[i])
           /\ xor_sum_list_linear(list) = h[Len(Tail(list))]
<1> DEFINE seq == Tail(list)
           n == Len(seq)
           V == Right
           base == list[1]
           G == [f \in V |-> [v \in Right |-> xor_plus(f, v)]]
           Body(f) == [s \in SUBSET (1..n) |->
                         IF s = {} THEN base ELSE xor_plus(f[s \ {Max(s)}], seq[Max(s)])]
           fold == CHOOSE f : f = Body(f)
<1>1. seq \in Seq(Right) /\ n \in Nat /\ DOMAIN seq = 1..n
  <2>1. Tail(list) \in Seq(Right) BY HeadTailProperties
  <2> QED BY <2>1, LenProperties
<1>2. G \in [V -> [Right -> V]] /\ base \in V
  <2>1. \A f \in Right, v \in Right : xor_plus(f, v) \in Right
    BY XorPlusRight DEF Right
  <2>2. list[1] \in Right
    <3>1. Len(list) \in Nat /\ Len(list) # 0 BY EmptySeq, LenProperties
    <3> QED BY <3>1, ElementOfSeq
  <2> QED BY <2>1, <2>2
<1>3. \A f \in V, v \in Right : G[f][v] = xor_plus(f, v) OBVIOUS
<1>4. xor_sum_list_linear(list) = fold[1..n]
  BY <1>1 DEF xor_sum_list_linear, FoldLeft, MapThenFoldSet
<1> HIDE DEF seq, G, V, base
<1>5. \E f : f = Body(f)
  <2>1. FoldsOf(V, G, base, seq) # {} BY <1>1, <1>2, FoldExists, Zenon
  <2>2. PICK f \in [SUBSET (1..n) -> V] :
          f = [s \in SUBSET (1..n) |-> IF s = {} THEN base ELSE G[f[s \ {Max(s)}]][seq[Max(s)]]]
    BY <2>1 DEF FoldsOf
  <2>3. ASSUME NEW s \in SUBSET (1..n), s # {}
        PROVE  G[f[s \ {Max(s)}]][seq[Max(s)]] = xor_plus(f[s \ {Max(s)}], seq[Max(s)])
    <3>1. Max(s) \in 1..n BY <1>1, <2>3, MaxInSet
    <3>2. seq[Max(s)] \in Right BY <1>1, <3>1, ElementOfSeq
    <3>3. f[s \ {Max(s)}] \in V OBVIOUS
    <3> QED BY <1>3, <3>2, <3>3
  <2>4. f = Body(f) BY <2>2, <2>3
  <2> QED BY <2>4
<1>6. fold = Body(fold)
  <2> HIDE DEF Body
  <2> QED BY <1>5
<1> HIDE DEF fold
<1>7. fold[1..0] = base
  <2>1. 1..0 = {} /\ {} \in SUBSET (1..n) OBVIOUS
  <2> QED BY <1>6, <2>1
<1>8. ASSUME NEW i \in 1..n PROVE fold[1..i] = xor_plus(fold[1..(i - 1)], seq[i])
  <2>1. 1..i \in SUBSET (1..n) BY <1>1
  <2>2. i \in Nat \ {0} BY <1>1
  <2>3. Max(1..i) = i /\ (1..i) \ {i} = 1..(i - 1) /\ 1..i # {} BY <2>2, LastOfInterval
  <2>4. fold[1..i] = xor_plus(fold[(1..i) \ {Max(1..i)}], seq[Max(1..i)])
    BY <2>1, <2>3, <1>6
  <2> QED BY <2>3, <2>4
<1> DEFINE h == [i \in 0..n |-> fold[1..i]]
<1>9. h[0] = base /\ \A i \in 1..n : h[i] = xor_plus(h[i - 1], seq[i])
  BY <1>1, <1>7, <1>8
<1>10. h[n] = fold[1..n] BY <1>1
<1> HIDE DEF h
<1> QED BY <1>4, <1>9, <1>10 DEF seq, base

----------------------------------------------------------------------------
(* What the folds give.                                                    *)

Plain(c) == ~is_degenerate(c)

LEMMA RightParts ==
  ASSUME NEW c \in Right
  PROVE  /\ c \in Constraints /\ c # NULL /\ c.variables \in Lists /\ c.phase \in {0, 1}
         /\ Range(c.variables) \in SUBSET Vars /\ IsFiniteSet(Range(c.variables))
         /\ c.validation = Solutions({c})
BY ConstraintParts, ParityAssumption DEF Right

\* One element more.
LEMMA AppendRange ==
  ASSUME NEW T, NEW seq \in Seq(T), NEW e \in T
  PROVE  Range(Append(seq, e)) = Range(seq) \cup {e}
<1>1. /\ Len(seq) \in Nat /\ DOMAIN seq = 1..Len(seq)
      /\ Append(seq, e) \in Seq(T) /\ Len(Append(seq, e)) = Len(seq) + 1
      /\ \A i \in 1..Len(seq) : Append(seq, e)[i] = seq[i]
      /\ Append(seq, e)[Len(seq) + 1] = e
  BY AppendProperties, LenProperties
<1>2. DOMAIN Append(seq, e) = 1..(Len(seq) + 1) BY <1>1, LenProperties
<1>3. 1..(Len(seq) + 1) = (1..Len(seq)) \cup {Len(seq) + 1} BY <1>1
<1> QED BY <1>1, <1>2, <1>3 DEF Range

\* AddAll leaves out the constraints that say nothing, and only those.
LEMMA AddAllRight ==
  ASSUME NEW list \in Seq(Right)
  PROVE  /\ AddAll(list) \in Seq(Right)
         /\ Len(AddAll(list)) <= Len(list)
         /\ Range(AddAll(list)) = {c \in Range(list) : Plain(c)}
         /\ (\A c \in Range(list) : Plain(c)) => AddAll(list) = list
<1> DEFINE n == Len(list)
           First(i) == {list[j] : j \in 1..i}
           All == \A c \in Range(list) : Plain(c)
<1>1. n \in Nat /\ DOMAIN list = 1..n /\ \A i \in 1..n : list[i] \in Right
  BY LenProperties, ElementOfSeq
<1>2. list \in Seq(Constraints)
  <2>1. Right \subseteq Constraints BY DEF Right
  <2> QED BY <2>1
<1>3. PICK h :
        /\ h[0] = <<>>
        /\ \A i \in 1..n : h[i] = add(h[i - 1], list[i])
        /\ AddAll(list) = h[n]
  BY <1>2, AddAllRun
<1> DEFINE Kept(i) == /\ h[i] \in Seq(Right) /\ Len(h[i]) <= i
                      /\ Range(h[i]) = {c \in First(i) : Plain(c)}
                      /\ All => Len(h[i]) = i /\ \A j \in 1..i : h[i][j] = list[j]
           S == {i \in 0..n : Kept(i)}
<1>4. 0 \in S
  <2>1. First(0) = {} OBVIOUS
  <2>2. <<>> \in Seq(Right) /\ Len(<<>>) = 0 /\ Range(<<>>) = {} BY DEF Range
  <2>3. \A j \in 1..0 : FALSE OBVIOUS
  <2> HIDE DEF First, All
  <2>4. Kept(0) BY <1>3, <2>1, <2>2, <2>3
  <2> QED BY <1>1, <2>4
<1>5. ASSUME NEW i \in 1..n, i - 1 \in S PROVE i \in S
  <2> DEFINE c == list[i]
             g == h[i - 1]
  <2>1. Kept(i - 1) BY <1>5
  <2>2. c \in Right /\ h[i] = add(g, c) BY <1>1, <1>3
  <2>3. First(i) = First(i - 1) \cup {c}
    <3>1. 1..i = (1..(i - 1)) \cup {i} BY <1>1
    <3> QED BY <3>1
  <2>4. c \in Range(list) BY <1>1 DEF Range
  <2>5. i - 1 \in Nat /\ i \in Nat BY <1>1
  <2>6. CASE is_degenerate(c)
    <3>1. h[i] = g BY <2>2, <2>6 DEF add
    <3>2. ~All BY <2>4, <2>6 DEF Plain
    <3>3. {d \in First(i) : Plain(d)} = {d \in First(i - 1) : Plain(d)} BY <2>3, <2>6 DEF Plain
    <3>4. Len(g) <= i
      <4>1. Len(g) \in Nat BY <2>1, LenProperties
      <4> QED BY <2>1, <2>5, <4>1
    <3> HIDE DEF c, g, First, All
    <3>5. Kept(i) BY <2>1, <3>1, <3>2, <3>3, <3>4 DEF g
    <3> QED BY <1>1, <3>5
  <2>7. CASE ~is_degenerate(c)
    <3> DEFINE a == Append(g, c)
    <3>1. h[i] = a BY <2>2, <2>7 DEF add
    <3>2. /\ a \in Seq(Right) /\ Len(a) = Len(g) + 1
          /\ \A j \in 1..Len(g) : a[j] = g[j]
          /\ a[Len(g) + 1] = c
      BY <2>1, <2>2, AppendProperties
    <3>3. Range(a) = Range(g) \cup {c} BY <2>1, <2>2, AppendRange
    <3>4. {d \in First(i) : Plain(d)} = {d \in First(i - 1) : Plain(d)} \cup {c} BY <2>3, <2>7 DEF Plain
    <3>5. Len(g) \in Nat BY <2>1, LenProperties
    <3>6. ASSUME All PROVE Len(a) = i /\ \A j \in 1..i : a[j] = list[j]
      <4>1. Len(g) = i - 1 /\ \A j \in 1..(i - 1) : g[j] = list[j] BY <2>1, <3>6
      <4>2. \A j \in 1..i : j = i \/ j \in 1..(i - 1) BY <2>5
      <4> HIDE DEF a, g, c
      <4> QED BY <2>5, <3>2, <4>1, <4>2 DEF c
    <3>7. Len(a) <= i BY <2>1, <2>5, <3>2, <3>5
    <3> HIDE DEF a, c, g, First, All
    <3>8. Kept(i) BY <2>1, <3>1, <3>2, <3>3, <3>4, <3>6, <3>7 DEF g
    <3> QED BY <1>1, <3>8
  <2> QED BY <2>6, <2>7
<1>6. Kept(n)
  <2> HIDE DEF Kept
  <2>1. 0..n \subseteq S BY <1>1, <1>4, <1>5, IntervalInduction
  <2> QED BY <1>1, <2>1
<1>7. First(n) = Range(list) BY <1>1 DEF Range
<1>8. ASSUME All PROVE h[n] = list
  <2>1. Len(h[n]) = n /\ \A j \in 1..n : h[n][j] = list[j] BY <1>6, <1>8
  <2>2. h[n] \in Seq(Right) BY <1>6
  <2> QED BY <1>1, <2>1, <2>2, SeqEqual
<1> QED BY <1>3, <1>6, <1>7, <1>8

\* The sum of no constraint, and of one more.
LEMMA SumNothing ==
  ASSUME NEW list
  PROVE  IsSum(Tautology, list, {})
<1>1. \A v : {i \in {} : v \in Range(list[i].variables)} = {} OBVIOUS
<1>2. {i \in {} : list[i].phase = 1} = {} OBVIOUS
<1>3. Tautology.variables = <<>> /\ Tautology.phase = 0 /\ Tautology.validation = Solutions({Tautology})
  BY TautologyRight DEF Tautology, Right
<1> QED BY <1>1, <1>2, <1>3, EmptyList DEF IsSum

\* The places of a list whose constraint has a variable, and those with the phase 1.
Having(list, places, v) == {i \in places : v \in Range(list[i].variables)}
Phased(list, places) == {i \in places : list[i].phase = 1}

LEMMA SumMore ==
  ASSUME NEW list, NEW places, IsFiniteSet(places), NEW p, p \notin places,
         list[p] \in Right, NEW c \in Right, IsSum(c, list, places)
  PROVE  IsSum(xor_plus(c, list[p]), list, places \cup {p})
<1> DEFINE d == list[p]
           e == xor_plus(c, d)
           more == places \cup {p}
<1>1. /\ e \in Right /\ Range(e.variables) = SymDiff(Range(c.variables), Range(d.variables))
      /\ e.phase = (c.phase + d.phase) % 2
      /\ d.phase \in {0, 1} /\ c.phase \in {0, 1}
      /\ Range(c.variables) \in SUBSET Vars /\ Range(d.variables) \in SUBSET Vars
  BY RightParts, XorPlusRight
<1>2. /\ Range(c.variables) = {v \in Vars : Odd(Having(list, places, v)) = 1}
      /\ c.phase = Odd(Phased(list, places))
  BY DEF IsSum, Having, Phased
<1>3. ASSUME NEW v
      PROVE  /\ v \in Range(d.variables) =>
                   Odd(Having(list, more, v)) = (Odd(Having(list, places, v)) + 1) % 2
             /\ v \notin Range(d.variables) => Having(list, more, v) = Having(list, places, v)
             /\ Odd(Having(list, places, v)) \in {0, 1}
  <2>1. IsFiniteSet(Having(list, places, v)) BY FS_Subset DEF Having
  <2>2. v \in Range(d.variables) => Having(list, more, v) = SymDiff(Having(list, places, v), {p})
    BY DEF Having, SymDiff
  <2>3. v \notin Range(d.variables) => Having(list, more, v) = Having(list, places, v) BY DEF Having
  <2> QED BY <2>1, <2>2, <2>3, OddToggle, OddType
<1>4. Range(e.variables) = {v \in Vars : Odd(Having(list, more, v)) = 1}
  <2>1. ASSUME NEW v \in Vars PROVE v \in Range(e.variables) <=> Odd(Having(list, more, v)) = 1
    <3>1. v \in Range(e.variables) <=> ~(v \in Range(c.variables) <=> v \in Range(d.variables))
      BY <1>1 DEF SymDiff
    <3>2. v \in Range(c.variables) <=> Odd(Having(list, places, v)) = 1 BY <1>2
    <3>3. (0 + 1) % 2 = 1 /\ (1 + 1) % 2 = 0 /\ 0 # 1 OBVIOUS
    <3> HIDE DEF e, d, more
    <3> QED BY <1>3, <3>1, <3>2, <3>3
  <2>2. Range(e.variables) \subseteq Vars BY <1>1 DEF SymDiff
  <2> HIDE DEF e, more
  <2> QED BY <2>1, <2>2
<1>5. e.phase = Odd(Phased(list, more))
  <2>1. IsFiniteSet(Phased(list, places)) BY FS_Subset DEF Phased
  <2>2. CASE d.phase = 1
    <3>1. Phased(list, more) = SymDiff(Phased(list, places), {p}) BY <2>2 DEF Phased, SymDiff
    <3>2. Odd(Phased(list, more)) = (Odd(Phased(list, places)) + 1) % 2 BY <2>1, <3>1, OddToggle
    <3> HIDE DEF e, d, more
    <3> QED BY <1>1, <1>2, <2>2, <3>2
  <2>3. CASE d.phase # 1
    <3>1. Phased(list, more) = Phased(list, places) BY <2>3 DEF Phased
    <3>2. d.phase = 0 /\ (0 + 0) % 2 = 0 /\ (1 + 0) % 2 = 1 BY <1>1, <2>3
    <3> HIDE DEF e, d, more
    <3> QED BY <1>1, <1>2, <3>1, <3>2
  <2> QED BY <2>2, <2>3
<1>6. e.validation = Solutions({e}) BY <1>1, RightParts
<1> QED BY <1>4, <1>5, <1>6 DEF IsSum, Having, Phased

\* The sum of one constraint is that constraint.
LEMMA SumOne ==
  ASSUME NEW list, NEW p, list[p] \in Right
  PROVE  IsSum(list[p], list, {p})
<1> DEFINE c == list[p]
<1>1. /\ c.phase \in {0, 1} /\ Range(c.variables) \in SUBSET Vars /\ c.validation = Solutions({c})
  BY RightParts
<1>2. Odd({p}) = 1 /\ Odd({}) = 0
  <2>1. Cardinality({p}) = 1 BY FS_Singleton
  <2>2. Odd({p}) = 1 BY <2>1 DEF Odd
  <2> QED BY <2>2, EmptyList
<1>3. \A v : {i \in {p} : v \in Range(list[i].variables)} = IF v \in Range(c.variables) THEN {p} ELSE {}
  OBVIOUS
<1>4. {i \in {p} : list[i].phase = 1} = IF c.phase = 1 THEN {p} ELSE {} OBVIOUS
<1>5. Range(c.variables) = {v \in Vars : Odd({i \in {p} : v \in Range(list[i].variables)}) = 1}
  <2>1. \A v \in Vars : v \in Range(c.variables) <=> Odd({i \in {p} : v \in Range(list[i].variables)}) = 1
    BY <1>2, <1>3
  <2> HIDE DEF c
  <2> QED BY <1>1, <2>1
<1>6. c.phase = Odd({i \in {p} : list[i].phase = 1})
  <2> HIDE DEF c
  <2> QED BY <1>1, <1>2, <1>4
<1> QED BY <1>1, <1>5, <1>6 DEF IsSum

\* The end of get_sum adds up what is left.
LEMMA RestSum ==
  ASSUME NEW list \in Seq(Right \cup {NULL})
  PROVE  IsSum(FoldLeft(AddNode, Tautology, list), list, Present(list))
<1> DEFINE n == Len(list)
           First(i) == {j \in 1..i : list[j] # NULL}
<1>1. n \in Nat /\ DOMAIN list = 1..n /\ \A i \in 1..n : list[i] \in Right \cup {NULL}
  BY LenProperties, ElementOfSeq
<1>2. PICK h :
        /\ h[0] = Tautology
        /\ \A i \in 1..n : h[i] = AddNode(h[i - 1], list[i])
        /\ FoldLeft(AddNode, Tautology, list) = h[n]
  BY RestRun
<1> DEFINE Kept(i) == h[i] \in Right /\ IsSum(h[i], list, First(i))
           S == {i \in 0..n : Kept(i)}
<1>3. 0 \in S
  <2>1. First(0) = {} OBVIOUS
  <2>2. IsSum(Tautology, list, {}) BY SumNothing
  <2> HIDE DEF First
  <2>3. Kept(0) BY <1>2, <2>1, <2>2, TautologyRight
  <2> QED BY <1>1, <2>3
<1>4. ASSUME NEW i \in 1..n, i - 1 \in S PROVE i \in S
  <2> DEFINE c == h[i - 1]
  <2>1. c \in Right /\ IsSum(c, list, First(i - 1)) BY <1>4
  <2>2. h[i] = AddNode(c, list[i]) BY <1>2
  <2>3. 1..i = (1..(i - 1)) \cup {i} /\ i \notin 1..(i - 1) BY <1>1
  <2>4. CASE list[i] = NULL
    <3>1. First(i) = First(i - 1) BY <2>3, <2>4
    <3>2. h[i] = c BY <2>2, <2>4 DEF AddNode
    <3> HIDE DEF c, First
    <3>3. Kept(i) BY <2>1, <3>1, <3>2
    <3> QED BY <1>1, <3>3
  <2>5. CASE list[i] # NULL
    <3>1. First(i) = First(i - 1) \cup {i} /\ i \notin First(i - 1) BY <2>3, <2>5
    <3>2. h[i] = xor_plus(c, list[i]) BY <2>2, <2>5 DEF AddNode
    <3>3. list[i] \in Right BY <1>1, <2>5
    <3>4. IsFiniteSet(First(i - 1))
      <4>1. IsFiniteSet(1..(i - 1)) BY <1>1, FS_Interval
      <4> QED BY <4>1, FS_Subset
    <3>5. xor_plus(c, list[i]) \in Right BY <2>1, <3>3, RightParts, XorPlusRight
    <3> HIDE DEF c, First
    <3>6. IsSum(xor_plus(c, list[i]), list, First(i - 1) \cup {i}) BY <2>1, <3>1, <3>3, <3>4, SumMore
    <3>7. Kept(i) BY <3>1, <3>2, <3>5, <3>6
    <3> QED BY <1>1, <3>7
  <2> QED BY <2>4, <2>5
<1>5. n \in S
  <2> HIDE DEF S
  <2>1. 0..n \subseteq S BY <1>1, <1>3, <1>4, IntervalInduction
  <2> QED BY <1>1, <2>1
<1>6. First(n) = Present(list) BY <1>1 DEF Present
<1> QED BY <1>2, <1>5, <1>6

\* Short lists are added up at once.
LEMMA LinearSum ==
  ASSUME NEW list \in Seq(Right)
  PROVE  IsSum(xor_sum_list_linear(list), list, DOMAIN list)
<1> DEFINE n == Len(Tail(list))
<1>1. CASE list = <<>>
  <2>1. DOMAIN list = {} BY <1>1
  <2>2. xor_sum_list_linear(list) = Tautology BY <1>1 DEF xor_sum_list_linear
  <2> QED BY <2>1, <2>2, SumNothing
<1>2. CASE list # <<>>
  <2>1. /\ Len(list) \in Nat /\ Len(list) # 0 /\ DOMAIN list = 1..Len(list)
        /\ \A i \in 1..Len(list) : list[i] \in Right
    BY <1>2, EmptySeq, LenProperties, ElementOfSeq
  <2>2. n = Len(list) - 1 /\ \A i \in 1..n : Tail(list)[i] = list[i + 1]
    BY <1>2, <2>1, HeadTailProperties
  <2>3. PICK h :
          /\ h[0] = list[1]
          /\ \A i \in 1..n : h[i] = xor_plus(h[i - 1], Tail(list)[i])
          /\ xor_sum_list_linear(list) = h[n]
    BY <1>2, LinearRun
  <2> HIDE DEF n
  <2> DEFINE Kept(i) == h[i] \in Right /\ IsSum(h[i], list, 1..(i + 1))
             S == {i \in 0..n : Kept(i)}
  <2>4. 0 \in S
    <3>1. 1..(0 + 1) = {1} /\ 1 \in 1..Len(list) BY <2>1
    <3>2. list[1] \in Right BY <2>1, <3>1
    <3>3. IsSum(list[1], list, {1}) BY <3>2, SumOne
    <3>4. Kept(0) BY <2>3, <3>1, <3>2, <3>3
    <3> QED BY <2>1, <2>2, <3>4
  <2>5. ASSUME NEW i \in 1..n, i - 1 \in S PROVE i \in S
    <3> DEFINE c == h[i - 1]
               places == 1..i
    <3>1. (i - 1) + 1 = i /\ i + 1 \in 1..Len(list) BY <2>1, <2>2
    <3>2. c \in Right /\ IsSum(c, list, places) BY <2>5, <3>1
    <3>3. h[i] = xor_plus(c, list[i + 1]) /\ list[i + 1] \in Right BY <2>1, <2>2, <2>3, <3>1
    <3>4. 1..(i + 1) = places \cup {i + 1} /\ i + 1 \notin places BY <2>1, <2>2
    <3>5. IsFiniteSet(places) BY <2>1, <2>2, FS_Interval
    <3>6. xor_plus(c, list[i + 1]) \in Right BY <3>2, <3>3, RightParts, XorPlusRight
    <3> HIDE DEF c, places
    <3>7. IsSum(xor_plus(c, list[i + 1]), list, places \cup {i + 1})
      BY <3>2, <3>3, <3>4, <3>5, SumMore
    <3>8. Kept(i) BY <3>3, <3>4, <3>6, <3>7
    <3> QED BY <2>1, <2>2, <3>8
  <2>6. n \in S
    <3> HIDE DEF S
    <3>1. n \in Nat BY <2>1, <2>2
    <3>2. 0..n \subseteq S BY <2>4, <2>5, <3>1, IntervalInduction
    <3> QED BY <3>1, <3>2
  <2>7. 1..(n + 1) = DOMAIN list BY <2>1, <2>2
  <2> QED BY <2>3, <2>6, <2>7
<1> QED BY <1>1, <1>2

----------------------------------------------------------------------------
(* The sum.                                                                *)

\* Contracting an edge keeps what the nodes add up to: one of the two nodes gets the sum,
\* or none if the sum says nothing.
LEMMA Contracted ==
  ASSUME NEW list \in Seq(Right \cup {NULL}), NEW after, DOMAIN after = DOMAIN list,
         NEW m \in DOMAIN list, NEW n \in DOMAIN list, m # n, list[m] # NULL, list[n] # NULL,
         \A i \in DOMAIN list \ {m, n} : after[i] = list[i], after[n] = NULL,
         \/ after[m] = xor_plus(list[m], list[n])
         \/ after[m] = NULL /\ is_degenerate(xor_plus(list[m], list[n]))
  PROVE  /\ \A v : Odd(Having(list, Present(list), v)) = Odd(Having(after, Present(after), v))
         /\ Odd(Phased(list, Present(list))) = Odd(Phased(after, Present(after)))
<1> DEFINE c == list[m]
           d == list[n]
           e == xor_plus(c, d)
<1>1. DOMAIN list = 1..Len(list) /\ Len(list) \in Nat /\ c \in Right /\ d \in Right
  BY LenProperties, ElementOfSeq
<1>2. /\ e \in Right /\ e # NULL /\ Range(e.variables) = SymDiff(Range(c.variables), Range(d.variables))
      /\ e.phase = (c.phase + d.phase) % 2 /\ c.phase \in {0, 1} /\ d.phase \in {0, 1}
  <2>1. e \in Right BY <1>1, RightParts, XorPlusRight
  <2> QED BY <1>1, <2>1, RightParts, XorPlusRight
<1>3. IsFiniteSet(DOMAIN list) BY <1>1, FS_Interval
<1>4. is_degenerate(e) => Range(e.variables) = {} /\ e.phase = 0 BY EmptyList DEF is_degenerate
<1>5. /\ m \in Present(list) /\ n \in Present(list) /\ n \notin Present(after)
      /\ m \in Present(after) <=> after[m] # NULL
      /\ \A i : i # m /\ i # n => (i \in Present(list) <=> i \in Present(after))
      /\ \A i : i # m /\ i # n /\ i \in Present(list) => after[i] = list[i]
  BY DEF Present
<1>6. Present(list) \subseteq DOMAIN list /\ Present(after) \subseteq DOMAIN list BY DEF Present
<1> HIDE DEF e
<1>7. ASSUME NEW v PROVE Odd(Having(list, Present(list), v)) = Odd(Having(after, Present(after), v))
  <2> DEFINE s == Having(list, Present(list), v)
             t == Having(after, Present(after), v)
  <2>1. IsFiniteSet(s) /\ IsFiniteSet(t) BY <1>3, <1>6, FS_Subset DEF Having
  <2>2. \A i : i # m /\ i # n => (i \in s <=> i \in t) BY <1>5 DEF Having
  <2>3. n \notin t BY <1>5 DEF Having
  <2>4. (m \in s <=> v \in Range(c.variables)) /\ (n \in s <=> v \in Range(d.variables))
    BY <1>5 DEF Having
  <2>5. m \in t <=> v \in Range(e.variables)
    <3>1. CASE after[m] = e BY <1>2, <1>5, <3>1 DEF Having
    <3>2. CASE after[m] = NULL /\ is_degenerate(e) BY <1>4, <1>5, <3>2 DEF Having
    <3> QED BY <3>1, <3>2 DEF e
  <2>6. m \in t <=> ~(m \in s <=> n \in s) BY <1>2, <2>4, <2>5 DEF SymDiff
  <2> HIDE DEF s, t
  <2>7. Odd(s) = Odd(t) BY <2>1, <2>2, <2>3, <2>6, OddReplaced
  <2> QED BY <2>7 DEF s, t
<1>8. Odd(Phased(list, Present(list))) = Odd(Phased(after, Present(after)))
  <2> DEFINE s == Phased(list, Present(list))
             t == Phased(after, Present(after))
  <2>1. IsFiniteSet(s) /\ IsFiniteSet(t) BY <1>3, <1>6, FS_Subset DEF Phased
  <2>2. \A i : i # m /\ i # n => (i \in s <=> i \in t) BY <1>5 DEF Phased
  <2>3. n \notin t BY <1>5 DEF Phased
  <2>4. (m \in s <=> c.phase = 1) /\ (n \in s <=> d.phase = 1) BY <1>5 DEF Phased
  <2>5. m \in t <=> e.phase = 1
    <3>1. CASE after[m] = e BY <1>2, <1>5, <3>1 DEF Phased
    <3>2. CASE after[m] = NULL /\ is_degenerate(e)
      <4>1. e.phase # 1 BY <1>4, <3>2
      <4> QED BY <1>5, <3>2, <4>1 DEF Phased
    <3> QED BY <3>1, <3>2 DEF e
  <2>6. \A x, y \in {0, 1} : (x + y) % 2 = 1 <=> ~(x = 1 <=> y = 1) OBVIOUS
  <2>7. m \in t <=> ~(m \in s <=> n \in s) BY <1>2, <2>4, <2>5, <2>6
  <2> HIDE DEF s, t
  <2>8. Odd(s) = Odd(t) BY <2>1, <2>2, <2>3, <2>7, OddReplaced
  <2> QED BY <2>8 DEF s, t
<1> QED BY <1>7, <1>8

LEMMA SeqOfFunction ==
  ASSUME NEW T, NEW n \in Nat, NEW f \in [1..n -> T]
  PROVE  f \in Seq(T) /\ Len(f) = n /\ DOMAIN f = 1..n
<1>1. f \in Seq(T) BY SeqDef
<1>2. DOMAIN f = 1..n OBVIOUS
<1>3. DOMAIN f = 1..Len(f) /\ Len(f) \in Nat BY <1>1, LenProperties
<1>4. Len(f) = n
  <2>1. \A m, k \in Nat : 1..m = 1..k => m = k
    <3>1. SUFFICES ASSUME NEW m \in Nat, NEW k \in Nat, 1..m = 1..k, m < k PROVE FALSE OBVIOUS
    <3>2. k \in 1..k /\ k \notin 1..m BY <3>1
    <3> QED BY <3>1, <3>2
  <2> QED BY <1>2, <1>3, <2>1
<1> QED BY <1>1, <1>2, <1>4

\* What the client's set is filled with.
LEMMA FilledRight ==
  ASSUME NEW list \in Seq(Lists \X {0, 1})
  PROVE  /\ Filled(list) \in Seq(Right)
         /\ Len(Filled(list)) <= Len(list)
         /\ <<<<>>, 1>> \notin Range(list) => \A c \in Range(Filled(list)) : c.variables # <<>>
<1> DEFINE n == Len(list)
           raw == [i \in DOMAIN list |-> xor_constraint(list[i][1], list[i][2])]
<1>1. n \in Nat /\ DOMAIN list = 1..n /\ \A i \in 1..n : list[i] \in Lists \X {0, 1}
  BY LenProperties, ElementOfSeq
<1>2. ASSUME NEW i \in 1..n
      PROVE  /\ raw[i] \in Right /\ raw[i].variables = list[i][1] /\ raw[i].phase = list[i][2]
             /\ list[i] = <<list[i][1], list[i][2]>> /\ list[i][2] \in {0, 1}
  <2>1. list[i][1] \in Lists /\ list[i][2] \in {0, 1} /\ list[i] = <<list[i][1], list[i][2]>> BY <1>1
  <2>2. raw[i] = xor_constraint(list[i][1], list[i][2]) BY <1>1
  <2> HIDE DEF raw
  <2> QED BY <2>1, <2>2, XorConstraintRight
<1>3. DOMAIN raw = 1..n BY <1>1
<1>4. Filled(list) = AddAll(raw) BY DEF Filled
<1>5. raw \in [1..n -> Right]
  <2>1. raw = [i \in 1..n |-> raw[i]] BY <1>1
  <2> HIDE DEF raw
  <2> QED BY <1>2, <2>1
<1> HIDE DEF raw
<1>6. raw \in Seq(Right) /\ Len(raw) = n BY <1>1, <1>5, SeqOfFunction
<1>7. ASSUME NEW c \in Range(raw), Plain(c), c.variables = <<>> PROVE <<<<>>, 1>> \in Range(list)
  <2>1. PICK i \in 1..n : c = raw[i] BY <1>3 DEF Range
  <2>2. c.phase = 1 BY <1>2, <1>7, <2>1 DEF Plain, is_degenerate
  <2>3. list[i] = <<<<>>, 1>> BY <1>2, <1>7, <2>1, <2>2
  <2> QED BY <1>1, <2>3 DEF Range
<1>8. /\ AddAll(raw) \in Seq(Right)
      /\ Len(AddAll(raw)) <= Len(raw)
      /\ Range(AddAll(raw)) = {c \in Range(raw) : Plain(c)}
  BY <1>6, AddAllRight
<1> QED BY <1>4, <1>6, <1>7, <1>8

\* The nodes and the edges of the graph.
GraphShaped ==
    /\ nodes \in Seq(Right \cup {NULL}) /\ DOMAIN nodes = DOMAIN xlist
    /\ neighbors \in [DOMAIN xlist -> SUBSET DOMAIN xlist]
    /\ \A e \in edges : e.node1 \in DOMAIN xlist /\ e.node2 \in DOMAIN xlist /\ e.node1 # e.node2

\* The nodes that are left have the sum of the list.
SumCarried(list, given) ==
    /\ \A v : Odd(Having(list, Present(list), v)) = Odd(Having(given, DOMAIN given, v))
    /\ Odd(Phased(list, Present(list))) = Odd(Phased(given, DOMAIN given))

SumInv ==
    /\ xlist \in Seq(Right)
    /\ sumPhase = "contracting" => GraphShaped /\ SumCarried(nodes, xlist)
    /\ sumPhase = "done" => IsSum(sum, xlist, DOMAIN xlist)

LEMMA SumInvInit == Init => SumInv
<1>1. SUFFICES ASSUME Init PROVE SumInv OBVIOUS
<1>2. sumPhase = "idle" BY <1>1 DEF Init, SumIdle
<1>3. \E list \in Summands \cup Systems : xlist = Filled(list) BY <1>1 DEF Init
<1>4. Summands \cup Systems \subseteq Seq(Lists \X {0, 1}) BY SessionAssumption
<1>5. xlist \in Seq(Right) BY <1>3, <1>4, FilledRight
<1> QED BY <1>2, <1>5 DEF SumInv

\* An edge has two ends.
LEMMA EdgeEnds ==
  ASSUME NEW n \in Nat, NEW a \in 1..n, NEW b \in 1..n, a # b, NEW list
  PROVE  /\ Edge(list, a, b).node1 \in {a, b} /\ Edge(list, a, b).node2 \in {a, b}
         /\ Edge(list, a, b).node1 # Edge(list, a, b).node2
<1>1. {a, b} \in SUBSET (1..n) /\ {a, b} # {} OBVIOUS
<1>2. Min({a, b}) \in {a, b} /\ \A y \in {a, b} : Min({a, b}) <= y BY <1>1, MinInSet
<1>3. Max({a, b}) \in {a, b} /\ \A y \in {a, b} : Max({a, b}) >= y BY <1>1, MaxInSet
<1>4. Min({a, b}) # Max({a, b}) BY <1>2, <1>3
<1> QED BY <1>2, <1>3, <1>4 DEF Edge

\* xor_sum_list makes the graph, or adds up.
LEMMA SumStart ==
  ASSUME xlist \in Seq(Right), xor_sum_list(xlist), UNCHANGED xlist
  PROVE  SumInv'
<1>1. CASE Len(xlist) <= 4
  <2>1. sum' = xor_sum_list_linear(xlist) /\ sumPhase' = "done" BY <1>1 DEF xor_sum_list
  <2>2. IsSum(xor_sum_list_linear(xlist), xlist, DOMAIN xlist) BY LinearSum
  <2> QED BY <2>1, <2>2 DEF SumInv
<1>2. CASE ~(Len(xlist) <= 4)
  <2> DEFINE near(n) == {m \in DOMAIN xlist \ {n} : xoverlap(xlist[m], xlist[n])}
  <2>1. /\ nodes' = xlist
        /\ edges' = UNION {{Edge(xlist, m, n) : m \in near(n)} : n \in DOMAIN xlist}
        /\ neighbors' = [n \in DOMAIN xlist |-> near(n)]
        /\ sumPhase' = "contracting"
    BY <1>2 DEF xor_sum_list, sum_graph
  <2>2. Len(xlist) \in Nat /\ DOMAIN xlist = 1..Len(xlist) /\ \A i \in 1..Len(xlist) : xlist[i] \in Right
    BY LenProperties, ElementOfSeq
  <2>3. nodes' \in Seq(Right \cup {NULL})
    <3>1. \A S, T : S \subseteq T => Seq(S) \subseteq Seq(T) OBVIOUS
    <3> QED BY <2>1, <3>1
  <2>4. \A e \in edges' : e.node1 \in DOMAIN xlist /\ e.node2 \in DOMAIN xlist /\ e.node1 # e.node2
    <3>1. SUFFICES ASSUME NEW n \in DOMAIN xlist, NEW m \in near(n)
                   PROVE  /\ Edge(xlist, m, n).node1 \in DOMAIN xlist
                          /\ Edge(xlist, m, n).node2 \in DOMAIN xlist
                          /\ Edge(xlist, m, n).node1 # Edge(xlist, m, n).node2
      BY <2>1
    <3>2. n \in 1..Len(xlist) /\ m \in 1..Len(xlist) /\ m # n BY <2>2
    <3> QED BY <2>2, <3>2, EdgeEnds
  <2>5. neighbors' \in [DOMAIN xlist -> SUBSET DOMAIN xlist] BY <2>1
  <2>6. GraphShaped' BY <2>1, <2>3, <2>4, <2>5 DEF GraphShaped
  <2>7. Present(xlist) = DOMAIN xlist BY <2>2, RightParts DEF Present
  <2>8. SumCarried(nodes', xlist') BY <2>1, <2>7 DEF SumCarried
  <2> QED BY <2>1, <2>6, <2>8 DEF SumInv
<1> QED BY <1>1, <1>2

\* A turn of get_sum.
LEMMA SumTurned ==
  ASSUME SumInv, NEW e \in edges, Contract(e), UNCHANGED xlist
  PROVE  SumInv'
<1> DEFINE m == e.node1
           n == e.node2
           xc == xor_plus(nodes[m], nodes[n])
<1>1. /\ xlist \in Seq(Right) /\ GraphShaped /\ SumCarried(nodes, xlist)
      /\ m \in DOMAIN xlist /\ n \in DOMAIN xlist /\ m # n
  BY DEF SumInv, Contract, GraphShaped
<1>2. Len(xlist) \in Nat /\ DOMAIN xlist = 1..Len(xlist) BY <1>1, LenProperties
<1>3. nodes \in Seq(Right \cup {NULL}) /\ nodes \in [DOMAIN xlist -> Right \cup {NULL}]
  BY <1>1, LenProperties, ElementOfSeq DEF GraphShaped
<1>4. CASE sumPhase' = "crashed" BY <1>1, <1>4 DEF SumInv
<1>5. CASE sumPhase' # "crashed"
  <2>1. NULL \notin {nodes[m], nodes[n]} BY <1>5 DEF Contract
  <2>2. xc \in Right
    <3>1. nodes[m] \in Right /\ nodes[n] \in Right BY <1>1, <1>3, <2>1
    <3> QED BY <3>1, RightParts, XorPlusRight
  <2>3. sumPhase' = "contracting" BY <1>5, <2>1 DEF Contract, contract_edge
  <2>4. /\ nodes' \in [DOMAIN xlist -> Right \cup {NULL}]
        /\ nodes'[n] = NULL
        /\ \A i \in DOMAIN xlist \ {m, n} : nodes'[i] = nodes[i]
        /\ \/ nodes'[m] = xc
           \/ nodes'[m] = NULL /\ is_degenerate(xc)
    <3>1. CASE is_degenerate(xc)
      <4>1. nodes' = [nodes EXCEPT ![m] = NULL, ![n] = NULL] BY <2>1, <3>1 DEF Contract
      <4> HIDE DEF m, n, xc
      <4> QED BY <1>1, <1>3, <3>1, <4>1
    <3>2. CASE ~is_degenerate(xc)
      <4>1. nodes' = [nodes EXCEPT ![m] = xc, ![n] = NULL]
        BY <1>5, <2>1, <3>2 DEF Contract, contract_edge
      <4> HIDE DEF m, n, xc
      <4> QED BY <1>1, <1>3, <2>2, <4>1
    <3> QED BY <3>1, <3>2
  <2>5. nodes' \in Seq(Right \cup {NULL}) /\ DOMAIN nodes' = DOMAIN xlist
    BY <1>2, <2>4, SeqOfFunction
  <2>6. /\ neighbors' \in [DOMAIN xlist -> SUBSET DOMAIN xlist]
        /\ \A d \in edges' : d.node1 \in DOMAIN xlist /\ d.node2 \in DOMAIN xlist /\ d.node1 # d.node2
    <3>0. neighbors \in [DOMAIN xlist -> SUBSET DOMAIN xlist]
          /\ \A d \in edges : d.node1 \in DOMAIN xlist /\ d.node2 \in DOMAIN xlist /\ d.node1 # d.node2
      BY <1>1 DEF GraphShaped
    <3>1. CASE is_degenerate(xc)
      <4>1. edges' = edges \ {e} /\ neighbors' = neighbors BY <2>1, <3>1 DEF Contract
      <4> QED BY <3>0, <4>1
    <3>2. CASE ~is_degenerate(xc)
      <4> DEFINE around == Around(e)
                 contracted == [nodes EXCEPT ![m] = xc, ![n] = NULL]
                 close == {i \in around : xoverlap(xc, nodes[i])}
                 removed == {d \in edges : {d.node1, d.node2} \cap {m, n} # {}
                                           /\ {d.node1, d.node2} \cap around # {}}
      <4>1. /\ edges' = ((edges \ {e}) \ removed) \cup {Edge(contracted, m, i) : i \in close}
            /\ neighbors' = [i \in DOMAIN nodes |->
                    IF i = m THEN close
                    ELSE IF i = n THEN {}
                    ELSE IF i \in around
                    THEN (neighbors[i] \ {m, n}) \cup (IF i \in close THEN {m} ELSE {})
                    ELSE neighbors[i]]
        BY <1>5, <2>1, <3>2 DEF Contract, contract_edge
      <4>2. around \subseteq DOMAIN xlist /\ m \notin around BY <1>1, <3>0 DEF Around
      <4>3. DOMAIN nodes = DOMAIN xlist BY <1>3
      <4>4. \A i \in close : /\ Edge(contracted, m, i).node1 \in DOMAIN xlist
                             /\ Edge(contracted, m, i).node2 \in DOMAIN xlist
                             /\ Edge(contracted, m, i).node1 # Edge(contracted, m, i).node2
        <5>1. SUFFICES ASSUME NEW i \in close
                       PROVE /\ Edge(contracted, m, i).node1 \in DOMAIN xlist
                             /\ Edge(contracted, m, i).node2 \in DOMAIN xlist
                             /\ Edge(contracted, m, i).node1 # Edge(contracted, m, i).node2
          OBVIOUS
        <5>2. i \in 1..Len(xlist) /\ m \in 1..Len(xlist) /\ m # i BY <1>1, <1>2, <4>2
        <5> HIDE DEF contracted, m
        <5> QED BY <1>2, <5>2, EdgeEnds
      <4> HIDE DEF around, contracted, removed
      <4>5. close \subseteq DOMAIN xlist BY <4>2
      <4> HIDE DEF close
      <4>6. neighbors' \in [DOMAIN xlist -> SUBSET DOMAIN xlist] BY <1>1, <3>0, <4>1, <4>3, <4>5
      <4> QED BY <3>0, <4>1, <4>4, <4>6
    <3> QED BY <3>1, <3>2
  <2>7. GraphShaped'
    <3>1. xlist' = xlist OBVIOUS
    <3> QED BY <2>5, <2>6, <3>1 DEF GraphShaped
  <2>8. /\ \A v : Odd(Having(nodes, Present(nodes), v)) = Odd(Having(nodes', Present(nodes'), v))
        /\ Odd(Phased(nodes, Present(nodes))) = Odd(Phased(nodes', Present(nodes')))
    <3>1. DOMAIN nodes = DOMAIN xlist BY <1>3
    <3>2. DOMAIN nodes' = DOMAIN nodes /\ m \in DOMAIN nodes /\ n \in DOMAIN nodes
      BY <1>1, <2>5, <3>1
    <3>3. nodes[m] # NULL /\ nodes[n] # NULL BY <2>1
    <3>4. \A i \in DOMAIN nodes \ {m, n} : nodes'[i] = nodes[i] BY <2>4, <3>1
    <3> DEFINE after == nodes'
    <3>5. after[n] = NULL /\ (after[m] = xc \/ (after[m] = NULL /\ is_degenerate(xc))) BY <2>4
    <3> HIDE DEF m, n, after
    <3> QED BY <1>1, <1>3, <3>2, <3>3, <3>4, <3>5, Contracted DEF after
  <2>9. SumCarried(nodes', xlist') BY <1>1, <2>8 DEF SumCarried
  <2> QED BY <1>1, <2>3, <2>7, <2>9 DEF SumInv
<1> QED BY <1>4, <1>5

\* The rest is added up.
LEMMA SumEnded ==
  ASSUME SumInv, AddRest, UNCHANGED xlist
  PROVE  SumInv'
<1>1. xlist \in Seq(Right) /\ nodes \in Seq(Right \cup {NULL}) /\ SumCarried(nodes, xlist)
  BY DEF SumInv, AddRest, GraphShaped
<1>2. sum' = FoldLeft(AddNode, Tautology, nodes) /\ sumPhase' = "done" BY DEF AddRest
<1>3. IsSum(sum', nodes, Present(nodes)) BY <1>1, <1>2, RestSum
<1>4. IsSum(sum', xlist, DOMAIN xlist) BY <1>1, <1>3 DEF IsSum, SumCarried, Having, Phased
<1> QED BY <1>1, <1>2, <1>4 DEF SumInv

\* Whatever edge is contracted at each turn, the sum is that of the set: its variables
\* are those of an odd number of constraints, its phase the parity of theirs, and its
\* validation its function.  Any two nodes can be added with a proof (get_sum).
THEOREM SumRightHolds == Spec => []SumRight
<1>1. Init => SumInv BY SumInvInit
<1>2. SumInv /\ [Next]_vars => SumInv'
  <2>1. SUFFICES ASSUME SumInv, [Next]_vars PROVE SumInv' OBVIOUS
  <2>2. xlist \in Seq(Right) BY <2>1 DEF SumInv
  <2>3. CASE Sum BY <2>2, <2>3, SumStart DEF Sum, sessionVars
  <2>4. CASE \E e \in edges : Contract(e) /\ UNCHANGED <<gaussVars, sessionVars>>
    BY <2>1, <2>4, SumTurned DEF sessionVars
  <2>5. CASE AddRest /\ UNCHANGED <<gaussVars, sessionVars>>
    BY <2>1, <2>5, SumEnded DEF sessionVars
  <2>6. CASE UNCHANGED <<nodes, edges, neighbors, sum, sumPhase, xlist>>
    BY <2>1, <2>6 DEF SumInv, GraphShaped
  <2>7. ((\E v \in Vars : gauss_step(v)) \/ jordanize) /\ UNCHANGED <<sumVars, sessionVars>>
        => UNCHANGED <<nodes, edges, neighbors, sum, sumPhase, xlist>>
    BY DEF sumVars, sessionVars
  <2> QED BY <2>1, <2>3, <2>4, <2>5, <2>6, <2>7
          DEF Next, vars, sumVars, sessionVars, GaussJordan, FillSets
<1>3. SumInv => SumRight
  <2>1. SUFFICES ASSUME SumInv PROVE SumRight OBVIOUS
  <2>2. ASSUME sumPhase = "contracting", NEW m \in Present(nodes), NEW n \in Present(nodes)
        PROVE  Proved(nodes[m], nodes[n])
    <3>1. nodes \in Seq(Right \cup {NULL}) BY <2>1, <2>2 DEF SumInv, GraphShaped
    <3>2. \A i \in Present(nodes) : nodes[i] \in Right BY <3>1, LenProperties, ElementOfSeq DEF Present
    <3> QED BY <3>2, ProvedRight
  <2>3. sumPhase = "contracting" => SumCarried(nodes, xlist) BY <2>1 DEF SumInv
  <2>4. sumPhase = "done" => IsSum(sum, xlist, DOMAIN xlist) BY <2>1 DEF SumInv
  <2> QED BY <2>2, <2>3, <2>4 DEF SumRight, SumCarried, Having, Phased
<1> QED BY <1>1, <1>2, <1>3, PTL DEF Spec

----------------------------------------------------------------------------
(* The elimination.                                                        *)

Variables(c) == Range(c.variables)

\* What is at the places of a list that have something.
Rows(list) == {list[i] : i \in Present(list)}

\* Remaining equations have variables: the others are dropped or end the elimination.
Reduced(list) == /\ list \in Seq(Right \cup {NULL})
                 /\ \A i \in Present(list) : list[i].variables # <<>>

\* The places of the equations that have a variable.
PlacesOf(list, v) == {i \in Present(list) : v \in Variables(list[i])}

\* Each equation has its pivot, which later ones do not have.
Triangular(all, pivots) ==
    /\ all \in Seq(Right) /\ pivots \in Seq(Vars) /\ Len(pivots) = Len(all)
    /\ \A k \in 1..Len(all) :
          /\ pivots[k] \in Variables(all[k])
          /\ \A l \in (k + 1)..Len(all) : pivots[k] \notin Variables(all[l])

\* External equations are saved only when internal variables are left nowhere.
ExternalLast(list, pivots, external, internal) ==
    /\ \A i \in Present(list), k \in DOMAIN pivots : pivots[k] \notin Variables(list[i])
    /\ \A k \in DOMAIN external : Variables(external[k]) \cap internal = {}
    /\ external # <<>> => \A i \in Present(list) : Variables(list[i]) \cap internal = {}

Indexed ==
    /\ DOMAIN equations = DOMAIN xlist
    /\ remaining_equation_count = Cardinality(Present(equations))
    /\ imap \in [Vars -> SUBSET DOMAIN equations]
    /\ \A v \in Vars : imap[v] = PlacesOf(equations, v)
    /\ \A v \in Vars : pivot_list[v] \in choose_pivot(equations, imap, internal_variables, v)

\* What is saved keeps the solutions, and any solution of the rest extends to it.
SolutionsKept(list, saved, given) ==
    /\ Solutions(Rows(list) \cup saved) = Solutions(given)
    /\ Solutions(Rows(list)) # {} => Solutions(Rows(list) \cup saved) # {}

Eliminating ==
    /\ Reduced(equations) /\ Indexed
    /\ internal_equations \in Seq(Right) /\ external_equations \in Seq(Right)
    /\ SolutionsKept(equations, Range(internal_equations) \cup Range(external_equations), Range(xlist))
    /\ Triangular(internal_equations \o external_equations, pivot_sequence)
    /\ ExternalLast(equations, pivot_sequence, external_equations, internal_variables)

\* Every pivot of an external equation is in that one only.
Solved(internals, externals, pivots, internal) ==
    /\ Triangular(internals \o externals, pivots)
    /\ \A k \in DOMAIN externals :
          /\ Variables(externals[k]) \cap internal = {}
          /\ \A l \in DOMAIN externals \ {k} : pivots[k + Len(internals)] \notin Variables(externals[l])

Done ==
    /\ Present(equations) = {}
    /\ internal_equations \in Seq(Right) /\ external_equations \in Seq(Right)
    /\ Solutions(Range(internal_equations) \cup Range(external_equations)) = Solutions(Range(xlist))
    /\ Solutions(Range(xlist)) # {}
    /\ Solved(internal_equations, external_equations, pivot_sequence, internal_variables)

Infeasible ==
    /\ \E c \in Right : external_equations = <<c>> /\ is_infeasible(c)
    /\ Solutions(Range(xlist)) = {}

GaussInv ==
    /\ xlist \in Seq(Right)
    /\ todo = "gauss" => /\ \A c \in Range(xlist) : c.variables # <<>>
                         /\ Len(xlist) * VarCount < EXTERNAL_PENALTY
    /\ gaussPhase # "idle" => todo = "gauss"
    /\ gaussPhase \in {"idle", "eliminating", "infeasible", "done"}
    /\ gaussPhase = "idle" =>
          pivot_sequence = <<>> /\ internal_equations = <<>> /\ external_equations = <<>>
    /\ gaussPhase = "eliminating" => Eliminating
    /\ gaussPhase = "done" => Done
    /\ gaussPhase = "infeasible" => Infeasible
    /\ eset # NULL =>
          /\ gaussPhase \in {"done", "infeasible"}
          /\ eset = AddAll(external_equations)
          /\ iset = IF gaussPhase = "done" THEN AddAll(internal_equations) ELSE <<>>

\* A solution satisfies each constraint.
LEMMA SolutionIff ==
  ASSUME NEW set, NEW a
  PROVE  a \in Solutions(set) <=> a \in M!Assignments /\ \A c \in set : Satisfies(a, c)
BY SolutionsSatisfy

\* A constraint without variables holds always or never.
LEMMA Constant ==
  ASSUME NEW c \in Right, c.variables = <<>>, NEW a
  PROVE  Satisfies(a, c) <=> c.phase = 0
<1>1. a \cap Range(c.variables) = {} BY EmptyList
<1>2. Odd({}) = 0 /\ c.phase \in {0, 1} BY EmptyList, RightParts
<1> QED BY <1>1, <1>2 DEF Satisfies

\* An assignment can be changed in one variable to satisfy a constraint that has it.
LEMMA Flipped ==
  ASSUME NEW c \in Right, NEW v \in Variables(c), NEW a \in M!Assignments
  PROVE  \E b \in M!Assignments :
            /\ Satisfies(b, c)
            /\ \A d : v \notin Variables(d) => (Satisfies(b, d) <=> Satisfies(a, d))
<1>1. CASE Satisfies(a, c) BY <1>1
<1>2. CASE ~Satisfies(a, c)
  <2> DEFINE b == SymDiff(a, {v})
             s == a \cap Variables(c)
  <2>1. v \in Vars /\ IsFiniteSet(s) /\ c.phase \in {0, 1} BY RightParts, FS_Subset DEF Variables
  <2>2. b \in M!Assignments BY <2>1 DEF M!Assignments, SymDiff
  <2>3. b \cap Variables(c) = SymDiff(s, {v}) BY DEF SymDiff
  <2>4. Odd(b \cap Variables(c)) = (Odd(s) + 1) % 2 /\ Odd(s) \in {0, 1} BY <2>1, <2>3, OddToggle, OddType
  <2>5. Odd(s) # c.phase BY <1>2 DEF Satisfies, Variables
  <2>6. \A x, y \in {0, 1} : x # y => (x + 1) % 2 = y OBVIOUS
  <2>7. Satisfies(b, c)
    <3> HIDE DEF b, s
    <3>1. Odd(b \cap Variables(c)) = c.phase BY <2>1, <2>4, <2>5, <2>6
    <3> QED BY <3>1 DEF Satisfies, Variables
  <2>8. ASSUME NEW d, v \notin Variables(d) PROVE Satisfies(b, d) <=> Satisfies(a, d)
    <3>1. b \cap Range(d.variables) = a \cap Range(d.variables) BY <2>8 DEF SymDiff, Variables
    <3> QED BY <3>1 DEF Satisfies
  <2> HIDE DEF b
  <2> QED BY <2>2, <2>7, <2>8
<1> QED BY <1>1, <1>2

\* The list after is the list before without the equation at m, which was added to the
\* others that have v; sums that say nothing are gone, and there was none without solution.
Eliminated(list, after, m, v) ==
    LET added(i) == xor_plus(list[m], list[i])
        others == PlacesOf(list, v) \ {m}
    IN  /\ Reduced(list) /\ m \in Present(list) /\ v \in Variables(list[m])
        /\ \A i \in others : ~is_infeasible(added(i))
        /\ after = [i \in DOMAIN list |->
                      IF i = m \/ (i \in others /\ is_degenerate(added(i))) THEN NULL
                      ELSE IF i \in others THEN added(i) ELSE list[i]]

\* Places and equations.
LEMMA ReducedParts ==
  ASSUME NEW list, Reduced(list)
  PROVE  /\ Len(list) \in Nat /\ DOMAIN list = 1..Len(list) /\ IsFiniteSet(DOMAIN list)
         /\ Present(list) \subseteq DOMAIN list /\ IsFiniteSet(Present(list))
         /\ \A i \in DOMAIN list : list[i] \in Right \cup {NULL}
         /\ \A i \in Present(list) : list[i] \in Right
<1>1. Len(list) \in Nat /\ DOMAIN list = 1..Len(list) /\ \A i \in 1..Len(list) : list[i] \in Right \cup {NULL}
  BY LenProperties, ElementOfSeq DEF Reduced
<1>2. IsFiniteSet(1..Len(list)) BY <1>1, FS_Interval
<1>3. Present(list) \subseteq DOMAIN list BY DEF Present
<1>4. IsFiniteSet(Present(list)) BY <1>1, <1>2, <1>3, FS_Subset
<1> QED BY <1>1, <1>2, <1>3, <1>4 DEF Present

\* The rows after the step.
LEMMA EliminatedRows ==
  ASSUME NEW list, NEW after, NEW m, NEW v, Eliminated(list, after, m, v)
  PROVE  /\ Reduced(after)
         /\ Present(after) \subseteq Present(list) \ {m}
         /\ \A i \in Present(after) :
               /\ v \notin Variables(after[i])
               /\ Variables(after[i]) \subseteq Variables(list[i]) \cup Variables(list[m])
<1> DEFINE others == PlacesOf(list, v) \ {m}
<1>1. /\ Reduced(list) /\ m \in Present(list) /\ v \in Variables(list[m])
      /\ DOMAIN after = DOMAIN list /\ after[m] = NULL
      /\ after = [i \in DOMAIN list |-> after[i]]
      /\ \A i \in others : /\ ~is_infeasible(xor_plus(list[m], list[i]))
                           /\ after[i] = IF is_degenerate(xor_plus(list[m], list[i])) THEN NULL
                                         ELSE xor_plus(list[m], list[i])
      /\ \A i \in DOMAIN list : i \notin others /\ i # m => after[i] = list[i]
  BY Zenon DEF Eliminated, Present, PlacesOf
<1>2. /\ Len(list) \in Nat /\ DOMAIN list = 1..Len(list)
      /\ \A i \in DOMAIN list : list[i] \in Right \cup {NULL}
      /\ \A i \in Present(list) : list[i] \in Right
  BY <1>1, ReducedParts
<1>3. ASSUME NEW i \in others
      PROVE  /\ i \in Present(list) /\ i \in DOMAIN list /\ v \in Variables(list[i])
             /\ xor_plus(list[m], list[i]) \in Right
             /\ Variables(xor_plus(list[m], list[i])) = SymDiff(Variables(list[m]), Variables(list[i]))
  <2>1. i \in Present(list) /\ v \in Variables(list[i]) BY DEF PlacesOf
  <2>2. list[m] \in Constraints /\ list[i] \in Constraints BY <1>1, <1>2, <2>1, RightParts
  <2> QED BY <2>1, <2>2, XorPlusRight DEF Variables, Present
<1>4. ASSUME NEW i \in DOMAIN list, after[i] # NULL
      PROVE  /\ i \in Present(list) /\ i # m /\ after[i] \in Right /\ after[i].variables # <<>>
             /\ v \notin Variables(after[i])
             /\ Variables(after[i]) \subseteq Variables(list[i]) \cup Variables(list[m])
  <2>1. i # m BY <1>1, <1>4
  <2>2. CASE i \in others
    <3> DEFINE c == xor_plus(list[m], list[i])
    <3>1. after[i] = c /\ ~is_degenerate(c) /\ ~is_infeasible(c) BY <1>1, <1>4, <2>2
    <3>2. c.variables # <<>> BY <3>1 DEF is_degenerate, is_infeasible
    <3>3. /\ i \in Present(list) /\ c \in Right /\ v \in Variables(list[i])
          /\ Variables(c) = SymDiff(Variables(list[m]), Variables(list[i]))
      BY <1>3, <2>2
    <3> HIDE DEF c
    <3> QED BY <1>1, <2>1, <3>1, <3>2, <3>3 DEF SymDiff
  <2>3. CASE i \notin others
    <3>1. after[i] = list[i] /\ list[i] # NULL /\ i \in Present(list) BY <1>1, <1>4, <2>1, <2>3 DEF Present
    <3>2. v \notin Variables(list[i]) BY <2>1, <2>3, <3>1 DEF PlacesOf
    <3> QED BY <1>1, <1>2, <2>1, <3>1, <3>2 DEF Reduced
  <2> QED BY <2>2, <2>3
<1> HIDE DEF others
<1>5. after \in Seq(Right \cup {NULL})
  <2>1. after \in [1..Len(list) -> Right \cup {NULL}] BY <1>1, <1>2, <1>4
  <2> QED BY <1>2, <2>1, SeqOfFunction
<1>6. \A i \in Present(after) : i \in DOMAIN list /\ after[i] # NULL BY <1>1 DEF Present
<1> QED BY <1>4, <1>5, <1>6 DEF Reduced

\* The same assignments satisfy the rows before and after, if they satisfy the equation.
LEMMA EliminatedSatisfied ==
  ASSUME NEW list, NEW after, NEW m, NEW v, Eliminated(list, after, m, v),
         NEW a \in M!Assignments, Satisfies(a, list[m])
  PROVE  (\A i \in Present(after) : Satisfies(a, after[i])) <=> (\A i \in Present(list) : Satisfies(a, list[i]))
<1> DEFINE others == PlacesOf(list, v) \ {m}
           added(i) == xor_plus(list[m], list[i])
<1>1. /\ Reduced(list) /\ m \in Present(list) /\ v \in Variables(list[m])
      /\ DOMAIN after = DOMAIN list
      /\ \A i \in DOMAIN list :
            after[i] = IF i = m \/ (i \in others /\ is_degenerate(added(i))) THEN NULL
                       ELSE IF i \in others THEN added(i) ELSE list[i]
  BY Zenon DEF Eliminated
<1>2. /\ \A i \in Present(list) : list[i] \in Right /\ i \in DOMAIN list /\ list[i] # NULL
      /\ \A i \in others : i \in Present(list)
  BY <1>1, ReducedParts DEF PlacesOf, Present
<1>3. ASSUME NEW i \in others
      PROVE  /\ added(i) \in Right /\ added(i) # NULL
             /\ Satisfies(a, added(i)) <=> Satisfies(a, list[i])
  <2>1. list[m] \in Constraints /\ list[i] \in Constraints BY <1>1, <1>2, RightParts
  <2> QED BY <2>1, XorPlusRight, RightParts
<1>4. ASSUME NEW i \in others, is_degenerate(added(i)) PROVE Satisfies(a, added(i))
  BY <1>3, <1>4, Constant DEF is_degenerate
<1> HIDE DEF others, added
<1>5. ASSUME \A i \in Present(after) : Satisfies(a, after[i]), NEW i \in Present(list)
      PROVE  Satisfies(a, list[i])
  <2>1. i \in DOMAIN after /\ list[i] # NULL BY <1>1, <1>2
  <2>2. i \in Present(after) => Satisfies(a, after[i]) BY <1>5
  <2>3. CASE i = m BY <2>3
  <2>4. CASE i # m /\ i \in others
    <3>1. CASE is_degenerate(added(i)) BY <1>3, <1>4, <2>4, <3>1
    <3>2. CASE ~is_degenerate(added(i))
      <4>1. after[i] = added(i) BY <1>1, <2>1, <2>4, <3>2
      <4>2. i \in Present(after) BY <1>3, <2>1, <2>4, <4>1 DEF Present
      <4> QED BY <1>3, <2>2, <2>4, <4>1, <4>2
    <3> QED BY <3>1, <3>2
  <2>5. CASE i # m /\ i \notin others
    <3>1. after[i] = list[i] BY <1>1, <2>1, <2>5
    <3>2. i \in Present(after) BY <2>1, <3>1 DEF Present
    <3> QED BY <2>2, <3>1, <3>2
  <2> QED BY <2>3, <2>4, <2>5
<1>6. ASSUME \A i \in Present(list) : Satisfies(a, list[i]), NEW i \in Present(after)
      PROVE  Satisfies(a, after[i])
  <2>1. i \in DOMAIN list /\ after[i] # NULL BY <1>1 DEF Present
  <2>2. i # m BY <1>1, <2>1
  <2>3. CASE i \in others
    <3>1. after[i] = added(i) BY <1>1, <2>1, <2>2, <2>3
    <3> QED BY <1>2, <1>3, <1>6, <2>3, <3>1
  <2>4. CASE i \notin others
    <3>1. after[i] = list[i] BY <1>1, <2>1, <2>2, <2>4
    <3>2. i \in Present(list) BY <2>1, <3>1 DEF Present
    <3> QED BY <1>6, <3>1, <3>2
  <2> QED BY <2>3, <2>4
<1> QED BY <1>5, <1>6

\* Nothing is lost when the equation is saved, and a solution of the other rows extends to
\* it: it has a variable they do not have any more.
LEMMA EliminatedKept ==
  ASSUME NEW list, NEW after, NEW m, NEW v, Eliminated(list, after, m, v),
         NEW saved, NEW given, SolutionsKept(list, saved, given)
  PROVE  SolutionsKept(after, saved \cup {list[m]}, given)
<1> DEFINE c == list[m]
<1>1. Reduced(list) /\ m \in Present(list) /\ v \in Variables(c) BY DEF Eliminated
<1>2. c \in Right /\ c \in Rows(list) BY <1>1, ReducedParts DEF Rows
<1>3. \A i \in Present(after) : v \notin Variables(after[i]) BY EliminatedRows
<1>4. \A a \in M!Assignments : Satisfies(a, c) =>
         ((\A d \in Rows(after) : Satisfies(a, d)) <=> (\A d \in Rows(list) : Satisfies(a, d)))
  <2> SUFFICES ASSUME NEW a \in M!Assignments, Satisfies(a, c)
               PROVE  (\A d \in Rows(after) : Satisfies(a, d)) <=> (\A d \in Rows(list) : Satisfies(a, d))
    OBVIOUS
  <2>1. (\A i \in Present(after) : Satisfies(a, after[i])) <=> (\A i \in Present(list) : Satisfies(a, list[i]))
    BY EliminatedSatisfied
  <2> QED BY <2>1 DEF Rows
<1>5. Solutions(Rows(after) \cup (saved \cup {c})) = Solutions(Rows(list) \cup saved)
  <2>1. ASSUME NEW a
        PROVE a \in Solutions(Rows(after) \cup (saved \cup {c})) <=> a \in Solutions(Rows(list) \cup saved)
    <3>1. a \in Solutions(Rows(after) \cup (saved \cup {c})) <=>
            a \in M!Assignments /\ \A d \in Rows(after) \cup (saved \cup {c}) : Satisfies(a, d)
      BY SolutionIff
    <3>2. a \in Solutions(Rows(list) \cup saved) <=>
            a \in M!Assignments /\ \A d \in Rows(list) \cup saved : Satisfies(a, d)
      BY SolutionIff
    <3> HIDE DEF c
    <3> QED BY <1>2, <1>4, <3>1, <3>2
  <2> QED BY <2>1
<1>6. ASSUME Solutions(Rows(after)) # {} PROVE Solutions(Rows(list)) # {}
  <2>1. PICK a : a \in Solutions(Rows(after)) BY <1>6
  <2>2. a \in M!Assignments /\ \A d \in Rows(after) : Satisfies(a, d) BY <2>1, SolutionIff
  <2>3. PICK b \in M!Assignments :
          Satisfies(b, c) /\ \A d : v \notin Variables(d) => (Satisfies(b, d) <=> Satisfies(a, d))
    BY <1>1, <1>2, <2>2, Flipped
  <2>4. \A d \in Rows(after) : Satisfies(b, d) BY <1>3, <2>2, <2>3 DEF Rows
  <2>5. \A d \in Rows(list) : Satisfies(b, d) BY <1>4, <2>3, <2>4
  <2>6. b \in Solutions(Rows(list)) BY <2>5, SolutionIff
  <2> QED BY <2>6
<1> QED BY <1>5, <1>6 DEF SolutionsKept

\* Two rows whose sum has no solution have none.
LEMMA NoSolution ==
  ASSUME NEW list, Reduced(list), NEW i \in Present(list), NEW j \in Present(list), NEW saved,
         is_infeasible(xor_plus(list[i], list[j]))
  PROVE  Solutions(Rows(list) \cup saved) = {}
<1> DEFINE c == list[i]
           d == list[j]
<1>1. c \in Right /\ d \in Right /\ c \in Rows(list) /\ d \in Rows(list) BY ReducedParts DEF Rows
<1>2. xor_plus(c, d) \in Right BY <1>1, RightParts, XorPlusRight
<1>3. SUFFICES ASSUME NEW a \in Solutions(Rows(list) \cup saved) PROVE FALSE OBVIOUS
<1>4. a \in M!Assignments /\ \A e \in Rows(list) \cup saved : Satisfies(a, e) BY SolutionIff
<1>5. Satisfies(a, c) /\ Satisfies(a, d) BY <1>1, <1>4
<1>6. Satisfies(a, xor_plus(c, d)) BY <1>1, <1>4, <1>5, RightParts, XorPlusRight
<1>7. ~Satisfies(a, xor_plus(c, d)) BY <1>2, Constant DEF is_infeasible
<1> QED BY <1>6, <1>7

\* The rows that the step changes but leaves.
LeftOf(list, m, v) == {i \in PlacesOf(list, v) \ {m} : ~is_degenerate(xor_plus(list[m], list[i]))}

\* The map after the step.
MapAfter(list, map, m, v) ==
    [w \in Vars |-> IF w = v THEN {}
                    ELSE (map[w] \ PlacesOf(list, v))
                            \cup {i \in LeftOf(list, m, v) : w \in Variables(xor_plus(list[m], list[i]))}]

\* What the step does to the places.
LEMMA EliminatedPlaces ==
  ASSUME NEW list, NEW after, NEW m, NEW v, Eliminated(list, after, m, v)
  PROVE  /\ Present(after) = (Present(list) \ PlacesOf(list, v)) \cup LeftOf(list, m, v)
         /\ PlacesOf(list, v) \subseteq Present(list) /\ m \in PlacesOf(list, v)
         /\ LeftOf(list, m, v) \subseteq PlacesOf(list, v) \ {m}
         /\ \A i \in LeftOf(list, m, v) : after[i] = xor_plus(list[m], list[i])
         /\ \A i \in Present(list) : i \notin PlacesOf(list, v) => after[i] = list[i]
<1> DEFINE added(i) == xor_plus(list[m], list[i])
           others == PlacesOf(list, v) \ {m}
           left == LeftOf(list, m, v)
<1>0. others = PlacesOf(list, v) \ {m} /\ left = LeftOf(list, m, v) /\ m \in PlacesOf(list, v)
  BY DEF Eliminated, PlacesOf
<1> HIDE DEF others, left
<1>1. /\ Reduced(list) /\ m \in Present(list)
      /\ DOMAIN after = DOMAIN list
      /\ \A i \in DOMAIN list :
            after[i] = IF i = m \/ (i \in others /\ is_degenerate(added(i))) THEN NULL
                       ELSE IF i \in others THEN added(i) ELSE list[i]
  BY Zenon DEF Eliminated, others
<1>2. /\ \A i \in Present(list) : list[i] \in Right /\ i \in DOMAIN list /\ list[i] # NULL
      /\ \A i \in DOMAIN list : i \in Present(list) <=> list[i] # NULL
      /\ \A i \in others : i \in Present(list) /\ i # m
  BY <1>0, <1>1, ReducedParts DEF PlacesOf, Present
<1>3. ASSUME NEW i \in others PROVE added(i) # NULL
  <2>1. list[m] \in Constraints /\ list[i] \in Constraints BY <1>1, <1>2, RightParts
  <2> QED BY <2>1, XorPlusRight, RightParts
<1>4. left = {i \in others : ~is_degenerate(added(i))} BY <1>0 DEF LeftOf
<1> HIDE DEF added
<1>5. ASSUME NEW i \in DOMAIN list
      PROVE  after[i] # NULL <=> (i \in Present(list) /\ i # m /\ i \notin others) \/ i \in left
  <2>1. CASE i = m BY <1>1, <1>2, <1>4, <2>1
  <2>2. CASE i # m /\ i \in others BY <1>1, <1>2, <1>3, <1>4, <2>2
  <2>3. CASE i # m /\ i \notin others BY <1>1, <1>2, <1>4, <2>3
  <2> QED BY <2>1, <2>2, <2>3
<1>6. Present(after) = (Present(list) \ ({m} \cup others)) \cup left
  <2>1. Present(after) = {i \in DOMAIN list : after[i] # NULL} BY <1>1 DEF Present
  <2> QED BY <1>2, <1>4, <1>5, <2>1
<1>7. \A i \in left : after[i] = added(i) BY <1>1, <1>2, <1>4
<1>8. \A i \in Present(list) : i \notin others /\ i # m => after[i] = list[i] BY <1>1, <1>2
<1>9. {m} \cup others = PlacesOf(list, v) BY <1>0
<1>10. PlacesOf(list, v) \subseteq Present(list) BY DEF PlacesOf
<1>11. left \subseteq others BY <1>4
<1>12. \A i \in Present(list) : i \notin PlacesOf(list, v) => after[i] = list[i] BY <1>8, <1>9
<1> QED BY <1>0, <1>6, <1>7, <1>9, <1>10, <1>11, <1>12 DEF added

\* So many rows are left.
LEMMA EliminatedCount ==
  ASSUME NEW list, NEW after, NEW m, NEW v, Eliminated(list, after, m, v)
  PROVE  Cardinality(Present(after)) =
           Cardinality(Present(list)) - 1 - Cardinality((PlacesOf(list, v) \ {m}) \ LeftOf(list, m, v))
<1> DEFINE P == Present(list)
           gone == (PlacesOf(list, v) \ {m}) \ LeftOf(list, m, v)
<1>1. /\ Present(after) = (P \ PlacesOf(list, v)) \cup LeftOf(list, m, v)
      /\ PlacesOf(list, v) \subseteq P /\ m \in PlacesOf(list, v)
      /\ LeftOf(list, m, v) \subseteq PlacesOf(list, v) \ {m}
  BY EliminatedPlaces
<1>2. IsFiniteSet(P) /\ m \in P BY ReducedParts DEF Eliminated
<1> HIDE DEF P
<1>3. Present(after) = (P \ {m}) \ gone /\ (P \ {m}) \cap gone = gone BY <1>1, <1>2
<1>4. IsFiniteSet(P \ {m}) /\ Cardinality(P \ {m}) = Cardinality(P) - 1 BY <1>2, FS_RemoveElement
<1>5. Cardinality((P \ {m}) \ gone) = Cardinality(P \ {m}) - Cardinality((P \ {m}) \cap gone)
  BY <1>4, FS_Difference
<1> HIDE DEF gone
<1>6. Cardinality(Present(after)) = Cardinality(P \ {m}) - Cardinality(gone) BY <1>3, <1>5
<1> QED BY <1>4, <1>6 DEF P, gone

\* The map is right after the step, and what other rows have is as it was.
LEMMA EliminatedMap ==
  ASSUME NEW list, NEW after, NEW m, NEW v, Eliminated(list, after, m, v), NEW w \in Vars,
         NEW map, map[w] = PlacesOf(list, w)
  PROVE  /\ MapAfter(list, map, m, v)[w] = PlacesOf(after, w)
         /\ w # v /\ (\A i \in PlacesOf(list, v) : w \notin Variables(list[i])) =>
               /\ PlacesOf(after, w) = PlacesOf(list, w)
               /\ \A i \in PlacesOf(list, w) : after[i] = list[i]
<1> DEFINE added(i) == xor_plus(list[m], list[i])
           places == PlacesOf(list, v)
           left == LeftOf(list, m, v)
<1>1. /\ Present(after) = (Present(list) \ places) \cup left
      /\ places \subseteq Present(list) /\ left \subseteq places /\ m \in places
      /\ \A i \in left : after[i] = added(i)
      /\ \A i \in Present(list) : i \notin places => after[i] = list[i]
  BY EliminatedPlaces
<1>2. \A i \in Present(after) : /\ v \notin Variables(after[i])
                                /\ Variables(after[i]) \subseteq Variables(list[i]) \cup Variables(list[m])
  BY EliminatedRows
<1> HIDE DEF added, left, places
<1>3. PlacesOf(after, v) = {} BY <1>2 DEF PlacesOf
<1>4. PlacesOf(after, w) = (PlacesOf(list, w) \ places) \cup {i \in left : w \in Variables(added(i))}
  BY <1>1 DEF PlacesOf
<1>5. ASSUME \A i \in places : w \notin Variables(list[i])
      PROVE  /\ PlacesOf(after, w) = PlacesOf(list, w)
             /\ \A i \in PlacesOf(list, w) : after[i] = list[i]
  <2>1. \A i \in left : w \notin Variables(added(i)) BY <1>1, <1>2, <1>5
  <2>2. \A i \in PlacesOf(list, w) : i \notin places /\ i \in Present(list) BY <1>5 DEF PlacesOf
  <2> QED BY <1>1, <1>4, <2>1, <2>2
<1>6. MapAfter(list, map, m, v)[w] =
        IF w = v THEN {} ELSE (map[w] \ places) \cup {i \in left : w \in Variables(added(i))}
  BY DEF MapAfter, added, places, left
<1> QED BY <1>3, <1>4, <1>5, <1>6 DEF places

LEMMA IntervalSize ==
  ASSUME NEW n \in Nat
  PROVE  IsFiniteSet(1..n) /\ Cardinality(1..n) = n
<1>1. IsFiniteSet(1..n) /\ Cardinality(1..n) = IF 1 > n THEN 0 ELSE n - 1 + 1 BY FS_Interval
<1> QED BY <1>1

\* A list has no more variables than there are.
LEMMA ListLength ==
  ASSUME NEW list \in Lists
  PROVE  Len(list) \in 0..VarCount /\ (list # <<>> => Len(list) \in 1..VarCount)
<1>1. Len(list) \in Nat /\ DOMAIN list = 1..Len(list) /\ \A i \in 1..Len(list) : list[i] \in Vars
  BY ListRange
<1>2. VarCount \in Nat /\ list \in Seq(Vars) BY ParityAssumption DEF Lists
<1>3. ~(VarCount < Len(list))
  <2>1. SUFFICES ASSUME VarCount < Len(list) PROVE FALSE OBVIOUS
  <2>2. IsFiniteSet(1..Len(list)) /\ Cardinality(1..Len(list)) = Len(list) BY <1>1, IntervalSize
  <2> DEFINE f == [i \in 1..Len(list) |-> list[i]]
  <2>3. f \in [1..Len(list) -> Vars] BY <1>1
  <2> HIDE DEF f
  <2>4. PICK i \in 1..Len(list), j \in 1..Len(list) : i # j /\ f[i] = f[j]
    BY <2>1, <2>2, <2>3, VarsFinite, FS_PigeonHole
  <2>5. list[i] = list[j] /\ list[i] \in Int BY <1>1, <2>4 DEF f, Vars
  <2>6. i < j \/ j < i BY <1>1, <2>4
  <2>7. ~(list[i] < list[j]) /\ ~(list[j] < list[i]) BY <2>5
  <2> QED BY <1>1, <2>6, <2>7 DEF Lists
<1>4. list # <<>> => Len(list) # 0 BY <1>2, EmptySeq
<1> QED BY <1>1, <1>2, <1>3, <1>4

\* The cost of a pivot says whether its variable is external.
LEMMA CostRight ==
  ASSUME NEW list, Reduced(list), Len(list) * VarCount < EXTERNAL_PENALTY,
         NEW map, NEW internal, NEW w, map[w] = PlacesOf(list, w), NEW e \in map[w]
  PROVE  /\ e \in Nat /\ Cost(list, map, internal, w, e) \in Int
         /\ w \in internal <=> Cost(list, map, internal, w, e) < EXTERNAL_PENALTY
<1> DEFINE n == Cardinality(map[w])
           l == Len(list[e].variables)
<1>1. /\ Len(list) \in Nat /\ DOMAIN list = 1..Len(list) /\ Present(list) \subseteq 1..Len(list)
      /\ e \in Present(list) /\ list[e] \in Right /\ list[e].variables # <<>>
  BY ReducedParts DEF PlacesOf, Reduced
<1>2. VarCount \in Nat /\ EXTERNAL_PENALTY \in Nat BY ParityAssumption DEF EXTERNAL_PENALTY
<1>3. l \in 1..VarCount BY <1>1, RightParts, ListLength
<1>4. n \in 1..Len(list)
  <2>1. map[w] \subseteq 1..Len(list) BY <1>1 DEF PlacesOf
  <2>2. IsFiniteSet(1..Len(list)) /\ Cardinality(1..Len(list)) = Len(list) BY <1>1, IntervalSize
  <2>3. IsFiniteSet(map[w]) /\ Cardinality(map[w]) <= Len(list) BY <2>1, <2>2, FS_Subset
  <2>4. Cardinality(map[w]) \in Nat /\ Cardinality(map[w]) # 0 BY <2>3, FS_CardinalityType, FS_EmptySet
  <2> QED BY <1>1, <2>3, <2>4
<1>5. Cost(list, map, internal, w, e) = (n - 1) * (l - 1) + (IF w \in internal THEN 0 ELSE EXTERNAL_PENALTY)
  BY DEF Cost
<1> HIDE DEF n, l
<1>6. \A x, y, a, b \in Nat : x <= a /\ y <= b => x * y <= a * b /\ x * y \in Nat OBVIOUS
<1>7. (n - 1) * (l - 1) <= Len(list) * VarCount /\ (n - 1) * (l - 1) \in Nat
  <2>1. n - 1 \in Nat /\ l - 1 \in Nat /\ n - 1 <= Len(list) /\ l - 1 <= VarCount BY <1>1, <1>2, <1>3, <1>4
  <2> QED BY <1>1, <1>2, <1>6, <2>1
<1>8. Len(list) * VarCount \in Nat BY <1>1, <1>2
<1> DEFINE p == (n - 1) * (l - 1)
           q == Len(list) * VarCount
<1>9. p \in Nat /\ q \in Nat /\ p <= q /\ q < EXTERNAL_PENALTY BY <1>7, <1>8
<1> HIDE DEF p, q
<1>10. Cost(list, map, internal, w, e) = p + (IF w \in internal THEN 0 ELSE EXTERNAL_PENALTY) BY <1>5 DEF p
<1> HIDE DEF EXTERNAL_PENALTY
<1> QED BY <1>1, <1>2, <1>9, <1>10

\* A variable's preferred pivot, if it has any.
LEMMA ChoiceRight ==
  ASSUME NEW list, Reduced(list), Len(list) * VarCount < EXTERNAL_PENALTY,
         NEW map, NEW internal, NEW w, map[w] = PlacesOf(list, w),
         NEW p \in choose_pivot(list, map, internal, w)
  PROVE  /\ p = NULL <=> map[w] = {}
         /\ p # NULL => /\ p.equation_id \in map[w] /\ p.cost \in Int
                        /\ w \in internal <=> p.cost < EXTERNAL_PENALTY
<1>1. CASE map[w] = {} BY <1>1 DEF choose_pivot
<1>2. CASE map[w] # {}
  <2>1. PICK e \in map[w] : p = [equation_id |-> e, cost |-> Cost(list, map, internal, w, e)]
    BY <1>2 DEF choose_pivot
  <2>2. /\ e \in Nat /\ Cost(list, map, internal, w, e) \in Int
        /\ w \in internal <=> Cost(list, map, internal, w, e) < EXTERNAL_PENALTY
    BY CostRight
  <2>3. p \in [equation_id : Nat, cost : Int] BY <2>1, <2>2
  <2> QED BY <1>2, <2>1, <2>2, <2>3, GaussAssumption
<1> QED BY <1>1, <1>2

\* The choices of a variable depend on its own equations only.
LEMMA SameChoices ==
  ASSUME NEW list1, NEW list2, NEW map1, NEW map2, NEW internal, NEW w, map1[w] = map2[w],
         \A e \in map1[w] : list1[e] = list2[e]
  PROVE  choose_pivot(list1, map1, internal, w) = choose_pivot(list2, map2, internal, w)
<1>1. \A e \in map1[w] : Cost(list1, map1, internal, w, e) = Cost(list2, map2, internal, w, e)
  BY DEF Cost
<1> QED BY <1>1 DEF choose_pivot

\* The rows that end the elimination.
WrongOf(list, m, v) == {i \in PlacesOf(list, v) \ {m} : is_infeasible(xor_plus(list[m], list[i]))}

\* The pivot of a step is a row that is left and has the variable, and the cheapest.
LEMMA StepPivot ==
  ASSUME GaussInv, NEW pvar \in Vars, gauss_step(pvar)
  PROVE  /\ Eliminating /\ eset = NULL /\ xlist \in Seq(Right) /\ todo = "gauss"
         /\ pivot_list[pvar].equation_id \in PlacesOf(equations, pvar)
         /\ equations[pivot_list[pvar].equation_id] # NULL
         /\ pvar \notin internal_variables =>
               \A i \in Present(equations) : Variables(equations[i]) \cap internal_variables = {}
<1> DEFINE piv == pivot_list[pvar]
<1>1. /\ gaussPhase = "eliminating" /\ piv # NULL
      /\ \A v \in Vars : pivot_list[v] # NULL => piv.cost <= pivot_list[v].cost
  BY DEF gauss_step
<1>2. /\ Eliminating /\ eset = NULL /\ xlist \in Seq(Right) /\ todo = "gauss"
      /\ Len(xlist) * VarCount < EXTERNAL_PENALTY
  BY <1>1 DEF GaussInv
<1>3. Reduced(equations) /\ Indexed BY <1>2 DEF Eliminating
<1>4. Len(equations) * VarCount < EXTERNAL_PENALTY
  <2>1. 1..Len(equations) = 1..Len(xlist) /\ Len(equations) \in Nat /\ Len(xlist) \in Nat
    BY <1>2, <1>3, ReducedParts, LenProperties DEF Indexed
  <2>2. Len(equations) = Len(xlist) BY <2>1, IntervalSize
  <2> QED BY <1>2, <2>2
<1>5. ASSUME NEW v \in Vars
      PROVE  /\ pivot_list[v] = NULL <=> PlacesOf(equations, v) = {}
             /\ pivot_list[v] # NULL => /\ pivot_list[v].equation_id \in PlacesOf(equations, v)
                                        /\ pivot_list[v].cost \in Int
                                        /\ v \in internal_variables <=> pivot_list[v].cost < EXTERNAL_PENALTY
  <2>1. imap[v] = PlacesOf(equations, v) /\ pivot_list[v] \in choose_pivot(equations, imap, internal_variables, v)
    BY <1>3 DEF Indexed
  <2>2. /\ pivot_list[v] = NULL <=> imap[v] = {}
        /\ pivot_list[v] # NULL => /\ pivot_list[v].equation_id \in imap[v]
                                   /\ pivot_list[v].cost \in Int
                                   /\ v \in internal_variables <=> pivot_list[v].cost < EXTERNAL_PENALTY
    BY <1>3, <1>4, <2>1, ChoiceRight
  <2> QED BY <2>1, <2>2
<1>6. piv.equation_id \in PlacesOf(equations, pvar) /\ equations[piv.equation_id] # NULL
  BY <1>1, <1>5 DEF PlacesOf, Present
<1>7. ASSUME pvar \notin internal_variables, NEW i \in Present(equations),
             NEW v \in Variables(equations[i]), v \in internal_variables
      PROVE  FALSE
  <2>1. v \in Vars
    <3>1. equations[i] \in Right BY <1>3, ReducedParts
    <3> QED BY <3>1, RightParts DEF Variables
  <2>2. i \in PlacesOf(equations, v) BY DEF PlacesOf
  <2>3. pivot_list[v] # NULL /\ pivot_list[v].cost \in Int /\ pivot_list[v].cost < EXTERNAL_PENALTY
    BY <1>5, <1>7, <2>1, <2>2
  <2>4. piv.cost \in Int /\ ~(piv.cost < EXTERNAL_PENALTY) BY <1>1, <1>5, <1>7
  <2>5. piv.cost <= pivot_list[v].cost BY <1>1, <2>1, <2>3
  <2>6. \A x, y, z \in Int : x <= y /\ y < z => x < z OBVIOUS
  <2>7. EXTERNAL_PENALTY \in Int BY DEF EXTERNAL_PENALTY
  <2> HIDE DEF piv
  <2> QED BY <2>3, <2>4, <2>5, <2>6, <2>7
<1> QED BY <1>2, <1>6, <1>7

\* A step without a row that ends the elimination.
LEMMA StepEliminates ==
  ASSUME GaussInv, NEW pvar \in Vars, gauss_step(pvar), NEW m, m = pivot_list[pvar].equation_id,
         WrongOf(equations, m, pvar) = {}
  PROVE  /\ Eliminated(equations, equations', m, pvar)
         /\ remaining_equation_count' = remaining_equation_count - 1
               - Cardinality((PlacesOf(equations, pvar) \ {m}) \ LeftOf(equations, m, pvar))
         /\ imap' = MapAfter(equations, imap, m, pvar)
         /\ pivot_list'[pvar] = NULL
         /\ \A v \in Vars \ {pvar} :
               \/ pivot_list'[v] \in choose_pivot(equations', imap', internal_variables, v)
               \/ /\ pivot_list'[v] = pivot_list[v]
                  /\ \A i \in PlacesOf(equations, pvar) : v \notin Variables(equations[i])
         /\ gaussPhase' = gaussPhase /\ internal_variables' = internal_variables
         /\ pivot_sequence' = Append(pivot_sequence, pvar)
         /\ pvar \in internal_variables =>
               /\ internal_equations' = Append(internal_equations, equations[m])
               /\ external_equations' = external_equations
         /\ pvar \notin internal_variables =>
               /\ external_equations' = Append(external_equations, equations[m])
               /\ internal_equations' = internal_equations
<1> DEFINE others == PlacesOf(equations, pvar) \ {m}
<1>0. others = PlacesOf(equations, pvar) \ {m} OBVIOUS
<1> HIDE DEF others
<1> DEFINE peid == pivot_list[pvar].equation_id
           peq == equations[peid]
           rest == imap[pvar] \ {peid}
           added == [eid \in rest |-> xor_plus(peq, equations[eid])]
           wrong == {eid \in rest : is_infeasible(added[eid])}
           met == {eid \in rest : \A w \in wrong : eid <= w}
           left == {eid \in met \ wrong : ~is_degenerate(added[eid])}
           changed == [eid \in DOMAIN equations |->
                       IF eid \in left THEN added[eid]
                       ELSE IF eid \in met \cup {peid} THEN NULL ELSE equations[eid]]
           map == [v \in Vars |->
                   IF v = pvar THEN (IF wrong = {} THEN {} ELSE rest)
                   ELSE (imap[v] \ (met \cup {peid}))
                            \cup {eid \in left : v \in Range(added[eid].variables)}]
           touched == Touched(peid, pvar)
<1>1. /\ Eliminating /\ m \in PlacesOf(equations, pvar) /\ equations[m] # NULL BY StepPivot
<1>2. imap[pvar] = PlacesOf(equations, pvar) /\ Reduced(equations) BY <1>1 DEF Eliminating, Indexed
<1>3. peid = m /\ rest = others /\ peq = equations[m] /\ peq # NULL BY <1>0, <1>1, <1>2
<1>4. wrong = {} BY <1>0, <1>3 DEF WrongOf
<1>5. /\ UNCHANGED internal_variables
      /\ IF peq = NULL THEN TRUE
         ELSE /\ equations' = changed
              /\ remaining_equation_count' =
                       remaining_equation_count - 1 - Cardinality(met \ (left \cup wrong))
              /\ imap' = map
              /\ IF wrong # {} THEN TRUE
                 ELSE /\ UNCHANGED gaussPhase
                      /\ \E p \in PivotChoices(changed, map, internal_variables, touched) :
                              pivot_list' = [v \in Vars |-> IF v = pvar THEN NULL
                                               ELSE IF v \in touched THEN p[v] ELSE pivot_list[v]]
                      /\ pivot_sequence' = Append(pivot_sequence, pvar)
                      /\ IF pvar \in internal_variables
                         THEN internal_equations' = Append(internal_equations, peq)
                                /\ UNCHANGED external_equations
                         ELSE external_equations' = Append(external_equations, peq)
                                /\ UNCHANGED internal_equations
  BY Zenon DEF gauss_step
<1> HIDE DEF peid, peq
<1>6. met = others BY <1>3, <1>4
<1>7. left = LeftOf(equations, m, pvar) BY <1>0, <1>3, <1>4, <1>6 DEF LeftOf
<1>8. \A i \in others : added[i] = xor_plus(equations[m], equations[i]) BY <1>3
<1> HIDE DEF wrong, met, left, added, rest
<1>9. changed = [i \in DOMAIN equations |->
                      IF i = m \/ (i \in others /\ is_degenerate(xor_plus(equations[m], equations[i]))) THEN NULL
                      ELSE IF i \in others THEN xor_plus(equations[m], equations[i]) ELSE equations[i]]
  <2>1. \A i : i \in left <=> i \in others /\ ~is_degenerate(xor_plus(equations[m], equations[i])) BY <1>0, <1>7 DEF LeftOf
  <2> QED BY <1>0, <1>3, <1>6, <1>8, <2>1
<1>10. Eliminated(equations, equations', m, pvar)
  <2>1. \A i \in others : ~is_infeasible(xor_plus(equations[m], equations[i])) BY <1>0 DEF WrongOf
  <2>2. m \in Present(equations) /\ pvar \in Variables(equations[m]) BY <1>1 DEF PlacesOf
  <2> HIDE DEF changed
  <2> QED BY <1>0, <1>2, <1>3, <1>5, <1>9, <2>1, <2>2 DEF Eliminated
<1>11. imap' = MapAfter(equations, imap, m, pvar)
  <2>1. \A v : {i \in left : v \in Range(added[i].variables)}
                 = {i \in left : v \in Variables(xor_plus(equations[m], equations[i]))}
    BY <1>0, <1>7, <1>8 DEF LeftOf, Variables
  <2>2. imap' = map BY <1>3, <1>5
  <2>3. others \cup {m} = PlacesOf(equations, pvar) BY <1>0, <1>1
  <2>4. map = [v \in Vars |-> IF v = pvar THEN {}
                 ELSE (imap[v] \ PlacesOf(equations, pvar))
                         \cup {i \in left : v \in Variables(xor_plus(equations[m], equations[i]))}]
    BY <1>3, <1>4, <1>6, <2>1, <2>3
  <2> QED BY <1>7, <2>2, <2>4 DEF MapAfter
<1>12. met \ (left \cup wrong) = (PlacesOf(equations, pvar) \ {m}) \ LeftOf(equations, m, pvar)
  BY <1>0, <1>4, <1>6, <1>7
<1>13. PICK p \in PivotChoices(changed, map, internal_variables, touched) :
              pivot_list' = [v \in Vars |-> IF v = pvar THEN NULL
                               ELSE IF v \in touched THEN p[v] ELSE pivot_list[v]]
  <2> HIDE DEF changed, map, touched
  <2> QED BY <1>3, <1>4, <1>5
<1>14. equations' = changed /\ imap' = map BY <1>3, <1>5
<1> HIDE DEF changed, map
<1>15. ASSUME NEW v \in Vars \ {pvar}
       PROVE  \/ pivot_list'[v] \in choose_pivot(equations', imap', internal_variables, v)
              \/ /\ pivot_list'[v] = pivot_list[v]
                 /\ \A i \in PlacesOf(equations, pvar) : v \notin Variables(equations[i])
  <2>1. CASE v \in touched
    <3>1. pivot_list'[v] = p[v] BY <1>13, <2>1
    <3>2. p[v] \in choose_pivot(changed, map, internal_variables, v) BY <1>13, <2>1 DEF PivotChoices
    <3> QED BY <1>14, <3>1, <3>2
  <2>2. CASE v \notin touched
    <3>1. pivot_list'[v] = pivot_list[v] BY <1>13, <2>2
    <3>2. \A i \in imap[pvar] \cup {peid} : v \notin Range(equations[i].variables)
      BY <2>2 DEF Touched
    <3>3. \A i \in PlacesOf(equations, pvar) : i \in imap[pvar] \cup {peid} BY <1>2
    <3> QED BY <3>1, <3>2, <3>3 DEF Variables
  <2> QED BY <2>1, <2>2
<1>16. pivot_list'[pvar] = NULL BY <1>13
<1> QED BY <1>3, <1>4, <1>5, <1>10, <1>11, <1>12, <1>15, <1>16

\* A step with one: a sum of two rows has no solution, and so the list has none.
LEMMA StepEnds ==
  ASSUME GaussInv, NEW pvar \in Vars, gauss_step(pvar), NEW m, m = pivot_list[pvar].equation_id,
         WrongOf(equations, m, pvar) # {}
  PROVE  /\ gaussPhase' = "infeasible"
         /\ \E c \in Right : external_equations' = <<c>> /\ is_infeasible(c)
         /\ Solutions(Range(xlist)) = {}
<1> DEFINE peid == pivot_list[pvar].equation_id
           peq == equations[peid]
           rest == imap[pvar] \ {peid}
           added == [eid \in rest |-> xor_plus(peq, equations[eid])]
           wrong == {eid \in rest : is_infeasible(added[eid])}
<1>1. /\ Eliminating /\ m \in PlacesOf(equations, pvar) /\ equations[m] # NULL BY StepPivot
<1>2. imap[pvar] = PlacesOf(equations, pvar) /\ Reduced(equations) BY <1>1 DEF Eliminating, Indexed
<1>3. peid = m /\ rest = PlacesOf(equations, pvar) \ {m} /\ peq = equations[m] /\ peq # NULL BY <1>1, <1>2
<1>4. wrong = WrongOf(equations, m, pvar) BY <1>3 DEF WrongOf
<1>5. IF peq = NULL THEN TRUE
      ELSE IF wrong # {}
           THEN gaussPhase' = "infeasible" /\ external_equations' = <<added[Min(wrong)]>>
           ELSE TRUE
  BY Zenon DEF gauss_step
<1> HIDE DEF peid, peq
<1>6. gaussPhase' = "infeasible" /\ external_equations' = <<added[Min(wrong)]>> BY <1>3, <1>4, <1>5
<1>7. Min(wrong) \in wrong
  <2>1. Present(equations) \subseteq Nat BY <1>2, ReducedParts
  <2>2. wrong \subseteq Nat BY <1>4, <2>1 DEF WrongOf, PlacesOf
  <2> HIDE DEF wrong
  <2> QED BY <1>4, <2>2, MinInSet
<1> DEFINE i == Min(wrong)
           c == xor_plus(equations[m], equations[i])
<1>8. i \in rest /\ added[i] = c /\ is_infeasible(c)
  <2> HIDE DEF rest
  <2> QED BY <1>3, <1>7
<1>9. m \in Present(equations) /\ i \in Present(equations) BY <1>1, <1>3, <1>8 DEF PlacesOf
<1> HIDE DEF i, wrong, added, rest
<1>10. c \in Right
  <2>1. equations[m] \in Right /\ equations[i] \in Right BY <1>2, <1>9, ReducedParts
  <2> QED BY <2>1, RightParts, XorPlusRight
<1> DEFINE saved == Range(internal_equations) \cup Range(external_equations)
<1>11. Solutions(Rows(equations) \cup saved) = {}
  <2> HIDE DEF saved
  <2> QED BY <1>2, <1>8, <1>9, NoSolution
<1>12. Solutions(Rows(equations) \cup saved) = Solutions(Range(xlist)) BY <1>1 DEF Eliminating, SolutionsKept
<1>13. external_equations' = <<c>> BY <1>6, <1>8 DEF i
<1> HIDE DEF c
<1> QED BY <1>6, <1>8, <1>10, <1>11, <1>12, <1>13

\* One equation more, without the pivots of those before.
LEMMA TriangularMore ==
  ASSUME NEW all, NEW pivots, Triangular(all, pivots), NEW c \in Right, NEW v \in Variables(c), v \in Vars,
         \A k \in 1..Len(all) : pivots[k] \notin Variables(c)
  PROVE  Triangular(Append(all, c), Append(pivots, v))
<1> DEFINE more == Append(all, c)
           longer == Append(pivots, v)
           n == Len(all)
<1>1. /\ all \in Seq(Right) /\ pivots \in Seq(Vars) /\ Len(pivots) = n
      /\ \A k \in 1..n : /\ pivots[k] \in Variables(all[k])
                         /\ \A l \in (k + 1)..n : pivots[k] \notin Variables(all[l])
  BY DEF Triangular
<1>2. /\ n \in Nat /\ more \in Seq(Right) /\ longer \in Seq(Vars) /\ Len(more) = n + 1 /\ Len(longer) = n + 1
      /\ \A k \in 1..n : more[k] = all[k] /\ longer[k] = pivots[k]
      /\ more[n + 1] = c /\ longer[n + 1] = v
  BY <1>1, AppendProperties, LenProperties
<1> HIDE DEF more, longer, n
<1>3. ASSUME NEW k \in 1..(n + 1)
      PROVE  /\ longer[k] \in Variables(more[k])
             /\ \A l \in (k + 1)..(n + 1) : longer[k] \notin Variables(more[l])
  <2>1. CASE k = n + 1
    <3>1. (k + 1)..(n + 1) = {} BY <1>2, <2>1
    <3> QED BY <1>2, <2>1, <3>1
  <2>2. CASE k # n + 1
    <3>1. k \in 1..n BY <1>2, <2>2
    <3>2. \A l \in (k + 1)..(n + 1) : l = n + 1 \/ (l \in (k + 1)..n /\ l \in 1..n) BY <1>2, <3>1
    <3> QED BY <1>1, <1>2, <3>1, <3>2 DEF n
  <2> QED BY <2>1, <2>2
<1> QED BY <1>2, <1>3 DEF Triangular, more, longer

\* The map and the pivots after a step.
LEMMA StepIndexed ==
  ASSUME GaussInv, NEW pvar \in Vars, gauss_step(pvar), NEW m, m = pivot_list[pvar].equation_id,
         WrongOf(equations, m, pvar) = {}, xlist' = xlist
  PROVE  Indexed'
<1> DEFINE after == equations'
           map == imap'
<1>1. /\ Eliminated(equations, after, m, pvar)
      /\ remaining_equation_count' = remaining_equation_count - 1
            - Cardinality((PlacesOf(equations, pvar) \ {m}) \ LeftOf(equations, m, pvar))
      /\ map = MapAfter(equations, imap, m, pvar)
      /\ pivot_list'[pvar] = NULL
      /\ \A v \in Vars \ {pvar} :
            \/ pivot_list'[v] \in choose_pivot(after, map, internal_variables, v)
            \/ /\ pivot_list'[v] = pivot_list[v]
               /\ \A i \in PlacesOf(equations, pvar) : v \notin Variables(equations[i])
      /\ internal_variables' = internal_variables
  BY StepEliminates
<1>2. /\ DOMAIN equations = DOMAIN xlist
      /\ remaining_equation_count = Cardinality(Present(equations))
      /\ \A v \in Vars : imap[v] = PlacesOf(equations, v)
      /\ \A v \in Vars : pivot_list[v] \in choose_pivot(equations, imap, internal_variables, v)
  BY StepPivot DEF Eliminating, Indexed
<1> HIDE DEF after, map
<1>3. DOMAIN after = DOMAIN equations BY <1>1 DEF Eliminated
<1>4. remaining_equation_count' = Cardinality(Present(after)) BY <1>1, <1>2, EliminatedCount
<1>5. ASSUME NEW v \in Vars
      PROVE  /\ map[v] = PlacesOf(after, v)
             /\ v # pvar /\ (\A i \in PlacesOf(equations, pvar) : v \notin Variables(equations[i])) =>
                   map[v] = imap[v] /\ \A i \in imap[v] : after[i] = equations[i]
  <2>1. imap[v] = PlacesOf(equations, v) BY <1>2
  <2>2. /\ MapAfter(equations, imap, m, pvar)[v] = PlacesOf(after, v)
        /\ v # pvar /\ (\A i \in PlacesOf(equations, pvar) : v \notin Variables(equations[i])) =>
              /\ PlacesOf(after, v) = PlacesOf(equations, v)
              /\ \A i \in PlacesOf(equations, v) : after[i] = equations[i]
    BY <1>1, <2>1, EliminatedMap
  <2> QED BY <1>1, <2>1, <2>2
<1>6. map \in [Vars -> SUBSET DOMAIN after]
  <2>1. map = [v \in Vars |-> map[v]] BY <1>1 DEF MapAfter
  <2>2. \A v \in Vars : map[v] \subseteq DOMAIN after BY <1>5 DEF PlacesOf, Present
  <2> QED BY <2>1, <2>2
<1>7. ASSUME NEW v \in Vars
      PROVE  pivot_list'[v] \in choose_pivot(after, map, internal_variables, v)
  <2>1. CASE v = pvar
    <3>1. map[v] = {} BY <1>1, <2>1 DEF MapAfter
    <3> QED BY <1>1, <2>1, <3>1 DEF choose_pivot
  <2>2. CASE v # pvar /\ pivot_list'[v] = pivot_list[v]
             /\ \A i \in PlacesOf(equations, pvar) : v \notin Variables(equations[i])
    <3>1. map[v] = imap[v] /\ \A i \in map[v] : after[i] = equations[i] BY <1>5, <2>2
    <3>2. choose_pivot(after, map, internal_variables, v) = choose_pivot(equations, imap, internal_variables, v)
      BY <3>1, SameChoices
    <3> QED BY <1>2, <2>2, <3>2
  <2> QED BY <1>1, <2>1, <2>2
<1>8. DOMAIN xlist' = DOMAIN after BY <1>2, <1>3
<1> QED BY <1>1, <1>4, <1>5, <1>6, <1>7, <1>8 DEF Indexed, after, map

\* The saved equations after a step: the pivot equation is the last of its kind, and of
\* all, since no external one is saved while internal variables are left.
LEMMA StepSaved ==
  ASSUME GaussInv, NEW pvar \in Vars, gauss_step(pvar), NEW m, m = pivot_list[pvar].equation_id,
         WrongOf(equations, m, pvar) = {}
  PROVE  /\ internal_equations' \in Seq(Right) /\ external_equations' \in Seq(Right)
         /\ internal_equations' \o external_equations'
               = Append(internal_equations \o external_equations, equations[m])
         /\ Range(internal_equations') \cup Range(external_equations')
               = (Range(internal_equations) \cup Range(external_equations)) \cup {equations[m]}
         /\ pvar \in internal_variables => external_equations' = <<>>
         /\ pvar \notin internal_variables => external_equations' = Append(external_equations, equations[m])
<1> DEFINE int == internal_equations
           ext == external_equations
           c == equations[m]
<1>1. /\ Eliminating /\ m \in PlacesOf(equations, pvar)
      /\ pvar \in internal_variables => int' = Append(int, c) /\ ext' = ext
      /\ pvar \notin internal_variables => ext' = Append(ext, c) /\ int' = int
  BY StepPivot, StepEliminates
<1>2. /\ Reduced(equations) /\ int \in Seq(Right) /\ ext \in Seq(Right)
      /\ ext # <<>> => \A i \in Present(equations) : Variables(equations[i]) \cap internal_variables = {}
  BY <1>1 DEF Eliminating, ExternalLast
<1>3. c \in Right /\ m \in Present(equations) /\ pvar \in Variables(c) BY <1>1, <1>2, ReducedParts DEF PlacesOf
<1>4. CASE pvar \in internal_variables
  <2>1. ext = <<>> BY <1>2, <1>3, <1>4
  <2> DEFINE more == Append(int, c)
  <2>2. int' = more /\ ext' = <<>> BY <1>1, <1>4, <2>1
  <2>3. more \in Seq(Right) /\ Range(more) = Range(int) \cup {c} BY <1>2, <1>3, AppendProperties, AppendRange
  <2>4. int \o <<>> = int BY <1>2, ConcatEmptySeq
  <2> HIDE DEF more
  <2>5. more \o <<>> = more BY <2>3, ConcatEmptySeq
  <2>6. Append(int \o ext, c) = more BY <2>1, <2>4 DEF more
  <2>7. int' \o ext' = Append(int \o ext, c) BY <2>2, <2>5, <2>6
  <2>8. Range(int') \cup Range(ext') = (Range(int) \cup Range(ext)) \cup {c}
    <3>1. Range(int') = Range(int) \cup {c} /\ Range(ext') = Range(ext) BY <2>1, <2>2, <2>3
    <3> QED BY <3>1
  <2>9. int' \in Seq(Right) /\ ext' \in Seq(Right) BY <1>2, <2>1, <2>2, <2>3
  <2> QED BY <1>4, <2>2, <2>7, <2>8, <2>9
<1>5. CASE pvar \notin internal_variables
  <2> DEFINE more == Append(ext, c)
  <2>1. int' = int /\ ext' = more BY <1>1, <1>5
  <2>2. more \in Seq(Right) /\ Range(more) = Range(ext) \cup {c} BY <1>2, <1>3, AppendProperties, AppendRange
  <2>3. more = ext \o <<c>> BY <1>2, <1>3, AppendIsConcat
  <2>4. int \o ext \in Seq(Right) BY <1>2, ConcatProperties
  <2>5. Append(int \o ext, c) = (int \o ext) \o <<c>> BY <1>3, <2>4, AppendIsConcat
  <2>6. <<c>> \in Seq(Right) BY <1>3
  <2>7. (int \o ext) \o <<c>> = int \o (ext \o <<c>>) BY <1>2, <2>6, ConcatAssociative
  <2> HIDE DEF more
  <2>8. int' \o ext' = Append(int \o ext, c) BY <2>1, <2>3, <2>5, <2>7
  <2>9. Range(int') \cup Range(ext') = (Range(int) \cup Range(ext)) \cup {c}
    <3>1. Range(int') = Range(int) /\ Range(ext') = Range(ext) \cup {c} BY <2>1, <2>2
    <3> QED BY <3>1
  <2>10. int' \in Seq(Right) /\ ext' \in Seq(Right) BY <1>2, <2>1, <2>2
  <2> QED BY <1>5, <2>1, <2>8, <2>9, <2>10 DEF more
<1> QED BY <1>4, <1>5

\* A step keeps the invariant.
LEMMA StepRight ==
  ASSUME GaussInv, NEW pvar \in Vars, gauss_step(pvar), UNCHANGED sessionVars
  PROVE  GaussInv'
<1> DEFINE m == pivot_list[pvar].equation_id
           int == internal_equations
           ext == external_equations
           c == equations[m]
<1>1. m = pivot_list[pvar].equation_id OBVIOUS
<1>2. /\ Eliminating /\ eset = NULL /\ xlist \in Seq(Right) /\ todo = "gauss" /\ m \in PlacesOf(equations, pvar)
      /\ pvar \notin internal_variables =>
            \A i \in Present(equations) : Variables(equations[i]) \cap internal_variables = {}
  BY StepPivot
<1>3. xlist' = xlist /\ todo' = todo /\ eset' = eset /\ iset' = iset BY DEF sessionVars
<1>4. gaussPhase = "eliminating" /\ (todo = "gauss" => /\ \A d \in Range(xlist) : d.variables # <<>>
                                                       /\ Len(xlist) * VarCount < EXTERNAL_PENALTY)
  <2>1. gaussPhase = "eliminating" BY DEF gauss_step
  <2> QED BY <2>1 DEF GaussInv
<1>5. CASE WrongOf(equations, m, pvar) # {}
  <2>1. /\ gaussPhase' = "infeasible" /\ Solutions(Range(xlist)) = {}
        /\ \E d \in Right : external_equations' = <<d>> /\ is_infeasible(d)
    BY <1>1, <1>5, StepEnds
  <2> HIDE DEF m
  <2>2. Infeasible' BY <1>3, <2>1 DEF Infeasible
  <2> QED BY <1>2, <1>3, <1>4, <2>1, <2>2 DEF GaussInv
<1>6. CASE WrongOf(equations, m, pvar) = {}
  <2>1. /\ Reduced(equations) /\ int \in Seq(Right) /\ ext \in Seq(Right)
        /\ SolutionsKept(equations, Range(int) \cup Range(ext), Range(xlist))
        /\ Triangular(int \o ext, pivot_sequence)
        /\ ExternalLast(equations, pivot_sequence, ext, internal_variables)
    BY <1>2 DEF Eliminating
  <2>2. Indexed' BY <1>1, <1>3, <1>6, StepIndexed
  <2>3. /\ Eliminated(equations, equations', m, pvar)
        /\ gaussPhase' = gaussPhase /\ internal_variables' = internal_variables
        /\ pivot_sequence' = Append(pivot_sequence, pvar)
    BY <1>1, <1>6, StepEliminates
  <2>4. /\ int' \in Seq(Right) /\ ext' \in Seq(Right)
        /\ int' \o ext' = Append(int \o ext, c)
        /\ Range(int') \cup Range(ext') = (Range(int) \cup Range(ext)) \cup {c}
        /\ pvar \in internal_variables => ext' = <<>>
        /\ pvar \notin internal_variables => ext' = Append(ext, c)
    BY <1>1, <1>6, StepSaved
  <2> DEFINE after == equations'
  <2>5. /\ c \in Right /\ m \in Present(equations) /\ pvar \in Variables(c)
    BY <1>2, <2>1, ReducedParts DEF PlacesOf
  <2> HIDE DEF m, after
  <2>6. /\ Reduced(after) /\ Present(after) \subseteq Present(equations) \ {m}
        /\ \A i \in Present(after) :
              /\ pvar \notin Variables(after[i])
              /\ Variables(after[i]) \subseteq Variables(equations[i]) \cup Variables(equations[m])
    BY <2>3, EliminatedRows DEF after
  <2>7. SolutionsKept(after, (Range(int) \cup Range(ext)) \cup {equations[m]}, Range(xlist))
    <3>1. Eliminated(equations, after, m, pvar) BY <2>3 DEF after
    <3> QED BY <2>1, <3>1, EliminatedKept
  <2>8. \A k \in 1..Len(int \o ext) : pivot_sequence[k] \notin Variables(c)
    BY <2>1, <2>5, LenProperties DEF Triangular, ExternalLast
  <2>9. Triangular(Append(int \o ext, c), Append(pivot_sequence, pvar))
    BY <2>1, <2>5, <2>8, TriangularMore
  <2>10. ExternalLast(after, Append(pivot_sequence, pvar), ext', internal_variables)
    <3> DEFINE pivots == Append(pivot_sequence, pvar)
               n == Len(pivot_sequence)
    <3>1. pivot_sequence \in Seq(Vars) /\ n \in Nat /\ DOMAIN pivot_sequence = 1..n
      BY <2>1, LenProperties DEF Triangular
    <3>2. /\ pivots \in Seq(Vars) /\ Len(pivots) = n + 1 /\ pivots[n + 1] = pvar
          /\ \A k \in 1..n : pivots[k] = pivot_sequence[k]
      BY <3>1, AppendProperties
    <3>3. DOMAIN pivots = 1..(n + 1) BY <3>2, LenProperties
    <3> HIDE DEF pivots, n
    <3>4. ASSUME NEW i \in Present(after), NEW k \in DOMAIN pivots PROVE pivots[k] \notin Variables(after[i])
      <4>1. i \in Present(equations) BY <2>6
      <4>2. k = n + 1 \/ k \in 1..n BY <3>1, <3>3
      <4>3. CASE k = n + 1 BY <2>6, <3>2, <4>3
      <4>4. CASE k \in 1..n
        <5>1. pivots[k] = pivot_sequence[k] /\ k \in DOMAIN pivot_sequence BY <3>1, <3>2, <4>4
        <5>2. pivots[k] \notin Variables(equations[i]) /\ pivots[k] \notin Variables(equations[m])
          BY <2>1, <2>5, <4>1, <5>1 DEF ExternalLast
        <5> QED BY <2>6, <5>2
      <4> QED BY <4>2, <4>3, <4>4
    <3>5. CASE pvar \in internal_variables
      <4>1. ext' = <<>> /\ DOMAIN <<>> = {} BY <2>4, <3>5
      <4> QED BY <3>4, <4>1 DEF ExternalLast, pivots
    <3>6. CASE pvar \notin internal_variables
      <4>1. ext' = Append(ext, c) BY <2>4, <3>6
      <4>2. \A i \in Present(equations) : Variables(equations[i]) \cap internal_variables = {} BY <1>2, <3>6
      <4>3. \A i \in Present(after) : Variables(after[i]) \cap internal_variables = {}
        BY <2>5, <2>6, <4>2
      <4> DEFINE more == Append(ext, c)
                 l == Len(ext)
      <4>4. /\ l \in Nat /\ DOMAIN ext = 1..l /\ more \in Seq(Right) /\ Len(more) = l + 1 /\ more[l + 1] = c
            /\ \A k \in 1..l : more[k] = ext[k]
        BY <2>1, <2>5, AppendProperties, LenProperties
      <4>5. DOMAIN more = 1..(l + 1) BY <4>4, LenProperties
      <4> HIDE DEF more, l
      <4>6. \A k \in DOMAIN ext : Variables(ext[k]) \cap internal_variables = {} BY <2>1 DEF ExternalLast
      <4>7. Variables(c) \cap internal_variables = {} BY <2>5, <4>2
      <4>8. \A k \in DOMAIN more : Variables(more[k]) \cap internal_variables = {}
        <5>1. \A k \in DOMAIN more : k = l + 1 \/ k \in 1..l BY <4>4, <4>5
        <5> QED BY <4>4, <4>6, <4>7, <5>1
      <4>9. ext' = more BY <4>1 DEF more
      <4> QED BY <3>4, <4>3, <4>8, <4>9 DEF ExternalLast, pivots
    <3> QED BY <3>5, <3>6
  <2>11. Eliminating'
    BY <1>3, <2>2, <2>3, <2>4, <2>6, <2>7, <2>9, <2>10 DEF Eliminating, after
  <2> QED BY <1>2, <1>3, <1>4, <2>3, <2>11 DEF GaussInv
<1> QED BY <1>5, <1>6

LEMMA GaussInvInit == Init => GaussInv
<1>1. SUFFICES ASSUME Init PROVE GaussInv OBVIOUS
<1>2. /\ gaussPhase = "idle" /\ eset = NULL
      /\ pivot_sequence = <<>> /\ internal_equations = <<>> /\ external_equations = <<>>
  BY <1>1 DEF Init, GaussIdle
<1>3. \E list \in Summands \cup Systems : xlist = Filled(list) BY <1>1 DEF Init
<1>4. Summands \cup Systems \subseteq Seq(Lists \X {0, 1}) BY SessionAssumption
<1>5. xlist \in Seq(Right) BY <1>3, <1>4, FilledRight
<1>6. ASSUME todo = "gauss"
      PROVE  (\A c \in Range(xlist) : c.variables # <<>>) /\ Len(xlist) * VarCount < EXTERNAL_PENALTY
  <2>1. PICK list \in Systems : xlist = Filled(list) BY <1>1, <1>6 DEF Init
  <2>2. list \in Seq(Lists \X {0, 1}) BY <1>4
  <2>3. <<<<>>, 1>> \notin Range(list) /\ Len(list) * VarCount < EXTERNAL_PENALTY BY SessionAssumption
  <2>4. \A c \in Range(xlist) : c.variables # <<>> BY <2>1, <2>2, <2>3, FilledRight
  <2>5. Len(xlist) <= Len(list) BY <2>1, <2>2, FilledRight
  <2>6. Len(xlist) \in Nat /\ Len(list) \in Nat /\ VarCount \in Nat /\ EXTERNAL_PENALTY \in Nat
    BY <1>5, <2>2, LenProperties, ParityAssumption DEF EXTERNAL_PENALTY
  <2>7. \A x, y, z \in Nat : x <= y => x * z <= y * z /\ x * z \in Nat OBVIOUS
  <2> DEFINE p == Len(xlist) * VarCount
             q == Len(list) * VarCount
  <2>8. p <= q /\ p \in Nat /\ q \in Nat BY <2>5, <2>6, <2>7
  <2>9. q < EXTERNAL_PENALTY BY <2>3
  <2> HIDE DEF p, q, EXTERNAL_PENALTY
  <2>10. p < EXTERNAL_PENALTY BY <2>6, <2>8, <2>9
  <2> QED BY <2>4, <2>10 DEF p
<1> QED BY <1>2, <1>5, <1>6 DEF GaussInv

\* The constructor starts with the whole set.
LEMMA GaussStart ==
  ASSUME GaussInv, NEW internal, GaussJordan(internal)
  PROVE  GaussInv'
<1> DEFINE map == [v \in Vars |-> {eid \in DOMAIN xlist : v \in Range(xlist[eid].variables)}]
<1>1. /\ equations' = xlist /\ remaining_equation_count' = Len(xlist)
      /\ internal_variables' = internal
      /\ imap' = map
      /\ pivot_list' \in PivotChoices(xlist, map, internal, Vars)
      /\ gaussPhase' = "eliminating"
      /\ UNCHANGED <<pivot_sequence, internal_equations, external_equations>>
      /\ UNCHANGED <<xlist, todo, eset, iset>> /\ todo = "gauss" /\ gaussPhase = "idle"
  BY DEF GaussJordan, gauss, sessionVars
<1>2. /\ xlist \in Seq(Right) /\ eset = NULL
      /\ \A c \in Range(xlist) : c.variables # <<>>
      /\ Len(xlist) * VarCount < EXTERNAL_PENALTY
      /\ pivot_sequence = <<>> /\ internal_equations = <<>> /\ external_equations = <<>>
  BY <1>1 DEF GaussInv
<1>3. /\ Len(xlist) \in Nat /\ DOMAIN xlist = 1..Len(xlist)
      /\ \A i \in DOMAIN xlist : xlist[i] \in Right /\ xlist[i] # NULL
  BY <1>2, LenProperties, ElementOfSeq, RightParts
<1>4. Present(xlist) = DOMAIN xlist BY <1>3 DEF Present
<1>5. Reduced(xlist)
  <2>1. \A S, T : S \subseteq T => Seq(S) \subseteq Seq(T) OBVIOUS
  <2>2. xlist \in Seq(Right \cup {NULL}) BY <1>2, <2>1
  <2>3. \A i \in Present(xlist) : xlist[i] \in Range(xlist) BY <1>4 DEF Range
  <2> QED BY <1>2, <2>2, <2>3 DEF Reduced
<1>6. Rows(xlist) = Range(xlist) BY <1>4 DEF Rows, Range
<1>7. \A v \in Vars : map[v] = PlacesOf(xlist, v) BY <1>4 DEF PlacesOf, Variables
<1>8. map \in [Vars -> SUBSET DOMAIN xlist] OBVIOUS
<1> HIDE DEF map
<1>9. Cardinality(DOMAIN xlist) = Len(xlist) BY <1>3, IntervalSize
<1>10. \A v \in Vars : pivot_list'[v] \in choose_pivot(xlist, map, internal, v)
  BY <1>1 DEF PivotChoices
<1>11. Indexed' BY <1>1, <1>4, <1>7, <1>8, <1>9, <1>10 DEF Indexed
<1>12. Range(<<>>) = {} /\ <<>> \in Seq(Right) /\ <<>> \in Seq(Vars) /\ Len(<<>>) = 0 /\ DOMAIN <<>> = {}
  BY EmptyList
<1>13. SolutionsKept(xlist, Range(<<>>) \cup Range(<<>>), Range(xlist))
  <2>1. Rows(xlist) \cup (Range(<<>>) \cup Range(<<>>)) = Range(xlist) BY <1>6, <1>12
  <2> QED BY <1>6, <2>1 DEF SolutionsKept
<1>14. Triangular(<<>> \o <<>>, <<>>)
  <2>1. <<>> \o <<>> = <<>> BY <1>12, ConcatEmptySeq
  <2>2. 1..0 = {} OBVIOUS
  <2> QED BY <1>12, <2>1, <2>2 DEF Triangular
<1>15. ExternalLast(xlist, <<>>, <<>>, internal) BY <1>12 DEF ExternalLast
<1>16. Eliminating' BY <1>1, <1>2, <1>5, <1>11, <1>12, <1>13, <1>14, <1>15 DEF Eliminating
<1> QED BY <1>1, <1>2, <1>16 DEF GaussInv

\* What jordanize does with one equation, and its pivot.
Pivot(k) == pivot_sequence[k + Len(internal_equations)]

Upward(eqs, peid) ==
    [eid \in DOMAIN eqs |->
        IF eid < peid /\ Pivot(peid) \in Range(eqs[eid].variables) THEN xor_plus(eqs[eid], eqs[peid])
        ELSE eqs[eid]]

\* It does so from the last equation up.
LEMMA JordanRun ==
  ASSUME external_equations \in Seq(Right)
  PROVE  \E h :
           /\ h[0] = external_equations
           /\ \A i \in 1..Len(external_equations) :
                 h[i] = Upward(h[i - 1], (Len(external_equations) - i) + 1)
           /\ Jordanized = h[Len(external_equations)]
<1> DEFINE n == Len(external_equations)
           seq == Reverse([i \in DOMAIN external_equations |-> i])
           V == [1..n -> Right]
           T == 1..n
           base == external_equations
           G == [f \in V |-> [v \in T |-> Upward(f, v)]]
           Body(f) == [s \in SUBSET (1..n) |->
                         IF s = {} THEN base ELSE Upward(f[s \ {Max(s)}], seq[Max(s)])]
           fold == CHOOSE f : f = Body(f)
<1>0. n \in Nat /\ DOMAIN external_equations = 1..n /\ base \in V
  BY LenProperties, ElementOfSeq
<1>1. seq \in Seq(T) /\ Len(seq) = n /\ DOMAIN seq = 1..n /\ \A i \in 1..n : seq[i] = (n - i) + 1
  <2> DEFINE id == [i \in DOMAIN external_equations |-> i]
  <2>1. id \in [1..n -> T] /\ \A i \in 1..n : id[i] = i BY <1>0
  <2>2. Len(id) = n BY <1>0, <2>1, SeqOfFunction
  <2>3. seq = [i \in 1..n |-> id[(n - i) + 1]]
    <3> HIDE DEF id
    <3> QED BY <2>2 DEF Reverse, id
  <2>4. \A i \in 1..n : (n - i) + 1 \in 1..n BY <1>0
  <2> HIDE DEF id, seq
  <2>5. \A i \in 1..n : seq[i] = (n - i) + 1 BY <2>1, <2>3, <2>4
  <2>6. seq \in [1..n -> T] BY <2>1, <2>3, <2>4
  <2> QED BY <1>0, <2>5, <2>6, SeqOfFunction
<1>2. G \in [V -> [T -> V]]
  <2>1. ASSUME NEW f \in V, NEW v \in T PROVE Upward(f, v) \in V
    <3>1. \A i \in 1..n : xor_plus(f[i], f[v]) \in Right BY XorPlusRight, RightParts
    <3> QED BY <3>1 DEF Upward
  <2> QED BY <2>1
<1>3. \A f \in V, v \in T : G[f][v] = Upward(f, v) OBVIOUS
<1>4. Jordanized = fold[1..n]
  BY <1>1 DEF Jordanized, Upward, Pivot, FoldLeft, MapThenFoldSet
<1> HIDE DEF seq, G, V, T, base
<1>5. \E f : f = Body(f)
  <2>1. FoldsOf(V, G, base, seq) # {} BY <1>0, <1>1, <1>2, FoldExists, Zenon
  <2>2. PICK f \in [SUBSET (1..n) -> V] :
          f = [s \in SUBSET (1..n) |-> IF s = {} THEN base ELSE G[f[s \ {Max(s)}]][seq[Max(s)]]]
    BY <1>1, <2>1 DEF FoldsOf
  <2>3. ASSUME NEW s \in SUBSET (1..n), s # {}
        PROVE  G[f[s \ {Max(s)}]][seq[Max(s)]] = Upward(f[s \ {Max(s)}], seq[Max(s)])
    <3>1. Max(s) \in 1..n BY <1>0, <2>3, MaxInSet
    <3>2. seq[Max(s)] \in T BY <1>1, <3>1, ElementOfSeq
    <3>3. f[s \ {Max(s)}] \in V OBVIOUS
    <3> QED BY <1>3, <3>2, <3>3
  <2>4. f = Body(f) BY <2>2, <2>3
  <2> QED BY <2>4
<1>6. fold = Body(fold)
  <2> HIDE DEF Body
  <2> QED BY <1>5
<1> HIDE DEF fold
<1>7. fold[1..0] = base
  <2>1. 1..0 = {} /\ {} \in SUBSET (1..n) OBVIOUS
  <2> QED BY <1>6, <2>1
<1>8. ASSUME NEW i \in 1..n PROVE fold[1..i] = Upward(fold[1..(i - 1)], (n - i) + 1)
  <2>1. 1..i \in SUBSET (1..n) BY <1>0
  <2>2. i \in Nat \ {0} BY <1>0
  <2>3. Max(1..i) = i /\ (1..i) \ {i} = 1..(i - 1) /\ 1..i # {} BY <2>2, LastOfInterval
  <2>4. fold[1..i] = Upward(fold[(1..i) \ {Max(1..i)}], seq[Max(1..i)])
    BY <2>1, <2>3, <1>6
  <2> QED BY <1>1, <2>3, <2>4
<1> DEFINE h == [i \in 0..n |-> fold[1..i]]
<1>9. h[0] = base /\ \A i \in 1..n : h[i] = Upward(h[i - 1], (n - i) + 1)
  BY <1>0, <1>7, <1>8
<1>10. h[n] = fold[1..n] BY <1>0
<1> HIDE DEF h
<1> QED BY <1>4, <1>9, <1>10 DEF base

\* What holds after so many of the last equations: the others do not have their pivots,
\* and what held of the saved ones still does.
JordanAt(eqs, done) ==
    LET n == Len(external_equations) IN
    /\ eqs \in [1..n -> Right]
    /\ \A a \in M!Assignments : (\A k \in 1..n : Satisfies(a, eqs[k]))
                                   <=> (\A k \in 1..n : Satisfies(a, external_equations[k]))
    /\ \A k \in 1..n : Pivot(k) \in Variables(eqs[k])
    /\ \A k, l \in 1..n : k < l \/ (n - done < k /\ l # k) => Pivot(k) \notin Variables(eqs[l])
    /\ \A v : (\A k \in 1..n : v \notin Variables(external_equations[k]))
                 => \A k \in 1..n : v \notin Variables(eqs[k])

LEMMA UpwardRight ==
  ASSUME NEW n \in Nat, n = Len(external_equations), NEW i \in 1..n, NEW eqs, JordanAt(eqs, i - 1)
  PROVE  JordanAt(Upward(eqs, (n - i) + 1), i)
<1> DEFINE p == (n - i) + 1
           c == eqs[p]
           new == Upward(eqs, p)
<1>1. /\ eqs \in [1..n -> Right]
      /\ \A a \in M!Assignments : (\A k \in 1..n : Satisfies(a, eqs[k]))
                                     <=> (\A k \in 1..n : Satisfies(a, external_equations[k]))
      /\ \A k \in 1..n : Pivot(k) \in Variables(eqs[k])
      /\ \A k, l \in 1..n : k < l \/ (n - (i - 1) < k /\ l # k) => Pivot(k) \notin Variables(eqs[l])
      /\ \A v : (\A k \in 1..n : v \notin Variables(external_equations[k]))
                   => \A k \in 1..n : v \notin Variables(eqs[k])
  BY DEF JordanAt
<1>2. p \in 1..n /\ n - (i - 1) = p /\ c \in Right
      /\ \A k \in 1..n : n - i < k => k = p \/ p < k
  <2>1. p \in 1..n /\ n - (i - 1) = p OBVIOUS
  <2>2. \A k \in 1..n : n - i < k => k = p \/ p < k OBVIOUS
  <2> HIDE DEF p
  <2>3. c \in Right BY <1>1, <2>1
  <2> QED BY <2>1, <2>2, <2>3
<1>3. new = [e \in 1..n |-> IF e < p /\ Pivot(p) \in Variables(eqs[e]) THEN xor_plus(eqs[e], c) ELSE eqs[e]]
  BY <1>1 DEF Upward, Variables
<1> HIDE DEF p, c, new
<1>4. ASSUME NEW e \in 1..n
      PROVE  \/ new[e] = eqs[e] /\ ~(e < p /\ Pivot(p) \in Variables(eqs[e]))
             \/ /\ new[e] = xor_plus(eqs[e], c) /\ new[e] \in Right
                /\ e < p /\ Pivot(p) \in Variables(eqs[e])
                /\ Variables(new[e]) = SymDiff(Variables(eqs[e]), Variables(c))
                /\ \A a \in M!Assignments : Satisfies(a, c) => (Satisfies(a, new[e]) <=> Satisfies(a, eqs[e]))
  <2>1. CASE e < p /\ Pivot(p) \in Variables(eqs[e])
    <3>1. new[e] = xor_plus(eqs[e], c) BY <1>3, <2>1
    <3>2. eqs[e] \in Constraints /\ c \in Constraints BY <1>1, <1>2, RightParts
    <3> QED BY <2>1, <3>1, <3>2, XorPlusRight DEF Variables
  <2>2. CASE ~(e < p /\ Pivot(p) \in Variables(eqs[e])) BY <1>3, <2>2
  <2> QED BY <2>1, <2>2
<1>5. new \in [1..n -> Right]
  <2>1. \A e \in 1..n : new[e] \in Right BY <1>1, <1>4
  <2>2. new = [e \in 1..n |-> new[e]] BY <1>3
  <2> QED BY <2>1, <2>2
<1>6. new[p] = c BY <1>2, <1>4 DEF c
<1>7. ASSUME NEW a \in M!Assignments
      PROVE  (\A k \in 1..n : Satisfies(a, new[k])) <=> (\A k \in 1..n : Satisfies(a, external_equations[k]))
  <2>1. Satisfies(a, c) => \A k \in 1..n : Satisfies(a, new[k]) <=> Satisfies(a, eqs[k]) BY <1>4
  <2>2. (\A k \in 1..n : Satisfies(a, new[k])) => Satisfies(a, c) BY <1>2, <1>6
  <2>3. (\A k \in 1..n : Satisfies(a, eqs[k])) => Satisfies(a, c) BY <1>2 DEF c
  <2> QED BY <1>1, <2>1, <2>2, <2>3
<1>8. ASSUME NEW k \in 1..n PROVE Pivot(k) \in Variables(new[k])
  <2>1. k < p => Pivot(k) \notin Variables(c) BY <1>1, <1>2 DEF c
  <2> QED BY <1>1, <1>4, <2>1 DEF SymDiff
<1>9. ASSUME NEW k \in 1..n, NEW l \in 1..n, k < l \/ (n - i < k /\ l # k)
      PROVE  Pivot(k) \notin Variables(new[l])
  <2>1. CASE k = p
    <3>1. CASE l < p
      <4>1. Pivot(p) \in Variables(c) BY <1>1, <1>2 DEF c
      <4> QED BY <1>4, <2>1, <3>1, <4>1 DEF SymDiff
    <3>2. CASE ~(l < p)
      <4>1. new[l] = eqs[l] BY <1>4, <3>2
      <4>2. k < l BY <1>2, <1>9, <2>1, <3>2
      <4> QED BY <1>1, <4>1, <4>2
    <3> QED BY <3>1, <3>2
  <2>2. CASE k # p
    <3>1. k < l \/ (p < k /\ l # k) BY <1>2, <1>9, <2>2
    <3>2. Pivot(k) \notin Variables(eqs[l]) BY <1>1, <1>2, <3>1
    <3>3. l < p => k < p \/ p < k BY <1>2, <2>2
    <3>4. l < p => Pivot(k) \notin Variables(c) BY <1>1, <1>2, <2>2, <3>3 DEF c
    <3> QED BY <1>4, <3>2, <3>4 DEF SymDiff
  <2> QED BY <2>1, <2>2
<1>10. ASSUME NEW v, \A k \in 1..n : v \notin Variables(external_equations[k]), NEW k \in 1..n
       PROVE  v \notin Variables(new[k])
  <2>1. v \notin Variables(eqs[k]) /\ v \notin Variables(c) BY <1>1, <1>2, <1>10 DEF c
  <2> QED BY <1>4, <2>1 DEF SymDiff
<1>11. JordanAt(new, i) BY <1>5, <1>7, <1>8, <1>9, <1>10 DEF JordanAt
<1> QED BY <1>11 DEF new, p

\* A list with no rows has every assignment as a solution.
LEMMA NoRows ==
  ASSUME NEW list, Present(list) = {}
  PROVE  Rows(list) = {} /\ Solutions(Rows(list)) # {}
<1>1. Rows(list) = {} BY DEF Rows
<1>2. {} \in M!Assignments BY DEF M!Assignments
<1>3. {} \in Solutions({}) BY <1>2, SolutionIff
<1> QED BY <1>1, <1>3

\* All of jordanize.
LEMMA JordanKept ==
  ASSUME internal_equations \in Seq(Right), external_equations \in Seq(Right),
         Triangular(internal_equations \o external_equations, pivot_sequence)
  PROVE  JordanAt(Jordanized, Len(external_equations))
<1> DEFINE n == Len(external_equations)
           m == Len(internal_equations)
           all == internal_equations \o external_equations
<1>1. n \in Nat /\ m \in Nat /\ DOMAIN external_equations = 1..n
      /\ \A k \in 1..n : external_equations[k] \in Right
  BY LenProperties, ElementOfSeq
<1>2. Len(all) = m + n /\ \A k \in 1..n : all[k + m] = external_equations[k]
  <2>1. Len(all) = m + n /\ \A j \in 1..(m + n) : all[j] = IF j <= m THEN internal_equations[j]
                                                        ELSE external_equations[j - m]
    BY ConcatProperties
  <2>2. \A k \in 1..n : k + m \in 1..(m + n) /\ ~(k + m <= m) /\ (k + m) - m = k BY <1>1
  <2> HIDE DEF all, n, m
  <2> QED BY <2>1, <2>2
<1>3. \A k \in 1..(m + n) :
         /\ pivot_sequence[k] \in Variables(all[k])
         /\ \A l \in (k + 1)..(m + n) : pivot_sequence[k] \notin Variables(all[l])
  BY <1>2 DEF Triangular
<1> HIDE DEF all, m
<1>4. \A k \in 1..n : Pivot(k) = pivot_sequence[k + m] BY DEF Pivot, m
<1> HIDE DEF n
<1>5. \A k \in 1..n : Pivot(k) \in Variables(external_equations[k])
  <2>1. \A k \in 1..n : k + m \in 1..(m + n) BY <1>1
  <2> QED BY <1>2, <1>3, <1>4, <2>1
<1>6. \A k, l \in 1..n : k < l => Pivot(k) \notin Variables(external_equations[l])
  <2>1. \A k, l \in 1..n : k < l => k + m \in 1..(m + n) /\ l + m \in ((k + m) + 1)..(m + n) BY <1>1
  <2> QED BY <1>2, <1>3, <1>4, <2>1
<1>7. JordanAt(external_equations, 0)
  <2>1. external_equations \in [1..n -> Right] BY <1>1
  <2>2. \A k \in 1..n : ~(n - 0 < k) BY <1>1
  <2> QED BY <1>5, <1>6, <2>1, <2>2 DEF JordanAt, n
<1>8. PICK h :
        /\ h[0] = external_equations
        /\ \A i \in 1..n : h[i] = Upward(h[i - 1], (n - i) + 1)
        /\ Jordanized = h[n]
  BY JordanRun DEF n
<1> DEFINE Kept(i) == JordanAt(h[i], i)
           S == {i \in 0..n : Kept(i)}
<1>9. 0 \in S BY <1>1, <1>7, <1>8
<1>10. ASSUME NEW i \in 1..n, i - 1 \in S PROVE i \in S
  <2>1. JordanAt(h[i - 1], i - 1) BY <1>10
  <2>2. JordanAt(Upward(h[i - 1], (n - i) + 1), i)
    <3>1. n = Len(external_equations) BY DEF n
    <3> QED BY <1>1, <2>1, <3>1, UpwardRight, Zenon
  <2>3. Kept(i) BY <1>8, <2>2
  <2>4. i \in 0..n BY <1>1
  <2> HIDE DEF Kept
  <2> QED BY <2>3, <2>4
<1>11. n \in S
  <2> HIDE DEF S
  <2>1. 0..n \subseteq S BY <1>1, <1>9, <1>10, IntervalInduction
  <2> QED BY <1>1, <2>1
<1> QED BY <1>8, <1>11 DEF n

\* The end of the elimination: every row was eliminated, and so the set has a solution.
LEMMA JordanRight ==
  ASSUME GaussInv, jordanize, UNCHANGED sessionVars
  PROVE  GaussInv'
<1> DEFINE n == Len(external_equations)
           m == Len(internal_equations)
           int == internal_equations
           ext == external_equations
           new == Jordanized
<1>1. /\ gaussPhase = "eliminating" /\ remaining_equation_count = 0
      /\ external_equations' = new /\ gaussPhase' = "done"
      /\ UNCHANGED <<equations, internal_variables, internal_equations, pivot_sequence>>
      /\ UNCHANGED <<xlist, todo, eset, iset>>
  BY DEF jordanize, sessionVars
<1> HIDE DEF new
<1>2. Eliminating /\ xlist \in Seq(Right) /\ eset = NULL /\ todo = "gauss"
      /\ (todo = "gauss" => /\ \A d \in Range(xlist) : d.variables # <<>>
                            /\ Len(xlist) * VarCount < EXTERNAL_PENALTY)
  BY <1>1 DEF GaussInv
<1>3. /\ Reduced(equations) /\ int \in Seq(Right) /\ ext \in Seq(Right)
      /\ SolutionsKept(equations, Range(int) \cup Range(ext), Range(xlist))
      /\ Triangular(int \o ext, pivot_sequence)
      /\ ExternalLast(equations, pivot_sequence, ext, internal_variables)
      /\ Cardinality(Present(equations)) = 0
  BY <1>1, <1>2 DEF Eliminating, Indexed
<1>4. Present(equations) = {} BY <1>3, ReducedParts, FS_EmptySet
<1>5. n \in Nat /\ m \in Nat /\ DOMAIN ext = 1..n /\ DOMAIN int = 1..m BY <1>3, LenProperties
<1>6. /\ new \in [1..n -> Right]
      /\ \A a \in M!Assignments : (\A k \in 1..n : Satisfies(a, new[k])) <=> (\A k \in 1..n : Satisfies(a, ext[k]))
      /\ \A k \in 1..n : Pivot(k) \in Variables(new[k])
      /\ \A k, l \in 1..n : k < l \/ (n - n < k /\ l # k) => Pivot(k) \notin Variables(new[l])
      /\ \A v : (\A k \in 1..n : v \notin Variables(ext[k])) => \A k \in 1..n : v \notin Variables(new[k])
  BY <1>3, JordanKept DEF JordanAt, new
<1>7. new \in Seq(Right) /\ Len(new) = n /\ DOMAIN new = 1..n BY <1>5, <1>6, SeqOfFunction
<1>8. Solutions(Range(int) \cup Range(new)) = Solutions(Range(xlist)) /\ Solutions(Range(xlist)) # {}
  <2>1. Rows(equations) = {} /\ Solutions(Rows(equations)) # {} BY <1>4, NoRows
  <2>2. Rows(equations) \cup (Range(int) \cup Range(ext)) = Range(int) \cup Range(ext) BY <2>1
  <2>3. Solutions(Range(int) \cup Range(ext)) = Solutions(Range(xlist)) /\ Solutions(Range(xlist)) # {}
    BY <1>3, <2>1, <2>2 DEF SolutionsKept
  <2>4. ASSUME NEW a
        PROVE  a \in Solutions(Range(int) \cup Range(new)) <=> a \in Solutions(Range(int) \cup Range(ext))
    <3>1. a \in Solutions(Range(int) \cup Range(new)) <=>
            a \in M!Assignments /\ \A d \in Range(int) \cup Range(new) : Satisfies(a, d)
      BY SolutionIff
    <3>2. a \in Solutions(Range(int) \cup Range(ext)) <=>
            a \in M!Assignments /\ \A d \in Range(int) \cup Range(ext) : Satisfies(a, d)
      BY SolutionIff
    <3>3. (\A d \in Range(new) : Satisfies(a, d)) <=> (\A k \in 1..n : Satisfies(a, new[k])) BY <1>7 DEF Range
    <3>4. (\A d \in Range(ext) : Satisfies(a, d)) <=> (\A k \in 1..n : Satisfies(a, ext[k])) BY <1>5 DEF Range
    <3> HIDE DEF n
    <3> QED BY <1>6, <3>1, <3>2, <3>3, <3>4
  <2> QED BY <2>3, <2>4
<1>9. \A k \in 1..n : Pivot(k) = pivot_sequence[k + m] BY DEF Pivot
<1>10. Triangular(int \o new, pivot_sequence)
  <2> DEFINE old == int \o ext
             all == int \o new
  <2>1. Len(old) = m + n /\ \A j \in 1..(m + n) : old[j] = IF j <= m THEN int[j] ELSE ext[j - m]
    BY <1>3, ConcatProperties
  <2>2. all \in Seq(Right) /\ Len(all) = m + n
        /\ \A j \in 1..(m + n) : all[j] = IF j <= m THEN int[j] ELSE new[j - m]
    <3>1. /\ all \in Seq(Right) /\ Len(all) = m + Len(new)
          /\ \A j \in 1..(m + Len(new)) : all[j] = IF j <= m THEN int[j] ELSE new[j - m]
      <4>1. int \in Seq(Right) /\ new \in Seq(Right) BY <1>3, <1>7
      <4> QED BY <4>1, ConcatProperties
    <3>2. Len(new) = n BY <1>7
    <3> HIDE DEF all, n, m
    <3> QED BY <3>1, <3>2
  <2>3. /\ pivot_sequence \in Seq(Vars) /\ Len(pivot_sequence) = m + n
        /\ \A k \in 1..(m + n) : /\ pivot_sequence[k] \in Variables(old[k])
                                 /\ \A l \in (k + 1)..(m + n) : pivot_sequence[k] \notin Variables(old[l])
    BY <1>3, <2>1 DEF Triangular
  <2> HIDE DEF old, all, n, m
  <2>4. ASSUME NEW k \in 1..(m + n)
        PROVE  /\ pivot_sequence[k] \in Variables(all[k])
               /\ \A l \in (k + 1)..(m + n) : pivot_sequence[k] \notin Variables(all[l])
    <3>1. CASE k <= m
      <4>1. all[k] = old[k] BY <2>1, <2>2, <3>1
      <4>2. ASSUME NEW l \in (k + 1)..(m + n) PROVE pivot_sequence[k] \notin Variables(all[l])
        <5>0. l \in 1..(m + n) BY <1>5
        <5>1. CASE l <= m
          <6>1. all[l] = old[l] BY <2>1, <2>2, <5>0, <5>1
          <6> QED BY <2>3, <6>1
        <5>2. CASE ~(l <= m)
          <6>1. \A j \in 1..n : j + m \in (k + 1)..(m + n) /\ j + m \in 1..(m + n) /\ ~(j + m <= m) /\ (j + m) - m = j
            BY <1>5, <3>1
          <6>2. \A j \in 1..n : ext[j] = old[j + m] BY <2>1, <6>1
          <6>3. \A j \in 1..n : pivot_sequence[k] \notin Variables(ext[j]) BY <2>3, <6>1, <6>2
          <6>4. l - m \in 1..n BY <1>5, <5>0, <5>2
          <6>5. all[l] = new[l - m] BY <2>2, <5>0, <5>2
          <6> QED BY <1>6, <6>3, <6>4, <6>5
        <5> QED BY <5>1, <5>2
      <4> QED BY <2>3, <4>1, <4>2
    <3>2. CASE ~(k <= m)
      <4> DEFINE p == k - m
      <4>1. p \in 1..n /\ p + m = k BY <1>5, <3>2
      <4>2. all[k] = new[p] BY <2>2, <3>2
      <4>3. pivot_sequence[k] = Pivot(p) BY <1>9, <4>1
      <4>4. ASSUME NEW l \in (k + 1)..(m + n) PROVE pivot_sequence[k] \notin Variables(all[l])
        <5>1. l \in 1..(m + n) /\ ~(l <= m) /\ l - m \in 1..n /\ p < l - m BY <1>5, <3>2
        <5>2. all[l] = new[l - m] BY <2>2, <5>1
        <5> HIDE DEF p
        <5> QED BY <1>6, <4>1, <4>3, <5>1, <5>2
      <4> HIDE DEF p
      <4> QED BY <1>6, <4>1, <4>2, <4>3, <4>4
    <3> QED BY <3>1, <3>2
  <2> QED BY <2>2, <2>3, <2>4 DEF Triangular, all
<1>11. ASSUME NEW k \in DOMAIN new
       PROVE  /\ Variables(new[k]) \cap internal_variables = {}
              /\ \A l \in DOMAIN new \ {k} : pivot_sequence[k + m] \notin Variables(new[l])
  <2>1. k \in 1..n /\ n - n < k BY <1>5, <1>7
  <2>2. \A v \in internal_variables : \A j \in 1..n : v \notin Variables(ext[j]) BY <1>3, <1>5 DEF ExternalLast
  <2>3. \A v \in internal_variables : v \notin Variables(new[k]) BY <1>6, <2>1, <2>2
  <2> HIDE DEF n, m
  <2>4. \A l \in DOMAIN new \ {k} : Pivot(k) \notin Variables(new[l]) BY <1>6, <1>7, <2>1
  <2> QED BY <1>9, <2>1, <2>3, <2>4
<1>12. Solved(int, new, pivot_sequence, internal_variables) BY <1>10, <1>11 DEF Solved
<1>13. Done' BY <1>1, <1>3, <1>4, <1>7, <1>8, <1>12 DEF Done
<1> QED BY <1>1, <1>2, <1>13 DEF GaussInv

LEMMA GaussInvNext == GaussInv /\ [Next]_vars => GaussInv'
<1>1. SUFFICES ASSUME GaussInv, [Next]_vars PROVE GaussInv' OBVIOUS
<1>2. CASE UNCHANGED <<gaussVars, sessionVars>>
  <2>1. /\ UNCHANGED <<equations, remaining_equation_count, internal_variables, imap, pivot_list>>
        /\ UNCHANGED <<pivot_sequence, internal_equations, external_equations, gaussPhase>>
        /\ UNCHANGED <<xlist, todo, eset, iset>>
    BY <1>2 DEF gaussVars, sessionVars
  <2>2. Eliminating => Eliminating'
    <3>1. Indexed => Indexed' BY <2>1 DEF Indexed
    <3> QED BY <2>1, <3>1 DEF Eliminating
  <2>3. Done => Done' BY <2>1 DEF Done
  <2>4. Infeasible => Infeasible' BY <2>1 DEF Infeasible
  <2> QED BY <1>1, <2>1, <2>2, <2>3, <2>4 DEF GaussInv
<1>3. CASE \E internal \in InternalSets : GaussJordan(internal) BY <1>1, <1>3, GaussStart
<1>4. CASE (\E v \in Vars : gauss_step(v)) /\ UNCHANGED <<sumVars, sessionVars>>
  BY <1>1, <1>4, StepRight
<1>5. CASE jordanize /\ UNCHANGED <<sumVars, sessionVars>> BY <1>1, <1>5, JordanRight
<1>6. CASE FillSets
  <2>1. /\ UNCHANGED <<equations, remaining_equation_count, internal_variables, imap, pivot_list>>
        /\ UNCHANGED <<pivot_sequence, internal_equations, external_equations, gaussPhase>>
        /\ UNCHANGED <<xlist, todo>>
        /\ gaussPhase \in {"done", "infeasible"}
        /\ eset' = AddAll(external_equations)
        /\ iset' = IF gaussPhase = "done" THEN AddAll(internal_equations) ELSE <<>>
    BY <1>6 DEF FillSets, gaussVars
  <2>2. Done => Done' BY <2>1 DEF Done
  <2>3. Infeasible => Infeasible' BY <2>1 DEF Infeasible
  <2> QED BY <1>1, <2>1, <2>2, <2>3 DEF GaussInv
<1>7. CASE Sum BY <1>2, <1>7 DEF Sum
<1>8. CASE UNCHANGED vars BY <1>2, <1>8 DEF vars
<1> QED BY <1>1, <1>2, <1>3, <1>4, <1>5, <1>6, <1>7, <1>8 DEF Next

\* While rows are left some variable has a pivot.
LEMMA PivotLeft ==
  ASSUME GaussInv, gaussPhase = "eliminating", remaining_equation_count > 0
  PROVE  \E v \in Vars : pivot_list[v] # NULL
<1>1. /\ Eliminating /\ xlist \in Seq(Right) /\ Len(xlist) * VarCount < EXTERNAL_PENALTY
  BY DEF GaussInv
<1>2. Reduced(equations) /\ Indexed BY <1>1 DEF Eliminating
<1>3. Len(equations) * VarCount < EXTERNAL_PENALTY
  <2>1. 1..Len(equations) = 1..Len(xlist) /\ Len(equations) \in Nat /\ Len(xlist) \in Nat
    BY <1>1, <1>2, ReducedParts, LenProperties DEF Indexed
  <2>2. Len(equations) = Len(xlist) BY <2>1, IntervalSize
  <2> QED BY <1>1, <2>2
<1>4. Present(equations) # {} BY <1>2, FS_EmptySet DEF Indexed
<1>5. PICK i \in Present(equations) : TRUE BY <1>4
<1>6. equations[i] \in Right /\ equations[i].variables # <<>> BY <1>2, ReducedParts DEF Reduced
<1>7. PICK v \in Variables(equations[i]) : v \in Vars BY <1>6, RightParts, EmptyList DEF Variables
<1>8. i \in PlacesOf(equations, v) BY DEF PlacesOf
<1>9. imap[v] = PlacesOf(equations, v) /\ pivot_list[v] \in choose_pivot(equations, imap, internal_variables, v)
  BY <1>2, <1>7 DEF Indexed
<1>10. pivot_list[v] = NULL <=> imap[v] = {} BY <1>2, <1>3, <1>9, ChoiceRight
<1> QED BY <1>7, <1>8, <1>9, <1>10

\* Whatever pivots are chosen among the cheapest, the elimination neither loses nor adds a
\* solution, never looks at a deleted equation, keeps its map and its preferred pivots up
\* to date and has a pivot as long as equations are left; any two of them can be added
\* with a proof (gauss_step, choose_pivot, jordanize).
THEOREM EquationsKeptHolds == Spec => []EquationsKept
<1>1. GaussInv => EquationsKept
  <2>1. SUFFICES ASSUME GaussInv PROVE EquationsKept OBVIOUS
  <2>2. gaussPhase # "crashed" BY <2>1 DEF GaussInv
  <2>3. ASSUME gaussPhase \in {"eliminating", "done"}
        PROVE  Solutions({equations[i] : i \in Present(equations)}
                            \cup Range(internal_equations) \cup Range(external_equations))
                  = Solutions(Range(xlist))
    <3> DEFINE int == Range(internal_equations)
               ext == Range(external_equations)
    <3>1. {equations[i] : i \in Present(equations)} = Rows(equations) BY DEF Rows
    <3>2. (Rows(equations) \cup int) \cup ext = Rows(equations) \cup (int \cup ext) OBVIOUS
    <3>3. CASE gaussPhase = "eliminating"
      <4>1. SolutionsKept(equations, int \cup ext, Range(xlist)) BY <2>1, <3>3 DEF GaussInv, Eliminating
      <4> QED BY <3>1, <3>2, <4>1 DEF SolutionsKept
    <3>4. CASE gaussPhase = "done"
      <4>1. Present(equations) = {} /\ Solutions(int \cup ext) = Solutions(Range(xlist))
        BY <2>1, <3>4 DEF GaussInv, Done
      <4>2. Rows(equations) \cup (int \cup ext) = int \cup ext BY <4>1 DEF Rows
      <4> QED BY <3>1, <3>2, <4>1, <4>2
    <3> QED BY <2>3, <3>3, <3>4
  <2>4. ASSUME gaussPhase = "eliminating"
        PROVE  /\ remaining_equation_count = Cardinality(Present(equations))
               /\ \A v \in Vars :
                     /\ imap[v] = {i \in Present(equations) : v \in Range(equations[i].variables)}
                     /\ pivot_list[v] \in choose_pivot(equations, imap, internal_variables, v)
    <3>1. Indexed BY <2>1, <2>4 DEF GaussInv, Eliminating
    <3> QED BY <3>1 DEF Indexed, PlacesOf, Variables
  <2>5. ASSUME gaussPhase = "eliminating"
        PROVE  \A i, j \in Present(equations) : Proved(equations[i], equations[j])
    <3>1. Reduced(equations) BY <2>1, <2>5 DEF GaussInv, Eliminating
    <3>2. \A i \in Present(equations) : equations[i] \in Right BY <3>1, ReducedParts
    <3> QED BY <3>2, ProvedRight
  <2>6. gaussPhase = "eliminating" /\ remaining_equation_count > 0 => \E v \in Vars : pivot_list[v] # NULL
    BY <2>1, PivotLeft
  <2> QED BY <2>2, <2>3, <2>4, <2>5, <2>6 DEF EquationsKept
<1> QED BY <1>1, GaussInvInit, GaussInvNext, PTL DEF Spec

\* What the client is given: everything that was saved, or the equation without solution.
LEMMA GivenBack ==
  ASSUME GaussInv, eset # NULL
  PROVE  \/ /\ gaussPhase = "done" /\ Done
            /\ eset = external_equations /\ iset = internal_equations
            /\ ~infeasible(eset)
         \/ /\ gaussPhase = "infeasible" /\ Infeasible
            /\ iset = <<>> /\ infeasible(eset)
            /\ \E c \in Right : eset = <<c>> /\ is_infeasible(c)
<1>1. /\ gaussPhase \in {"done", "infeasible"}
      /\ eset = AddAll(external_equations)
      /\ iset = IF gaussPhase = "done" THEN AddAll(internal_equations) ELSE <<>>
      /\ gaussPhase = "done" => Done
      /\ gaussPhase = "infeasible" => Infeasible
  BY DEF GaussInv
<1>2. CASE gaussPhase = "done"
  <2> DEFINE int == internal_equations
             ext == external_equations
             m == Len(int)
             n == Len(ext)
             all == int \o ext
  <2>1. int \in Seq(Right) /\ ext \in Seq(Right) /\ Triangular(all, pivot_sequence)
    BY <1>1, <1>2 DEF Done, Solved
  <2>2. m \in Nat /\ n \in Nat /\ DOMAIN int = 1..m /\ DOMAIN ext = 1..n BY <2>1, LenProperties
  <2>3. Len(all) = m + n /\ \A j \in 1..(m + n) : all[j] = IF j <= m THEN int[j] ELSE ext[j - m]
    BY <2>1, ConcatProperties
  <2>4. \A j \in 1..(m + n) : Variables(all[j]) # {} BY <2>1, <2>3 DEF Triangular
  <2> HIDE DEF m, n, all
  <2>5. \A k \in 1..m : Variables(int[k]) # {}
    <3>1. \A k \in 1..m : k \in 1..(m + n) /\ k <= m BY <2>2
    <3> QED BY <2>3, <2>4, <3>1
  <2>6. \A k \in 1..n : Variables(ext[k]) # {}
    <3>1. \A k \in 1..n : k + m \in 1..(m + n) /\ ~(k + m <= m) /\ (k + m) - m = k BY <2>2
    <3> QED BY <2>3, <2>4, <3>1
  <2>7. \A c : Variables(c) # {} => Plain(c) /\ ~is_infeasible(c)
    BY EmptyList DEF Variables, Plain, is_degenerate, is_infeasible
  <2>8. (\A c \in Range(int) : Plain(c)) /\ (\A c \in Range(ext) : Plain(c))
    BY <2>2, <2>5, <2>6, <2>7 DEF Range
  <2>9. eset = ext /\ iset = int BY <1>1, <1>2, <2>1, <2>8, AddAllRight
  <2>10. ~infeasible(eset)
    <3>1. SUFFICES ASSUME Len(ext) = 1, is_infeasible(ext[1]) PROVE FALSE BY <2>9 DEF infeasible
    <3>2. 1 \in 1..n BY <3>1 DEF n
    <3> QED BY <2>6, <2>7, <3>1, <3>2
  <2> QED BY <1>1, <1>2, <2>9, <2>10
<1>3. CASE gaussPhase = "infeasible"
  <2>1. PICK c \in Right : external_equations = <<c>> /\ is_infeasible(c) BY <1>1, <1>3 DEF Infeasible
  <2>2. Plain(c) BY <2>1 DEF Plain, is_degenerate, is_infeasible
  <2>3. <<c>> \in Seq(Right) /\ Range(<<c>>) = {c} /\ Len(<<c>>) = 1 /\ <<c>>[1] = c BY DEF Range
  <2>4. AddAll(<<c>>) = <<c>> BY <2>2, <2>3, AddAllRight
  <2>5. eset = <<c>> /\ iset = <<>> BY <1>1, <1>3, <2>1, <2>4
  <2>6. infeasible(eset) BY <2>1, <2>3, <2>5 DEF infeasible
  <2> QED BY <1>1, <1>3, <2>1, <2>5, <2>6
<1> QED BY <1>1, <1>2, <1>3

\* The client's sets have the solutions of what it gave, with validations that say so,
\* and it is told that there are none just when there are none: every equation that was
\* not is satisfied by a choice of its pivot (gauss_jordan).
THEOREM AnswerRightHolds == Spec => []AnswerRight
<1>1. GaussInv => AnswerRight
  <2>1. SUFFICES ASSUME GaussInv, eset # NULL
                 PROVE  /\ Solutions(Range(eset) \cup Range(iset)) = Solutions(Range(xlist))
                        /\ infeasible(eset) = (Solutions(Range(xlist)) = {})
                        /\ \A c \in Range(eset) \cup Range(iset) : c.validation = Solutions({c})
    BY DEF AnswerRight
  <2>2. infeasible(eset) \in BOOLEAN BY DEF infeasible, is_infeasible
  <2>3. CASE /\ gaussPhase = "done" /\ Done
             /\ eset = external_equations /\ iset = internal_equations
             /\ ~infeasible(eset)
    <3>1. /\ eset \in Seq(Right) /\ iset \in Seq(Right)
          /\ Solutions(Range(iset) \cup Range(eset)) = Solutions(Range(xlist))
          /\ Solutions(Range(xlist)) # {}
      BY <2>3 DEF Done
    <3>2. \A c \in Range(eset) \cup Range(iset) : c \in Right
      BY <3>1, LenProperties, ElementOfSeq DEF Range
    <3>3. Range(iset) \cup Range(eset) = Range(eset) \cup Range(iset) OBVIOUS
    <3>4. Solutions(Range(eset) \cup Range(iset)) = Solutions(Range(xlist)) BY <3>1, <3>3
    <3>5. infeasible(eset) = (Solutions(Range(xlist)) = {})
      <4>1. infeasible(eset) = FALSE BY <2>2, <2>3
      <4>2. (Solutions(Range(xlist)) = {}) = FALSE BY <3>1
      <4> QED BY <4>1, <4>2
    <3>6. \A c \in Range(eset) \cup Range(iset) : c.validation = Solutions({c}) BY <3>2, RightParts
    <3> QED BY <3>4, <3>5, <3>6
  <2>4. CASE /\ gaussPhase = "infeasible" /\ Infeasible
             /\ iset = <<>> /\ infeasible(eset)
             /\ \E c \in Right : eset = <<c>> /\ is_infeasible(c)
    <3>1. PICK c \in Right : eset = <<c>> /\ is_infeasible(c) BY <2>4
    <3>2. Range(eset) \cup Range(iset) = {c}
      <4>1. Range(eset) = {c} BY <3>1 DEF Range
      <4>2. Range(iset) = {} BY <2>4, EmptyList
      <4> QED BY <4>1, <4>2
    <3>3. Solutions({c}) = {}
      <4>1. SUFFICES ASSUME NEW a \in Solutions({c}) PROVE FALSE OBVIOUS
      <4>2. Satisfies(a, c) BY SolutionIff
      <4> QED BY <3>1, <4>2, Constant DEF is_infeasible
    <3>4. Solutions(Range(xlist)) = {} BY <2>4 DEF Infeasible
    <3> QED BY <2>4, <3>2, <3>3, <3>4, RightParts
  <2> QED BY <2>1, <2>3, <2>4, GivenBack
<1> QED BY <1>1, GaussInvInit, GaussInvNext, PTL DEF Spec

\* The answer is in the form the client solves it in: the first set without internal
\* variables and with each of its pivots in one equation, the second with its pivots in no
\* later equation (gauss_step, jordanize).
THEOREM SolvedFormHolds == Spec => []SolvedForm
<1>1. GaussInv => SolvedForm
  <2>1. SUFFICES ASSUME GaussInv, eset # NULL, ~infeasible(eset)
                 PROVE  /\ Len(pivot_sequence) = Len(iset \o eset)
                        /\ \A k \in DOMAIN (iset \o eset) :
                              /\ pivot_sequence[k] \in Variables((iset \o eset)[k])
                              /\ \A l \in (k + 1)..Len(iset \o eset) :
                                    ~(pivot_sequence[k] \in Variables((iset \o eset)[l]))
                        /\ \A k \in (Len(iset) + 1)..Len(iset \o eset) :
                              /\ Variables((iset \o eset)[k]) \cap internal_variables = {}
                              /\ \A l \in (Len(iset) + 1)..Len(iset \o eset) :
                                    l # k => ~(pivot_sequence[k] \in Variables((iset \o eset)[l]))
    BY DEF SolvedForm, Variables
  <2> DEFINE all == iset \o eset
             m == Len(iset)
             n == Len(eset)
  <2>2. /\ iset \in Seq(Right) /\ eset \in Seq(Right)
        /\ Solved(iset, eset, pivot_sequence, internal_variables)
    BY <2>1, GivenBack DEF Done
  <2>3. m \in Nat /\ n \in Nat /\ DOMAIN eset = 1..n BY <2>2, LenProperties
  <2>4. all \in Seq(Right) /\ Len(all) = m + n
        /\ \A j \in 1..(m + n) : all[j] = IF j <= m THEN iset[j] ELSE eset[j - m]
    BY <2>2, ConcatProperties
  <2>5. DOMAIN all = 1..Len(all) BY <2>4, LenProperties
  <2>6. /\ Len(pivot_sequence) = Len(all)
        /\ \A k \in 1..Len(all) : /\ pivot_sequence[k] \in Variables(all[k])
                                  /\ \A l \in (k + 1)..Len(all) : pivot_sequence[k] \notin Variables(all[l])
    BY <2>2 DEF Solved, Triangular
  <2>7. \A k \in 1..n : /\ Variables(eset[k]) \cap internal_variables = {}
                        /\ \A l \in 1..n \ {k} : pivot_sequence[k + m] \notin Variables(eset[l])
    BY <2>2, <2>3 DEF Solved
  <2> HIDE DEF all, m, n
  <2>8. \A k \in (m + 1)..Len(all) : k - m \in 1..n /\ (k - m) + m = k /\ all[k] = eset[k - m]
    BY <2>3, <2>4
  <2>9. ASSUME NEW k \in (m + 1)..Len(all)
        PROVE  /\ Variables(all[k]) \cap internal_variables = {}
               /\ \A l \in (m + 1)..Len(all) : l # k => pivot_sequence[k] \notin Variables(all[l])
    <3>1. k - m \in 1..n /\ (k - m) + m = k /\ all[k] = eset[k - m] BY <2>8
    <3>2. Variables(all[k]) \cap internal_variables = {} BY <2>7, <3>1
    <3>3. ASSUME NEW l \in (m + 1)..Len(all), l # k PROVE pivot_sequence[k] \notin Variables(all[l])
      <4>1. l - m \in 1..n /\ all[l] = eset[l - m] /\ l - m # k - m BY <2>3, <2>4, <2>8, <3>3
      <4>2. pivot_sequence[(k - m) + m] \notin Variables(eset[l - m]) BY <2>7, <3>1, <4>1
      <4> QED BY <3>1, <4>1, <4>2
    <3> QED BY <3>2, <3>3
  <2> QED BY <2>5, <2>6, <2>9 DEF all, m
<1> QED BY <1>1, GaussInvInit, GaussInvNext, PTL DEF Spec
=============================================================================
