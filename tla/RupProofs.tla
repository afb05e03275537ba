----------------------------- MODULE RupProofs -----------------------------
(***************************************************************************)
(* Proofs about RupLoop: what rup_check accepts is a consequence of the    *)
(* candidates it marks as used, for any clauses, candidates and orders.    *)
(*                                                                         *)
(* The invariant behind it says what the units mean while the search is    *)
(* still open (UnitsFollow).                                               *)
(*                                                                         *)
(* And the antecedents it prints are hints a checker can follow.  The      *)
(* invariant behind that one (FullInv) reads the hints found so far as a   *)
(* checker would, and says that it knows the same units.                   *)
(***************************************************************************)
EXTENDS RupLoop, Induction

IInv == TypeOK /\ UnitsFollow /\ ConflictSound

----------------------------------------------------------------------------
(* A candidate that is there has a clause over the literals.               *)

LEMMA PresentClause ==
    ASSUME TypeOK, NEW n \in Names, Present(n)
    PROVE  hints[n].clause \subseteq Literals
  <1>1. hints[n] \in Candidates
    BY DEF TypeOK
  <1>2. hints[n] # NoHint
    BY DEF Present, NoHint
  <1>3. hints[n] \in [id : Names, clause : Clauses]
    BY <1>1, <1>2 DEF Candidates
  <1> QED BY <1>3, RupAssumption

\* Under an assignment that makes the units true, a true literal of a clause is one
\* that is undecided.
LEMMA TrueIsUndecided ==
    ASSUME NEW a \in Assignments, NEW c, NEW hint, NEW m \in hint.clause,
           m \in Literals, c.units \subseteq a, m \in a
    PROVE  m \in Undecided(c, hint)
  <1>1. -m \notin a
    BY DEF Assignments
  <1> QED BY <1>1 DEF Undecided

\* A round in the cases that change the state: what it returns, field by field.
RoundCases(c, name, hint, r) ==
    \/ r = c
    \/ \/ r = [c EXCEPT !.verdict = "satisfied"]
       \/ r = [c EXCEPT !.verdict = "overflow"]
    \/ /\ hint.id # TAUTOLOGY
       /\ Undecided(c, hint) = {}
       /\ r = [c EXCEPT !.verdict = "conflict", !.used = @ \cup {name}]
    \/ /\ hint.id # TAUTOLOGY
       /\ \E l \in hint.clause : Undecided(c, hint) = {l}
       /\ r = [c EXCEPT !.units = @ \cup Undecided(c, hint), !.used = @ \cup {name}]

\* Every round of the loop is one of the cases (RupStep).
LEMMA RoundShape ==
    ASSUME NEW c, NEW name, NEW hint
    PROVE  RoundCases(c, name, hint, RupStep(c, name, hint))
  BY DEF RoundCases, RupStep, Propagates

----------------------------------------------------------------------------
\* Before the first candidate the negated target is all that is known (RupStart).
LEMMA InitIInv == Init => IInv
  <1> SUFFICES ASSUME Init PROVE IInv
    OBVIOUS
  <1>1. check = [units |-> {-l : l \in target}, used |-> {}, verdict |-> "open"]
    BY DEF Init, RupStart
  <1>2. check.units \subseteq Literals
    BY <1>1, RupAssumption DEF Init
  <1>3. TypeOK
    <2>1. tried \in 0..Len(order) /\ order \in Seq(Names)
      BY RupAssumption DEF Init
    <2> QED BY <1>1, <1>2, <2>1 DEF TypeOK, Init
  <1>4. ASSUME NEW a \in Assignments, ~Satisfies(a, target)
        PROVE  check.units \subseteq a
    <2>1. ASSUME NEW l \in target PROVE -l \in a
      <3>1. l \in Literals /\ l \in Int /\ -l \in Literals /\ l \notin a
        BY <1>4, RupAssumption DEF Init, Satisfies
      <3> QED BY <3>1 DEF Assignments
    <2> QED BY <1>1, <2>1
  <1>5. UnitsFollow
    BY <1>4 DEF UnitsFollow
  <1>6. ConflictSound
    BY <1>1 DEF ConflictSound
  <1> QED BY <1>3, <1>5, <1>6 DEF IInv

\* A round keeps the invariant: a unit is added only when its clause leaves no choice.
LEMMA StepIInv == IInv /\ [Next]_vars => IInv'
  <1> SUFFICES ASSUME IInv, [Next]_vars PROVE IInv'
    OBVIOUS
  <1>0. TypeOK /\ UnitsFollow /\ ConflictSound
    BY DEF IInv
  <1>1. CASE Try
    <2> DEFINE n == order[tried + 1]
               h == hints[n]
    <2>1. /\ n \in Names
          /\ tried' \in 0..Len(order)
      BY <1>0, <1>1 DEF TypeOK, Try
    <2>2. /\ UNCHANGED <<target, hints, order>>
          /\ check.verdict = "open"
          /\ check' = RupStep(check, n, h)
      BY <1>1 DEF Try
    <2>3. check = [units |-> check.units, used |-> check.used, verdict |-> check.verdict]
      BY <1>0 DEF TypeOK
    <2>a. h.id # TAUTOLOGY => Present(n) /\ h.clause \subseteq Literals
      BY <1>0, <2>1, PresentClause DEF Present
    <2>b. /\ check.units \subseteq Literals
          /\ check.used \subseteq {m \in Names : Present(m)}
          /\ check.verdict \in {"open", "satisfied", "conflict", "overflow"}
          /\ target \in SUBSET Literals
          /\ hints \in [Names -> Candidates]
          /\ order \in Seq(Names)
      BY <1>0 DEF TypeOK
    <2> HIDE DEF n
    <2>4. RoundCases(check, n, h, check')
      BY <2>2, RoundShape
    <2>5. CASE check' = check
      BY <1>0, <2>1, <2>2, <2>5, <2>b
         DEF IInv, TypeOK, UnitsFollow, ConflictSound, SatisfiesUsed, Present
    <2>6. CASE \/ check' = [check EXCEPT !.verdict = "satisfied"]
               \/ check' = [check EXCEPT !.verdict = "overflow"]
      <3>1. /\ check'.units = check.units /\ check'.used = check.used
            /\ check'.verdict \in {"satisfied", "overflow"}
            /\ check' = [units |-> check'.units, used |-> check'.used,
                         verdict |-> check'.verdict]
        BY <2>3, <2>6
      <3>2. TypeOK'
        BY <2>1, <2>2, <2>b, <3>1 DEF TypeOK, Present
      <3>3. UnitsFollow'
        BY <1>0, <2>2, <3>1 DEF UnitsFollow, SatisfiesUsed
      <3>4. ConflictSound'
        BY <3>1 DEF ConflictSound
      <3> QED BY <3>2, <3>3, <3>4 DEF IInv
    <2>7. CASE /\ h.id # TAUTOLOGY
               /\ Undecided(check, h) = {}
               /\ check' = [check EXCEPT !.verdict = "conflict", !.used = @ \cup {n}]
      <3>1. /\ check'.units = check.units /\ check'.used = check.used \cup {n}
            /\ check'.verdict = "conflict"
            /\ check' = [units |-> check'.units, used |-> check'.used,
                         verdict |-> check'.verdict]
        BY <2>3, <2>7
      <3>2. TypeOK'
        BY <2>1, <2>2, <2>7, <2>a, <2>b, <3>1 DEF TypeOK, Present
      <3>3. ASSUME NEW a \in Assignments, SatisfiesUsed(a)', ~Satisfies(a, target)
            PROVE  FALSE
        <4>1. SatisfiesUsed(a) /\ Satisfies(a, h.clause)
          BY <2>2, <3>1, <3>3 DEF SatisfiesUsed
        <4>2. check.units \subseteq a
          BY <1>0, <3>3, <4>1 DEF UnitsFollow
        <4>3. PICK m \in h.clause : m \in a
          BY <4>1 DEF Satisfies
        <4>4. m \in Undecided(check, h)
          BY <2>7, <2>a, <4>2, <4>3, TrueIsUndecided
        <4> QED BY <2>7, <4>4
      <3>4. UnitsFollow' /\ ConflictSound'
        BY <2>2, <3>3 DEF UnitsFollow, ConflictSound, SatisfiesUsed, Satisfies
      <3> QED BY <3>2, <3>4 DEF IInv
    <2>8. CASE /\ h.id # TAUTOLOGY
               /\ \E l \in h.clause : Undecided(check, h) = {l}
               /\ check' = [check EXCEPT !.units = @ \cup Undecided(check, h),
                                         !.used = @ \cup {n}]
      <3>1. /\ check'.units = check.units \cup Undecided(check, h)
            /\ check'.used = check.used \cup {n}
            /\ check'.verdict = check.verdict
            /\ check' = [units |-> check'.units, used |-> check'.used,
                         verdict |-> check'.verdict]
        BY <2>3, <2>8
      <3>2. Undecided(check, h) \subseteq Literals
        BY <2>8, <2>a DEF Undecided
      <3>3. TypeOK'
        BY <2>1, <2>2, <2>8, <2>a, <2>b, <3>1, <3>2 DEF TypeOK, Present
      <3>4. ASSUME NEW a \in Assignments, SatisfiesUsed(a)', ~Satisfies(a, target)
            PROVE  check'.units \subseteq a
        <4>1. SatisfiesUsed(a) /\ Satisfies(a, h.clause)
          BY <2>2, <3>1, <3>4 DEF SatisfiesUsed
        <4>2. check.units \subseteq a
          BY <1>0, <3>4, <4>1 DEF UnitsFollow
        <4>3. PICK m \in h.clause : m \in a
          BY <4>1 DEF Satisfies
        <4>4. m \in Undecided(check, h)
          BY <2>8, <2>a, <4>2, <4>3, TrueIsUndecided
        <4>5. Undecided(check, h) \subseteq a
          BY <2>8, <4>3, <4>4
        <4> QED BY <3>1, <4>2, <4>5
      <3>5. UnitsFollow'
        BY <2>2, <3>4 DEF UnitsFollow, Satisfies
      <3>6. ConflictSound'
        BY <2>2, <3>1 DEF ConflictSound
      <3> QED BY <3>3, <3>5, <3>6 DEF IInv
    <2> QED BY <2>4, <2>5, <2>6, <2>7, <2>8 DEF RoundCases
  <1>2. CASE UNCHANGED vars
    BY <1>0, <1>2
       DEF IInv, TypeOK, UnitsFollow, ConflictSound, SatisfiesUsed, Satisfies, Present, vars
  <1> QED BY <1>1, <1>2 DEF Next

\* Every candidate marked as used is one that is there, and the units are literals of
\* the clauses (rup_check, complete_hints).
THEOREM TypeCorrect == Spec => []TypeOK
  <1>1. IInv => TypeOK
    BY DEF IInv
  <1> QED BY InitIInv, StepIInv, <1>1, PTL DEF Spec

\* The units follow from the negated target and the candidates marked (rup_check).
THEOREM UnitsAreSound == Spec => []UnitsFollow
  <1>1. IInv => UnitsFollow
    BY DEF IInv
  <1> QED BY InitIInv, StepIInv, <1>1, PTL DEF Spec

\* What rup_check proves follows from the antecedents it marks, whatever the clauses,
\* the candidates and the order they are tried in (justify_apply).
THEOREM ConflictIsSound == Spec => []ConflictSound
  <1>1. IInv => ConflictSound
    BY DEF IInv
  <1> QED BY InitIInv, StepIInv, <1>1, PTL DEF Spec

----------------------------------------------------------------------------
(* The antecedents replayed by a checker of the file.                      *)

\* The clauses of the candidates that are there.
Database == [n \in {m \in Names : Present(m)} |-> hints[n].clause]

\* What a checker knows while it follows the hints of a line.
Knowledge == [true : SUBSET Literals, state : {"open", "conflict", "failed"}]

\* It reads one hint (RupByHints).
Follow(db, before, id) ==
    LET left == {l \in db[id] : -l \notin before.true}
    IN  IF before.state # "open" THEN before
        ELSE IF id \notin DOMAIN db THEN [before EXCEPT !.state = "failed"]
        ELSE IF left = {} THEN [before EXCEPT !.state = "conflict"]
        ELSE IF \E l \in left : left = {l} THEN [before EXCEPT !.true = @ \cup left]
        ELSE [before EXCEPT !.state = "failed"]

Outset == [true |-> {-l : l \in target}, state |-> "open"]

\* k is what it knows after each of the ids.
Walk(k, db, start, ids) ==
    /\ k[0] = start
    /\ \A n \in 1..Len(ids) : k[n] = Follow(db, k[n - 1], ids[n])

\* r[n] lists the used among the first n candidates of the order o.
Listing(r, o, used) ==
    /\ r[0] = <<>>
    /\ \A n \in 1..Len(o) : r[n] = IF o[n] \in used THEN Append(r[n - 1], o[n]) ELSE r[n - 1]

\* A checker that reads the candidates used among the first t, and there are no others,
\* comes to the verdict, and while that is open to the same units.
Trace(o, t, used, db, start, verdict, units) ==
    \E r \in [0..Len(o) -> Seq(Names)] :
        \E k \in [0..Len(r[t]) -> Knowledge] :
            /\ Listing(r, o, used) /\ \A n \in t..Len(o) : r[n] = r[t]
            /\ Walk(k, db, start, r[t]) /\ k[Len(r[t])].state = verdict
            /\ verdict = "open" => k[Len(r[t])].true = units

\* What the search knows is what a checker of its antecedents would know.
CheckerFollows ==
    check.verdict \in {"open", "conflict"} =>
        Trace(order, tried, check.used, Database, Outset, check.verdict, check.units)

\* Only candidates tried are marked as used, and no candidate is tried twice.
OrderRight ==
    /\ order \in Orders
    /\ \A n \in Names : Present(n) => hints[n].id = n
    /\ check.used \subseteq {order[n] : n \in 1..tried}

\* The inductive invariant for the antecedents.
FullInv == IInv /\ OrderRight /\ CheckerFollows

\* Before the first candidate the checker has read no hint.
LEMMA InitFull == Init => FullInv
<1> SUFFICES ASSUME Init PROVE FullInv OBVIOUS
<1>1. IInv BY InitIInv
<1>2. check = [units |-> {-l : l \in target}, used |-> {}, verdict |-> "open"] /\ tried = 0
  BY DEF Init, RupStart
<1>3. OrderRight BY <1>2 DEF Init, OrderRight
<1>4. Len(order) \in Nat BY <1>1, LenProperties DEF IInv, TypeOK
<1> DEFINE r == [n \in 0..Len(order) |-> <<>>]
           k == [n \in 0..0 |-> Outset]
<1>5. /\ r \in [0..Len(order) -> Seq(Names)] /\ \A n \in 0..Len(order) : r[n] = <<>>
      /\ 0 \in 0..Len(order) /\ r[0] = <<>> /\ Len(r[0]) = 0
  BY <1>4, EmptySeq
<1>6. Outset \in Knowledge
  <2>1. {-l : l \in target} \subseteq Literals BY RupAssumption DEF Init
  <2> QED BY <2>1 DEF Outset, Knowledge
<1>7. k \in [0..0 -> Knowledge] /\ k[0] = Outset
  <2> HIDE DEF Outset
  <2> QED BY <1>6
<1> HIDE DEF r, k
<1>8. \A n \in 1..Len(order) : n \in 0..Len(order) /\ n - 1 \in 0..Len(order) BY <1>4
<1>9. Listing(r, order, check.used) BY <1>2, <1>5, <1>8 DEF Listing
<1>10. Walk(k, Database, Outset, r[tried]) BY <1>2, <1>5, <1>7 DEF Walk
<1>11. k[Len(r[tried])].state = "open" /\ k[Len(r[tried])].true = check.units
  BY <1>2, <1>5, <1>7 DEF Outset
<1>12. Trace(order, tried, check.used, Database, Outset, "open", check.units)
  BY <1>2, <1>5, <1>7, <1>9, <1>10, <1>11 DEF Trace
<1>13. CheckerFollows BY <1>2, <1>12 DEF CheckerFollows
<1> QED BY <1>1, <1>3, <1>13 DEF FullInv

\* A candidate that is used is one the checker can follow.
LEMMA FollowRight ==
  ASSUME IInv, NEW name \in Names, Present(name), NEW k \in Knowledge,
         k.state = "open", k.true = check.units
  PROVE  /\ Undecided(check, hints[name]) = {} =>
              Follow(Database, k, name) = [k EXCEPT !.state = "conflict"]
         /\ Propagates(check, hints[name]) =>
              Follow(Database, k, name) = [k EXCEPT !.true = @ \cup Undecided(check, hints[name])]
<1>1. name \in DOMAIN Database /\ Database[name] = hints[name].clause BY DEF Database
<1> DEFINE left == {l \in Database[name] : -l \notin k.true}
<1>2. left = Undecided(check, hints[name]) BY <1>1 DEF Undecided
<1>3. Propagates(check, hints[name]) <=> \E l \in left : left = {l}
  BY <1>1, <1>2 DEF Propagates, Undecided
<1>4. Follow(Database, k, name) =
        IF left = {} THEN [k EXCEPT !.state = "conflict"]
        ELSE IF \E l \in left : left = {l} THEN [k EXCEPT !.true = @ \cup left]
        ELSE [k EXCEPT !.state = "failed"]
  BY <1>1 DEF Follow
<1> HIDE DEF left
<1> QED BY <1>2, <1>3, <1>4

\* A candidate that is not used changes nothing.
LEMMA TraceSame ==
  ASSUME NEW o \in Seq(Names), NEW t \in Nat, t < Len(o), NEW used, NEW db, NEW start,
         NEW verdict, NEW units, Trace(o, t, used, db, start, verdict, units)
  PROVE  Trace(o, t + 1, used, db, start, verdict, units)
<1>0. Len(o) \in Nat BY LenProperties
<1>1. PICK r \in [0..Len(o) -> Seq(Names)] : \E k \in [0..Len(r[t]) -> Knowledge] :
        /\ Listing(r, o, used) /\ \A n \in t..Len(o) : r[n] = r[t]
        /\ Walk(k, db, start, r[t]) /\ k[Len(r[t])].state = verdict
        /\ verdict = "open" => k[Len(r[t])].true = units
  BY DEF Trace
<1>2. r[t + 1] = r[t] /\ \A n \in (t + 1)..Len(o) : r[n] = r[t] BY <1>0, <1>1
<1> QED BY <1>1, <1>2 DEF Trace

\* A candidate that is used is one hint more.
LEMMA TraceLonger ==
  ASSUME NEW o \in Seq(Names), IsInjective(o), NEW t \in Nat, t < Len(o),
         NEW used, used \subseteq {o[n] : n \in 1..t}, NEW db, NEW start, NEW units,
         Trace(o, t, used, db, start, "open", units),
         NEW k1 \in Knowledge,
         \A k \in Knowledge : k.state = "open" /\ k.true = units => k1 = Follow(db, k, o[t + 1]),
         NEW more, k1.state = "open" => k1.true = more
  PROVE  Trace(o, t + 1, used \cup {o[t + 1]}, db, start, k1.state, more)
<1> DEFINE name == o[t + 1]
           now == used \cup {name}
<1>1. /\ Len(o) \in Nat /\ t \in 0..Len(o) /\ t + 1 \in 1..Len(o) /\ DOMAIN o = 1..Len(o)
      /\ t + 1 \in 0..Len(o)
  BY LenProperties
<1>2. PICK r \in [0..Len(o) -> Seq(Names)] : \E k \in [0..Len(r[t]) -> Knowledge] :
        /\ Listing(r, o, used) /\ \A n \in t..Len(o) : r[n] = r[t]
        /\ Walk(k, db, start, r[t]) /\ k[Len(r[t])].state = "open"
        /\ k[Len(r[t])].true = units
  BY DEF Trace
<1> DEFINE a == r[t]
           m == Len(a)
<1>3. PICK k \in [0..m -> Knowledge] :
        /\ Listing(r, o, used) /\ Walk(k, db, start, a) /\ k[m].state = "open" /\ k[m].true = units
  BY <1>2
<1>4. a \in Seq(Names) /\ m \in Nat BY <1>1, LenProperties
<1>5. name \in Names BY <1>1, ElementOfSeq
<1>6. /\ Append(a, name) \in Seq(Names) /\ Len(Append(a, name)) = m + 1
      /\ \A n \in 1..m : Append(a, name)[n] = a[n]
      /\ Append(a, name)[m + 1] = name
  BY <1>4, <1>5, AppendProperties
<1> DEFINE b == Append(a, name)
           r2 == [n \in 0..Len(o) |-> IF n <= t THEN r[n] ELSE b]
           k2 == [n \in 0..(m + 1) |-> IF n <= m THEN k[n] ELSE k1]
<1>7. r2 \in [0..Len(o) -> Seq(Names)] BY <1>6
<1>8. k2 \in [0..(m + 1) -> Knowledge] BY <1>4
<1>9. /\ \A n \in 0..t : r2[n] = r[n]
      /\ \A n \in (t + 1)..Len(o) : r2[n] = b
  BY <1>1
<1>10. (\A n \in 0..m : k2[n] = k[n]) /\ k2[m + 1] = k1 BY <1>4
<1>11. k1 = Follow(db, k[m], name)
  <2>1. k[m] \in Knowledge BY <1>3, <1>4
  <2> QED BY <2>1, <1>3
<1> HIDE DEF r2, k2, a, m, b, name
<1>12. \A n \in 1..Len(o) : o[n] = name => n = t + 1 BY <1>1 DEF IsInjective, name
<1>13. \A n \in 1..Len(o) : o[n] \in used => n <= t
  <2> SUFFICES ASSUME NEW n \in 1..Len(o), o[n] \in used PROVE n <= t OBVIOUS
  <2>1. PICK i \in 1..t : o[n] = o[i] OBVIOUS
  <2>2. i \in DOMAIN o /\ n \in DOMAIN o BY <1>1
  <2>3. n = i BY <2>1, <2>2 DEF IsInjective
  <2> QED BY <2>3
<1>14. \A n \in 1..Len(o) : o[n] \in now <=> (n <= t /\ o[n] \in used) \/ n = t + 1
  BY <1>1, <1>12, <1>13 DEF name
<1> HIDE DEF now
<1>15. Listing(r2, o, now)
  <2>1. r2[0] = <<>> BY <1>1, <1>3, <1>9 DEF Listing
  <2>2. ASSUME NEW n \in 1..Len(o)
        PROVE  r2[n] = IF o[n] \in now THEN Append(r2[n - 1], o[n]) ELSE r2[n - 1]
    <3>1. CASE n <= t
      <4>1. r2[n] = r[n] /\ r2[n - 1] = r[n - 1] BY <3>1, <1>1, <1>9
      <4>2. o[n] \in now <=> o[n] \in used BY <3>1, <1>1, <1>14
      <4> QED BY <4>1, <4>2, <1>3 DEF Listing
    <3>2. CASE n = t + 1
      <4>1. n \in (t + 1)..Len(o) BY <3>2, <1>1
      <4>2. r2[n] = b BY <4>1, <1>9
      <4>3. n - 1 = t /\ t \in 0..t BY <3>2
      <4>4. r2[n - 1] = a BY <4>3, <1>9 DEF a
      <4>5. o[n] = name /\ o[n] \in now BY <3>2, <1>14 DEF name
      <4> QED BY <4>2, <4>4, <4>5 DEF b
    <3>3. CASE n > t + 1
      <4>1. n \in (t + 1)..Len(o) /\ n - 1 \in (t + 1)..Len(o) BY <3>3, <1>1
      <4>2. o[n] \notin now BY <3>3, <1>14
      <4> QED BY <4>1, <4>2, <1>9
    <3> QED BY <3>1, <3>2, <3>3, <1>1
  <2> QED BY <2>1, <2>2 DEF Listing
<1>16. r2[t + 1] = b /\ \A n \in (t + 1)..Len(o) : r2[n] = r2[t + 1]
  <2>1. t + 1 \in (t + 1)..Len(o) BY <1>1
  <2> QED BY <2>1, <1>9
<1>17. Len(b) = m + 1 BY <1>6 DEF b
<1>18. Walk(k2, db, start, b)
  <2>1. k2[0] = start BY <1>3, <1>4, <1>10 DEF Walk
  <2>2. ASSUME NEW n \in 1..(m + 1) PROVE k2[n] = Follow(db, k2[n - 1], b[n])
    <3>1. CASE n <= m
      <4>0. n \in 1..m BY <3>1
      <4>1. k2[n] = k[n] /\ k2[n - 1] = k[n - 1] BY <3>1, <1>4, <1>10
      <4>2. b[n] = a[n] BY <4>0, <1>6 DEF b
      <4>3. k[n] = Follow(db, k[n - 1], a[n]) BY <4>0, <1>3 DEF Walk, m
      <4> QED BY <4>1, <4>2, <4>3
    <3>2. CASE n = m + 1
      <4>0. m \in Nat BY <1>4
      <4>1. n - 1 = m BY <4>0, <3>2
      <4>2. k2[n - 1] = k[m]
        <5>1. m \in 0..m BY <4>0
        <5> QED BY <5>1, <4>1, <1>10
      <4>3. b[n] = name BY <3>2, <1>6 DEF b
      <4> QED BY <3>2, <4>2, <4>3, <1>10, <1>11
    <3>3. n <= m \/ n = m + 1 BY <1>4
    <3> QED BY <3>1, <3>2, <3>3
  <2> QED BY <2>1, <2>2, <1>17 DEF Walk
<1>19. /\ r2 \in [0..Len(o) -> Seq(Names)] /\ k2 \in [0..Len(r2[t + 1]) -> Knowledge]
       /\ Listing(r2, o, now) /\ \A n \in (t + 1)..Len(o) : r2[n] = r2[t + 1]
       /\ Walk(k2, db, start, r2[t + 1]) /\ k2[Len(r2[t + 1])] = k1
  BY <1>7, <1>8, <1>10, <1>15, <1>16, <1>17, <1>18
<1>20. Trace(o, t + 1, now, db, start, k1.state, more)
  BY <1>19 DEF Trace
<1> QED BY <1>20 DEF now, name

\* A round that marks a candidate is one more hint read; every other leaves the hints
\* alone, or ends the search without a conflict.
LEMMA StepFull == FullInv /\ [Next]_vars => FullInv'
<1> SUFFICES ASSUME FullInv, [Next]_vars PROVE FullInv' OBVIOUS
<1>1. IInv /\ IInv' /\ OrderRight /\ CheckerFollows BY StepIInv DEF FullInv
<1>2. CASE UNCHANGED vars
  <2>1. UNCHANGED <<target, hints, order, check, tried>> BY <1>2 DEF vars
  <2>2. Database' = Database /\ Outset' = Outset BY <2>1 DEF Database, Present, Outset
  <2>3. OrderRight' BY <1>1, <2>1 DEF OrderRight, Present
  <2>4. CheckerFollows' BY <1>1, <2>1, <2>2 DEF CheckerFollows
  <2> QED BY <1>1, <2>3, <2>4 DEF FullInv
<1>3. CASE Try
  <2> DEFINE t == tried
             name == order[t + 1]
             hint == hints[name]
             units == check.units
             used == check.used
             more == Undecided(check, hint)
             Traces(n, u, v, w) == Trace(order, n, u, Database, Outset, v, w)
  <2>1. /\ check.verdict = "open" /\ t \in Nat /\ t < Len(order) /\ tried' = t + 1
        /\ check' = RupStep(check, name, hint) /\ UNCHANGED <<target, hints, order>>
        /\ order \in Seq(Names) /\ Len(order) \in Nat
    BY <1>1, <1>3, LenProperties DEF Try, IInv, TypeOK
  <2>2. Database' = Database /\ Outset' = Outset BY <2>1 DEF Database, Present, Outset
  <2>3. name \in Names
    <3>1. t + 1 \in 1..Len(order) BY <2>1
    <3> QED BY <3>1, <2>1, ElementOfSeq
  <2>4. /\ check = [units |-> units, used |-> used, verdict |-> "open"]
        /\ units \subseteq Literals
    BY <1>1, <2>1 DEF IInv, TypeOK
  <2>5. IsInjective(order) BY <1>1, RupAssumption DEF OrderRight
  <2>6. used \subseteq {order[n] : n \in 1..t} BY <1>1 DEF OrderRight
  <2>7. Traces(t, used, "open", units) BY <1>1, <2>1 DEF CheckerFollows
  <2>8. ASSUME NEW v \in {"open", "conflict"}, check'.verdict = v,
               Traces(t + 1, check'.used, v, check'.units)
        PROVE  CheckerFollows'
    BY <2>1, <2>2, <2>8 DEF CheckerFollows
  <2>9. ASSUME check'.used \subseteq used \cup {name} PROVE OrderRight'
    <3>1. \A n \in 1..t : n \in 1..(t + 1) BY <2>1
    <3>2. name = order[t + 1] /\ t + 1 \in 1..(t + 1) BY <2>1
    <3> HIDE DEF name
    <3>3. check'.used \subseteq {order[n] : n \in 1..(t + 1)} BY <2>6, <2>9, <3>1, <3>2
    <3> QED BY <1>1, <2>1, <3>3 DEF OrderRight, Present
  <2>10. RoundCases(check, name, hint, check') BY <2>1, RoundShape
  <2> HIDE DEF name, hint, units, used, more
  <2>11. CASE check' = check
    <3>1. check'.used = used /\ check'.units = units /\ check'.verdict = "open" BY <2>11, <2>4
    <3>2. Traces(t + 1, used, "open", units)
      <4> HIDE DEF t
      <4> QED BY <2>1, <2>7, TraceSame
    <3>3. CheckerFollows' BY <2>8, <3>1, <3>2
    <3>4. OrderRight' BY <2>9, <3>1
    <3> QED BY <1>1, <3>3, <3>4 DEF FullInv
  <2>12. CASE \/ check' = [check EXCEPT !.verdict = "satisfied"]
              \/ check' = [check EXCEPT !.verdict = "overflow"]
    <3>1. check'.used = used /\ check'.verdict \in {"satisfied", "overflow"} BY <2>12, <2>4
    <3>2. CheckerFollows' BY <3>1 DEF CheckerFollows
    <3>3. OrderRight' BY <2>9, <3>1
    <3> QED BY <1>1, <3>2, <3>3 DEF FullInv
  <2>13. ASSUME hint.id # TAUTOLOGY, NEW k1 \in Knowledge,
                check'.used = used \cup {name}, check'.verdict = k1.state,
                k1.state \in {"open", "conflict"},
                k1.state = "open" => k1.true = check'.units,
                \A k \in Knowledge : k.state = "open" /\ k.true = units =>
                    k1 = Follow(Database, k, name)
         PROVE  FullInv'
    <3>1. Traces(t + 1, used \cup {name}, k1.state, check'.units)
      <4> HIDE DEF t
      <4>1. \A k \in Knowledge : k.state = "open" /\ k.true = units =>
              k1 = Follow(Database, k, order[t + 1])
        BY <2>13 DEF name
      <4> DEFINE u == check'.units
      <4>2. /\ order \in Seq(Names) /\ t \in Nat /\ t < Len(order) /\ k1 \in Knowledge
            /\ k1.state = "open" => k1.true = u
            /\ Trace(order, t, used, Database, Outset, "open", units)
        BY <2>1, <2>7, <2>13
      <4> HIDE DEF u
      <4>3. Trace(order, t + 1, used \cup {order[t + 1]}, Database, Outset, k1.state, u)
        BY <2>5, <2>6, <4>1, <4>2, TraceLonger, Zenon
      <4> QED BY <4>3 DEF name, u
    <3>2. CheckerFollows' BY <2>8, <2>13, <3>1
    <3>3. OrderRight' BY <2>9, <2>13
    <3> QED BY <1>1, <3>2, <3>3 DEF FullInv
  <2>14. ASSUME hint.id # TAUTOLOGY, NEW k \in Knowledge, k.state = "open", k.true = units
         PROVE  /\ more = {} => Follow(Database, k, name) = [true |-> units, state |-> "conflict"]
                /\ Propagates(check, hint) =>
                     Follow(Database, k, name) = [true |-> units \cup more, state |-> "open"]
    <3>1. k = [true |-> units, state |-> "open"] BY <2>14 DEF Knowledge
    <3>2. Present(name) BY <2>14 DEF Present, hint
    <3>3. /\ more = {} => Follow(Database, k, name) = [k EXCEPT !.state = "conflict"]
          /\ Propagates(check, hint) => Follow(Database, k, name) = [k EXCEPT !.true = @ \cup more]
      <4>1. k.true = check.units BY <2>14 DEF units
      <4> QED BY <1>1, <2>3, <2>14, <3>2, <4>1, FollowRight DEF more, hint
    <3> QED BY <3>1, <3>3
  <2>15. CASE /\ hint.id # TAUTOLOGY /\ Undecided(check, hint) = {}
              /\ check' = [check EXCEPT !.verdict = "conflict", !.used = @ \cup {name}]
    <3> DEFINE k1 == [true |-> units, state |-> "conflict"]
    <3>1. k1 \in Knowledge /\ k1.state = "conflict" BY <2>4 DEF Knowledge
    <3>2. check'.used = used \cup {name} /\ check'.verdict = "conflict" BY <2>4, <2>15
    <3>3. more = {} BY <2>15 DEF more
    <3>4. \A k \in Knowledge : k.state = "open" /\ k.true = units => k1 = Follow(Database, k, name)
      BY <2>14, <2>15, <3>3
    <3> HIDE DEF k1
    <3> QED BY <2>13, <2>15, <3>1, <3>2, <3>4
  <2>16. CASE /\ hint.id # TAUTOLOGY /\ \E l \in hint.clause : Undecided(check, hint) = {l}
              /\ check' = [check EXCEPT !.units = @ \cup Undecided(check, hint),
                                        !.used = @ \cup {name}]
    <3> DEFINE k1 == [true |-> units \cup more, state |-> "open"]
    <3>1. more \subseteq Literals
      <4>1. hint.clause \subseteq Literals
        BY <1>1, <2>3, <2>16, PresentClause DEF IInv, Present, hint
      <4> QED BY <4>1 DEF more, Undecided
    <3>2. k1 \in Knowledge /\ k1.state = "open" /\ k1.true = units \cup more
      BY <2>4, <3>1 DEF Knowledge
    <3>3. /\ check'.used = used \cup {name} /\ check'.verdict = "open"
          /\ check'.units = units \cup more
      BY <2>4, <2>16 DEF more
    <3>4. Propagates(check, hint) BY <2>16 DEF Propagates
    <3>5. \A k \in Knowledge : k.state = "open" /\ k.true = units => k1 = Follow(Database, k, name)
      BY <2>14, <2>16, <3>4
    <3> HIDE DEF k1
    <3> QED BY <2>13, <2>16, <3>2, <3>3, <3>5
  <2> QED BY <2>10, <2>11, <2>12, <2>15, <2>16 DEF RoundCases
<1> QED BY <1>2, <1>3 DEF Next

\* The antecedents printed are the listing of the whole order.
LEMMA AntecedentsListed ==
  ASSUME NEW o \in Seq(Names), NEW r \in [0..Len(o) -> Seq(Names)], NEW c,
         Listing(r, o, c.used), NEW h, \A name \in Names : name \in c.used => h[name].id = name
  PROVE  Antecedents(c, h, o) = r[Len(o)]
<1> DEFINE n == Len(o)
           op(ids, name) == IF name \in c.used THEN Append(ids, h[name].id) ELSE ids
           G == [ids \in Seq(Names) |-> [name \in Names |-> op(ids, name)]]
           Body(f) == [s \in SUBSET (1..n) |->
                         IF s = {} THEN <<>> ELSE op(f[s \ {Max(s)}], o[Max(s)])]
           fold == CHOOSE f : f = Body(f)
<1>0. n \in Nat /\ DOMAIN o = 1..n BY LenProperties
<1>1. \A ids \in Seq(Names), name \in Names :
         /\ op(ids, name) = IF name \in c.used THEN Append(ids, name) ELSE ids
         /\ op(ids, name) \in Seq(Names)
  BY AppendProperties
<1>2. \E f : f = Body(f)
  <2>1. G \in [Seq(Names) -> [Names -> Seq(Names)]] BY <1>1
  <2>2. FoldsOf(Seq(Names), G, <<>>, o) # {}
    <3> HIDE DEF G
    <3> QED BY <2>1, EmptySeq, FoldExists, Zenon
  <2>3. \A ids \in Seq(Names), name \in Names : G[ids][name] = op(ids, name) OBVIOUS
  <2> HIDE DEF G, op
  <2>4. PICK f \in [SUBSET (1..n) -> Seq(Names)] :
          f = [s \in SUBSET (1..n) |-> IF s = {} THEN <<>> ELSE G[f[s \ {Max(s)}]][o[Max(s)]]]
    BY <2>2 DEF FoldsOf
  <2>5. ASSUME NEW s \in SUBSET (1..n), s # {}
        PROVE  G[f[s \ {Max(s)}]][o[Max(s)]] = op(f[s \ {Max(s)}], o[Max(s)])
    <3>1. Max(s) \in 1..n BY <1>0, <2>5, MaxInSet
    <3>2. o[Max(s)] \in Names BY <3>1, ElementOfSeq
    <3>3. f[s \ {Max(s)}] \in Seq(Names) OBVIOUS
    <3> QED BY <3>2, <3>3, <2>3
  <2>6. f = Body(f) BY <2>4, <2>5
  <2> QED BY <2>6
<1>3. fold = Body(fold)
  <2> HIDE DEF Body
  <2> QED BY <1>2
<1>4. Antecedents(c, h, o) = fold[1..n]
  BY <1>0 DEF Antecedents, FoldLeft, MapThenFoldSet
<1> HIDE DEF fold
<1>5. fold[1..0] = <<>>
  <2>1. 1..0 = {} /\ {} \in SUBSET (1..n) OBVIOUS
  <2> QED BY <1>3, <2>1
<1>6. ASSUME NEW i \in 1..n PROVE fold[1..i] = op(fold[1..(i-1)], o[i])
  <2>1. 1..i \in SUBSET (1..n) BY <1>0
  <2>2. Max(1..i) = i /\ (1..i) \ {i} = 1..(i-1) /\ 1..i # {} BY <1>0, LastOfInterval
  <2>3. fold[1..i] = op(fold[(1..i) \ {Max(1..i)}], o[Max(1..i)])
    <3> HIDE DEF op
    <3> QED BY <2>1, <2>2, <1>3
  <2> QED BY <2>2, <2>3
<1> DEFINE S == {i \in 0..n : fold[1..i] = r[i]}
<1> HIDE DEF op
<1>7. 0 \in S BY <1>0, <1>5 DEF Listing
<1>8. ASSUME NEW i \in 1..n, i - 1 \in S PROVE i \in S
  <2>1. fold[1..(i-1)] = r[i - 1] BY <1>8
  <2>2. r[i - 1] \in Seq(Names) /\ o[i] \in Names BY <1>0, ElementOfSeq
  <2>3. r[i] = IF o[i] \in c.used THEN Append(r[i - 1], o[i]) ELSE r[i - 1] BY DEF Listing
  <2>4. op(r[i - 1], o[i]) = IF o[i] \in c.used THEN Append(r[i - 1], o[i]) ELSE r[i - 1]
    BY <1>1, <2>2, Zenon
  <2>5. fold[1..i] = op(fold[1..(i-1)], o[i]) BY <1>6
  <2>6. fold[1..i] = r[i] BY <2>1, <2>3, <2>4, <2>5
  <2> QED BY <2>6, <1>0
<1>9. n \in S
  <2> HIDE DEF S
  <2>1. 0..n \subseteq S BY <1>0, <1>7, <1>8, IntervalInduction
  <2> QED BY <1>0, <2>1
<1> QED BY <1>4, <1>9

\* A walk that ends in a conflict is a proof by unit propagation.
LEMMA WalkProves ==
  ASSUME NEW ids \in Seq(Names), NEW k \in [0..Len(ids) -> Knowledge], NEW db, NEW clause,
         Walk(k, db, [true |-> {-l : l \in clause}, state |-> "open"], ids),
         k[Len(ids)].state = "conflict"
  PROVE  Line!RupByHints(db, clause, ids)
<1> DEFINE n == Len(ids)
           start == [true |-> {-l : l \in clause}, state |-> "open"]
           Body(f) == [i \in 0..n |-> IF i = 0 THEN start ELSE Follow(db, f[i - 1], ids[i])]
           step == CHOOSE f : f = Body(f)
<1>0. n \in Nat BY LenProperties
<1>1. Line!RupByHints(db, clause, ids) <=> step[n].state = "conflict"
  BY DEF Line!RupByHints, Follow
<1> HIDE DEF start
<1>2. k[0] = start /\ \A i \in 1..n : k[i] = Follow(db, k[i - 1], ids[i])
  BY DEF Walk, start
<1>3. k = Body(k)
  <2>1. \A i \in 0..n : k[i] = IF i = 0 THEN start ELSE Follow(db, k[i - 1], ids[i])
    BY <1>0, <1>2
  <2> QED BY <2>1
<1>4. step = Body(step)
  <2> HIDE DEF Body
  <2> QED BY <1>3
<1> HIDE DEF step
<1>5. step[0] = start /\ \A i \in 1..n : step[i] = Follow(db, step[i - 1], ids[i])
  <2>1. step = [i \in 0..n |-> IF i = 0 THEN start ELSE Follow(db, step[i - 1], ids[i])] BY <1>4
  <2> QED BY <2>1, <1>0
<1> DEFINE S == {i \in 0..n : step[i] = k[i]}
<1>6. 0 \in S BY <1>0, <1>2, <1>5
<1>7. ASSUME NEW i \in 1..n, i - 1 \in S PROVE i \in S BY <1>0, <1>2, <1>5, <1>7
<1>8. n \in S
  <2> HIDE DEF S
  <2>1. 0..n \subseteq S BY <1>0, <1>6, <1>7, IntervalInduction
  <2> QED BY <1>0, <2>1
<1> QED BY <1>1, <1>8

\* The antecedents that rup_check finds are accepted as hints by a checker that has their
\* clauses, in the order they are printed in: justify_apply needs no second search.
THEOREM AntecedentsAreProof == Spec => []AntecedentsSuffice
<1>1. FullInv => AntecedentsSuffice
  <2> SUFFICES ASSUME FullInv, check.verdict = "conflict"
               PROVE  Line!RupByHints(Database, target, Antecedents(check, hints, order))
    BY DEF AntecedentsSuffice, Database
  <2>1. IInv /\ OrderRight /\ Trace(order, tried, check.used, Database, Outset, "conflict", check.units)
    BY DEF FullInv, CheckerFollows
  <2>2. PICK r \in [0..Len(order) -> Seq(Names)] : \E k \in [0..Len(r[tried]) -> Knowledge] :
          /\ Listing(r, order, check.used) /\ \A n \in tried..Len(order) : r[n] = r[tried]
          /\ Walk(k, Database, Outset, r[tried]) /\ k[Len(r[tried])].state = "conflict"
    BY <2>1 DEF Trace
  <2>3. /\ order \in Seq(Names) /\ Len(order) \in Nat /\ tried \in 0..Len(order)
        /\ check.used \subseteq {n \in Names : Present(n)}
    BY <2>1, LenProperties DEF IInv, TypeOK
  <2>4. r[Len(order)] = r[tried] /\ r[tried] \in Seq(Names) BY <2>2, <2>3
  <2>5. \A name \in Names : name \in check.used => hints[name].id = name
    BY <2>1, <2>3 DEF OrderRight
  <2>6. Antecedents(check, hints, order) = r[tried]
    <3>1. Listing(r, order, check.used) BY <2>2
    <3>2. Antecedents(check, hints, order) = r[Len(order)]
      BY <2>3, <2>5, <3>1, AntecedentsListed, Zenon
    <3> QED BY <3>2, <2>4
  <2>7. PICK k \in [0..Len(r[tried]) -> Knowledge] :
          Walk(k, Database, Outset, r[tried]) /\ k[Len(r[tried])].state = "conflict"
    BY <2>2
  <2>8. Line!RupByHints(Database, target, r[tried])
    BY <2>4, <2>7, WalkProves DEF Outset
  <2> QED BY <2>6, <2>8
<1> QED BY <1>1, InitFull, StepFull, PTL DEF Spec
============================================================================
