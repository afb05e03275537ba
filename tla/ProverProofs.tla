--------------------------- MODULE ProverProofs ---------------------------
(***************************************************************************)
(* Proofs about ProverSession: for any input clauses, proof formats and    *)
(* number of sessions, every line the generator prints is one a checker    *)
(* accepts, a refutation once printed is never deleted, and the counting   *)
(* of live clauses agrees with what a checker holds.                       *)
(*                                                                         *)
(* The invariant, IInv, relates four things the code keeps apart: what the *)
(* client still owes a deletion for (held and deferred), what the          *)
(* generator stores, what a checker of the file knows, and the texts the   *)
(* client derived.                                                         *)
(*                                                                         *)
(* The client may go on after the empty clause in every format.  A FRAT    *)
(* proof then knows clauses it has not printed (GoesOn), and the lines it  *)
(* prints are no longer claimed to be acceptable; what the checker holds   *)
(* is followed all the same, so that the other properties keep their       *)
(* meaning there.                                                          *)
(***************************************************************************)
EXTENDS ProverSession, Induction

----------------------------------------------------------------------------
(* The values the variables range over.                                    *)

Literals == {l \in Int : l # 0 /\ -TAUTOLOGY < l /\ l < TAUTOLOGY}
Ids == 1..(Len(Inputs) + MaxDerived)
Clauses == SUBSET Literals
ClauseMaps == UNION {[D -> Clauses] : D \in SUBSET Ids}

Lines ==
    [kind : {"add"}, id : Ids, clause : Clauses, hints : Seq(Ids)]
      \cup [kind : {"delete"}, ids : Seq(Ids)]
      \cup [kind : {"finalize"}, id : Ids]

Checkers == [db : ClauseMaps, last : Nat, final : SUBSET Ids]

Generators ==
    [type : Types, variable : Nat, counter : Nat, live : Int, deletions : Int,
     stored : ClauseMaps, deferred : Seq(Ids), empty : Ids \cup {TAUTOLOGY},
     finalized : BOOLEAN, out : Seq(Lines)]

\* A clause map is a function from identifiers to clauses, whatever its domain.
LEMMA ClauseMapDef ==
  \A f : f \in ClauseMaps <=> /\ DOMAIN f \subseteq Ids
                              /\ f = [i \in DOMAIN f |-> f[i]]
                              /\ \A i \in DOMAIN f : f[i] \in Clauses
<1>1. ASSUME NEW f, f \in ClauseMaps
      PROVE  /\ DOMAIN f \subseteq Ids
             /\ f = [i \in DOMAIN f |-> f[i]]
             /\ \A i \in DOMAIN f : f[i] \in Clauses
  <2>1. PICK D \in SUBSET Ids : f \in [D -> Clauses] BY <1>1 DEF ClauseMaps
  <2> QED BY <2>1
<1>2. ASSUME NEW f, DOMAIN f \subseteq Ids, f = [i \in DOMAIN f |-> f[i]],
             \A i \in DOMAIN f : f[i] \in Clauses
      PROVE  f \in ClauseMaps
  <2>1. f \in [DOMAIN f -> Clauses] BY <1>2
  <2> QED BY <2>1, <1>2 DEF ClauseMaps
<1> QED BY <1>1, <1>2

\* Removing clauses from a map leaves a map.
LEMMA ClauseMapRestricted ==
  ASSUME NEW f \in ClauseMaps, NEW D, D \subseteq DOMAIN f
  PROVE  [i \in D |-> f[i]] \in ClauseMaps
<1> DEFINE g == [i \in D |-> f[i]]
<1>1. DOMAIN g = D OBVIOUS
<1>2. g = [i \in DOMAIN g |-> g[i]] OBVIOUS
<1>3. \A i \in D : g[i] \in Clauses BY ClauseMapDef
<1>4. D \subseteq Ids BY ClauseMapDef
<1> HIDE DEF g
<1>5. g \in ClauseMaps BY <1>1, <1>2, <1>3, <1>4, ClauseMapDef
<1> QED BY <1>5 DEF g

\* Adding a clause to a map, or replacing one, leaves a map.
LEMMA ClauseMapExtended ==
  ASSUME NEW f \in ClauseMaps, NEW id \in Ids, NEW clause \in Clauses
  PROVE  [i \in DOMAIN f \cup {id} |-> IF i = id THEN clause ELSE f[i]] \in ClauseMaps
<1> DEFINE g == [i \in DOMAIN f \cup {id} |-> IF i = id THEN clause ELSE f[i]]
<1>1. DOMAIN g = DOMAIN f \cup {id} OBVIOUS
<1>2. g = [i \in DOMAIN g |-> g[i]] OBVIOUS
<1>3. \A i \in DOMAIN g : g[i] \in Clauses BY ClauseMapDef
<1>4. DOMAIN g \subseteq Ids BY ClauseMapDef
<1> HIDE DEF g
<1>5. g \in ClauseMaps BY <1>1, <1>2, <1>3, <1>4, ClauseMapDef
<1> QED BY <1>5 DEF g

\* A checker that reads a line is a checker.
LEMMA AbsorbType ==
  ASSUME NEW c \in Checkers, NEW line \in Lines
  PROVE  File!Absorb(c, line) \in Checkers
<1>0. Ids \subseteq Nat BY InputsAssumption DEF Ids
<1>1. CASE line.kind = "add"
  <2>1. /\ line.id \in Ids /\ line.clause \in Clauses BY <1>1 DEF Lines
  <2>2. c.db \in ClauseMaps BY DEF Checkers
  <2> DEFINE more == [i \in DOMAIN c.db \cup {line.id} |->
                        IF i = line.id THEN line.clause ELSE c.db[i]]
  <2>3. more \in ClauseMaps BY <2>1, <2>2, ClauseMapExtended
  <2>4. File!Absorb(c, line) = [c EXCEPT !.last = line.id, !.db = more]
    BY <1>1 DEF File!Absorb
  <2>5. line.id \in Nat BY <2>1, <1>0
  <2> HIDE DEF more
  <2> DEFINE absorbed == File!Absorb(c, line)
  <2> HIDE DEF absorbed
  <2>6. absorbed = [c EXCEPT !.last = line.id, !.db = more] BY <2>4 DEF absorbed
  <2>7. absorbed \in Checkers BY <2>3, <2>5, <2>6 DEF Checkers
  <2> QED BY <2>7 DEF absorbed
<1>2. CASE line.kind = "delete"
  <2> DEFINE gone == {line.ids[i] : i \in 1..Len(line.ids)}
  <2>1. c.db \in ClauseMaps BY DEF Checkers
  <2>2. [i \in DOMAIN c.db \ gone |-> c.db[i]] \in ClauseMaps
    BY <2>1, ClauseMapRestricted
  <2>3. File!Absorb(c, line) = [c EXCEPT !.db = [i \in DOMAIN c.db \ gone |-> c.db[i]]]
    BY <1>2 DEF File!Absorb
  <2> HIDE DEF gone
  <2> QED BY <2>2, <2>3 DEF Checkers
<1>3. CASE line.kind = "finalize"
  <2>1. line.id \in Ids BY <1>3 DEF Lines
  <2>2. File!Absorb(c, line) = [c EXCEPT !.final = @ \cup {line.id}]
    BY <1>3 DEF File!Absorb
  <2> QED BY <2>1, <2>2 DEF Checkers
<1> QED BY <1>1, <1>2, <1>3 DEF Lines

\* Replaying lines is what the recursion says: the checker after line n is the one
\* after line n - 1 having read line n.
LEMMA ReplayRun ==
  ASSUME NEW c \in Checkers, NEW lines \in Seq(Lines)
  PROVE  /\ File!Replay(c, lines) \in [0..Len(lines) -> Checkers]
         /\ File!Replay(c, lines)[0] = c
         /\ \A n \in 1..Len(lines) :
              File!Replay(c, lines)[n] = File!Absorb(File!Replay(c, lines)[n - 1], lines[n])
<1> DEFINE G == [k \in Checkers |-> [line \in Lines |-> File!Absorb(k, line)]]
           Body(h) == [n \in 0..Len(lines) |->
                         IF n = 0 THEN c ELSE File!Absorb(h[n - 1], lines[n])]
           after == CHOOSE h : h = Body(h)
<1>0. Len(lines) \in Nat BY LenProperties
<1>1. G \in [Checkers -> [Lines -> Checkers]] BY AbsorbType
<1>9. \A k \in Checkers, line \in Lines : G[k][line] = File!Absorb(k, line) OBVIOUS
<1>2. PICK h \in [0..Len(lines) -> Checkers] :
        h[0] = c /\ \A n \in 1..Len(lines) : h[n] = G[h[n-1]][lines[n]]
  <2> HIDE DEF G
  <2>1. RunsOf(Checkers, G, c, lines) # {} BY <1>1, RunExists, Zenon
  <2> QED BY <2>1 DEF RunsOf
<1>3. \A n \in 1..Len(lines) : h[n] = File!Absorb(h[n-1], lines[n])
  <2> TAKE n \in 1..Len(lines)
  <2>1. lines[n] \in Lines BY ElementOfSeq
  <2>2. h[n-1] \in Checkers BY <1>0
  <2> HIDE DEF G
  <2> QED BY <2>1, <2>2, <1>2, <1>9
<1>4. h = Body(h) 
  <2>1. \A n \in 0..Len(lines) : h[n] = IF n = 0 THEN c ELSE File!Absorb(h[n - 1], lines[n])
    BY <1>0, <1>2, <1>3
  <2> QED BY <2>1
<1>5. after = Body(after)
  <2> HIDE DEF Body
  <2> QED BY <1>4
<1>6. File!Replay(c, lines) = after BY DEF File!Replay
<1> HIDE DEF after
<1>7. /\ after[0] = c
      /\ \A n \in 1..Len(lines) : after[n] = File!Absorb(after[n - 1], lines[n])
      /\ DOMAIN after = 0..Len(lines)
      /\ after = [n \in 0..Len(lines) |-> after[n]]
  <2>1. after = [n \in 0..Len(lines) |->
                   IF n = 0 THEN c ELSE File!Absorb(after[n - 1], lines[n])]
    BY <1>5
  <2> QED BY <2>1, <1>0
<1>8. \A n \in 0..Len(lines) : after[n] \in Checkers
  <2> DEFINE S == {n \in 0..Len(lines) : after[n] \in Checkers}
  <2>1. 0 \in S BY <1>0, <1>7
  <2>2. ASSUME NEW n \in 1..Len(lines), n - 1 \in S PROVE n \in S
    <3>1. lines[n] \in Lines BY ElementOfSeq
    <3>2. File!Absorb(after[n-1], lines[n]) \in Checkers BY <2>2, <3>1, AbsorbType
    <3> QED BY <3>2, <1>7, <1>0
  <2>3. 0..Len(lines) \subseteq S
    <3> HIDE DEF S
    <3> QED BY <1>0, <2>1, <2>2, IntervalInduction
  <2> QED BY <2>3
<1> QED BY <1>6, <1>7, <1>8

\* A step that prints nothing leaves the checker as it is.
LEMMA NothingPrinted ==
  ASSUME NEW c \in Checkers
  PROVE  File!AcceptsAll(c, <<>>) /\ File!AbsorbAll(c, <<>>) = c
<1>1. <<>> \in Seq(Lines) /\ Len(<<>>) = 0 BY EmptySeq
<1>2. File!Replay(c, <<>>)[0] = c BY <1>1, ReplayRun
<1> QED BY <1>1, <1>2 DEF File!AcceptsAll, File!AbsorbAll

\* Reading one line more is reading the lines and then that line: this lets the calls
\* a handler makes be followed one by one.
LEMMA LinesAccumulate ==
  ASSUME NEW c \in Checkers, NEW lines \in Seq(Lines), NEW line \in Lines
  PROVE  /\ File!AbsorbAll(c, lines) \in Checkers
         /\ File!AbsorbAll(c, Append(lines, line)) =
              File!Absorb(File!AbsorbAll(c, lines), line)
         /\ File!AcceptsAll(c, Append(lines, line)) <=>
              /\ File!AcceptsAll(c, lines)
              /\ File!Accepts(File!AbsorbAll(c, lines), line)
<1> DEFINE more == Append(lines, line)
           n == Len(lines)
           before == File!Replay(c, lines)
           after  == File!Replay(c, more)
<1>0. n \in Nat BY LenProperties
<1>1. /\ more \in Seq(Lines) /\ Len(more) = n + 1
      /\ \A i \in 1..n : more[i] = lines[i]
      /\ more[n + 1] = line
  BY AppendProperties
<1>2. /\ before \in [0..n -> Checkers] /\ before[0] = c
      /\ \A i \in 1..n : before[i] = File!Absorb(before[i - 1], lines[i])
  BY ReplayRun
<1> HIDE DEF more
<1>3. /\ after[0] = c
      /\ \A i \in 1..(n + 1) : after[i] = File!Absorb(after[i - 1], more[i])
  <2>1. /\ after[0] = c
        /\ \A i \in 1..Len(more) : after[i] = File!Absorb(after[i - 1], more[i])
    BY <1>1, ReplayRun
  <2> HIDE DEF after
  <2> QED BY <1>1, <2>1
<1>4. \A i \in 0..n : after[i] = before[i]
  <2> DEFINE S == {i \in 0..n : after[i] = before[i]}
  <2> HIDE DEF before, after, n
  <2>1. 0 \in S BY <1>0, <1>2, <1>3
  <2>2. ASSUME NEW i \in 1..n, i - 1 \in S PROVE i \in S
    <3>1. i \in 1..(n + 1) BY <1>0
    <3>2. after[i - 1] = before[i - 1] /\ more[i] = lines[i] BY <2>2, <1>1
    <3>3. after[i] = before[i] BY <3>1, <3>2, <1>2, <1>3
    <3> QED BY <3>3, <1>0
  <2>3. 0..n \subseteq S
    <3> HIDE DEF S
    <3> QED BY <1>0, <2>1, <2>2, IntervalInduction
  <2> QED BY <2>3
<1>5. File!AbsorbAll(c, lines) = before[n] BY DEF File!AbsorbAll
<1>6. File!AbsorbAll(c, more) = after[n + 1] BY <1>1 DEF File!AbsorbAll
<1>7. File!AcceptsAll(c, lines) <=> \A i \in 1..n : File!Accepts(before[i - 1], lines[i])
  BY DEF File!AcceptsAll
<1>8. File!AcceptsAll(c, more) <=> \A i \in 1..(n + 1) : File!Accepts(after[i - 1], more[i])
  BY <1>1 DEF File!AcceptsAll
<1> HIDE DEF before, after, n
<1>9. after[n + 1] = File!Absorb(before[n], line)
  BY <1>0, <1>1, <1>3, <1>4
<1>10. (\A i \in 1..(n + 1) : File!Accepts(after[i - 1], more[i])) <=>
         /\ \A i \in 1..n : File!Accepts(before[i - 1], lines[i])
         /\ File!Accepts(before[n], line)
  <2>1. \A i \in 1..n : /\ i \in 1..(n + 1) /\ i - 1 \in 0..n
                         /\ after[i - 1] = before[i - 1] /\ more[i] = lines[i]
    BY <1>0, <1>1, <1>4
  <2>2. /\ n + 1 \in 1..(n + 1) /\ (n + 1) - 1 = n /\ n \in 0..n
        /\ after[n] = before[n] /\ more[n + 1] = line
    BY <1>0, <1>1, <1>4
  <2>3. \A i \in 1..(n + 1) : i \in 1..n \/ i = n + 1 BY <1>0
  <2> QED BY <2>1, <2>2, <2>3
<1>11. before[n] \in Checkers BY <1>0, <1>2
<1> QED BY <1>5, <1>6, <1>7, <1>8, <1>9, <1>10, <1>11 DEF more

----------------------------------------------------------------------------
\* No identifier is the one that stands for truth.
LEMMA IdsAreNot == /\ Ids \subseteq Nat \ {0} /\ TAUTOLOGY \notin Ids /\ \A id \in Ids : id < TAUTOLOGY
BY InputsAssumption, RangeAssumption, LenProperties DEF Ids, TAUTOLOGY

\* clean_hints changes nothing in a list of identifiers of clauses.
LEMMA CleanHintsOfIds ==
  ASSUME NEW ids \in Seq(Ids)
  PROVE  CleanHints(ids) = ids
<1> DEFINE n == Len(ids)
           Body(f) == [i \in 0..n |-> IF i = 0 THEN <<>>
                                      ELSE IF ids[i] = TAUTOLOGY THEN f[i - 1]
                                           ELSE Append(f[i - 1], ids[i])]
           kept == CHOOSE f : f = Body(f)
           firsts == [i \in 0..n |-> SubSeq(ids, 1, i)]
<1>0. n \in Nat /\ DOMAIN ids = 1..n BY LenProperties
<1>1. \A i \in 1..n : ids[i] \in Ids /\ ids[i] # TAUTOLOGY BY IdsAreNot, ElementOfSeq
<1>2. SubSeq(ids, 1, 0) = <<>> BY SubSeqEmpty
<1>3. ASSUME NEW i \in 1..n PROVE SubSeq(ids, 1, i) = Append(SubSeq(ids, 1, i - 1), ids[i])
  <2>1. SubSeq(ids, 1, i - 1) \in Seq(Ids) BY <1>0, SubSeqProperties, ElementOfSeq
  <2>2. Append(SubSeq(ids, 1, i - 1), ids[i]) = SubSeq(ids, 1, i - 1) \o <<ids[i]>>
    BY <1>1, <2>1, AppendIsConcat
  <2>3. SubSeq(ids, 1, i) = SubSeq(ids, 1, i - 1) \o <<ids[i]>> BY <1>0, SubSeqRecursiveSecond
  <2> QED BY <2>2, <2>3
<1>4. firsts = Body(firsts)
  <2>1. ASSUME NEW i \in 0..n, i # 0
        PROVE  i \in 1..n /\ firsts[i] = Append(firsts[i - 1], ids[i]) /\ ids[i] # TAUTOLOGY
    <3>1. i \in 1..n /\ i - 1 \in 0..n BY <1>0, <2>1
    <3> QED BY <3>1, <1>1, <1>3
  <2>2. \A i \in 0..n : firsts[i] = IF i = 0 THEN <<>>
                                    ELSE IF ids[i] = TAUTOLOGY THEN firsts[i - 1]
                                         ELSE Append(firsts[i - 1], ids[i])
    <3> HIDE DEF n
    <3>1. n \in Nat BY <1>0
    <3>2. 0 \in 0..n BY <3>1
    <3>3. firsts[0] = <<>> BY <1>2, <3>2
    <3> HIDE DEF firsts
    <3> QED BY <2>1, <3>3
  <2>3. firsts = [i \in 0..n |-> firsts[i]] OBVIOUS
  <2> HIDE DEF firsts
  <2> QED BY <2>2, <2>3
<1>5. kept = Body(kept)
  <2>1. \E f : f = Body(f) BY <1>4
  <2> HIDE DEF Body
  <2> QED BY <2>1
<1>6. CleanHints(ids) = kept[n]
  BY DEF CleanHints
<1> HIDE DEF kept
<1> DEFINE S == {i \in 0..n : kept[i] = SubSeq(ids, 1, i)}
<1>7. 0 \in S
  <2>1. 0 \in 0..n BY <1>0
  <2>2. kept[0] = <<>> BY <1>5, <2>1
  <2> QED BY <1>2, <2>1, <2>2
<1>8. ASSUME NEW i \in 1..n, i - 1 \in S PROVE i \in S
  <2>1. i \in 0..n /\ i # 0 BY <1>0
  <2>2. kept[i] = Append(kept[i - 1], ids[i]) BY <1>1, <1>5, <2>1
  <2> QED BY <1>3, <1>8, <2>1, <2>2
<1>9. n \in S
  <2> HIDE DEF S
  <2>1. 0..n \subseteq S BY <1>0, <1>7, <1>8, IntervalInduction
  <2> QED BY <1>0, <2>1
<1> QED BY <1>6, <1>9, SubSeqFull

----------------------------------------------------------------------------
(* What a checker knows after what p has printed, and that it accepted it. *)

Seen(c, p) == File!AbsorbAll(c, p.out)
Good(c, p) == File!AcceptsAll(c, p.out)

\* Printing a line is accepted when the checker accepts the line after those before it.
LEMMA EmitRight ==
  ASSUME NEW c \in Checkers, NEW p \in Generators, NEW line \in Lines
  PROVE  /\ Emit(p, line) \in Generators
         /\ Emit(p, line) = [p EXCEPT !.out = Append(p.out, line)]
         /\ Seen(c, p) \in Checkers
         /\ Seen(c, Emit(p, line)) = File!Absorb(Seen(c, p), line)
         /\ Good(c, Emit(p, line)) <=> Good(c, p) /\ File!Accepts(Seen(c, p), line)
<1>1. p.out \in Seq(Lines) BY DEF Generators
<1>2. Append(p.out, line) \in Seq(Lines) BY <1>1, AppendProperties
<1>3. Emit(p, line) = [p EXCEPT !.out = Append(p.out, line)] BY DEF Emit
<1>4. Emit(p, line).out = Append(p.out, line) BY <1>3 DEF Generators
<1>5. Emit(p, line) \in Generators BY <1>2, <1>3 DEF Generators
<1> QED BY <1>1, <1>3, <1>4, <1>5, LinesAccumulate DEF Seen, Good

\* What a checker sees of a generator is a checker.
LEMMA SeenType ==
  ASSUME NEW c \in Checkers, NEW p \in Generators
  PROVE  Seen(c, p) \in Checkers
<1>1. p.out \in Seq(Lines) BY DEF Generators
<1>2. Len(p.out) \in Nat BY <1>1, LenProperties
<1>3. File!Replay(c, p.out) \in [0..Len(p.out) -> Checkers] BY <1>1, ReplayRun
<1> QED BY <1>2, <1>3 DEF Seen, File!AbsorbAll

\* A deletion of ids, as the checker sees it.
Named(ids) == {ids[i] : i \in 1..Len(ids)}

\* A deletion removes the clauses it names from the checker; it is accepted when they
\* are distinct and the checker holds them.
LEMMA DeleteLineSeen ==
  ASSUME NEW c \in Checkers, NEW ids \in Seq(Ids),
         \A i, j \in 1..Len(ids) : ids[i] = ids[j] => i = j
  PROVE  /\ Line!DeleteLine(ids) \in Lines
         /\ Named(ids) \subseteq DOMAIN c.db => File!Accepts(c, Line!DeleteLine(ids))
         /\ File!Absorb(c, Line!DeleteLine(ids)) =
              [c EXCEPT !.db = [id \in DOMAIN c.db \ Named(ids) |-> c.db[id]]]
<1> DEFINE line == Line!DeleteLine(ids)
<1>0. Len(ids) \in Nat BY LenProperties
<1>1. line = [kind |-> "delete", ids |-> ids] BY DEF Line!DeleteLine
<1> HIDE DEF line
<1>2. line \in Lines /\ line.kind = "delete" /\ line.ids = ids BY <1>1 DEF Lines
<1>3. \A i \in 1..Len(ids), j \in 1..Len(ids) : j < i => ids[j] # ids[i] OBVIOUS
<1>4. \A i \in 1..Len(ids) : \A j \in 1..(i - 1) : j \in 1..Len(ids) /\ j < i BY <1>0
<1>5. Named(ids) \subseteq DOMAIN c.db => File!Accepts(c, line)
  <2>1. \A i \in 1..Len(ids) : ids[i] \in Named(ids) BY DEF Named
  <2> QED BY <2>1, <1>2, <1>3, <1>4 DEF File!Accepts
<1>6. File!Absorb(c, line) = [c EXCEPT !.db = [id \in DOMAIN c.db \ Named(ids) |-> c.db[id]]]
  BY <1>2 DEF File!Absorb, Named
<1> QED BY <1>2, <1>5, <1>6 DEF line

----------------------------------------------------------------------------
(* delete_clauses: q is p after the deletion of the clauses of gone. *)

\* While deletions are printed, all_clauses has the clauses the checker has beyond the
\* input.
StoredShown(p, k) ==
    /\ p.type = "FRAT" => DOMAIN k.db \ InputIds \subseteq DOMAIN p.stored
    /\ p.type = "DRAT" /\ p.empty = TAUTOLOGY => DOMAIN p.stored = DOMAIN k.db \ InputIds

\* A FRAT proof has no clauses but those.
Exact(p, k) == p.type = "FRAT" => DOMAIN p.stored = DOMAIN k.db \ InputIds

\* The lines are accepted and the stored clauses exact, if they were (sure) before.
Accepted(sure, c, p) == sure => Good(c, p) /\ Exact(p, Seen(c, p))

\* What no deletion changes.
SameButDeleted(p, q) ==
    /\ q.type = p.type /\ q.counter = p.counter /\ q.deferred = p.deferred
    /\ q.empty = p.empty /\ q.finalized = p.finalized /\ q.variable = p.variable

\* Checker l has the clauses of k but, at most, those of gone; it has none of these
\* when the format prints every deletion, except the empty clause.
Fewer(p, k, l, gone) ==
    /\ l.last = k.last /\ l.final = k.final
    /\ DOMAIN l.db \subseteq DOMAIN k.db
    /\ \A i \in DOMAIN l.db : l.db[i] = k.db[i]
    /\ DOMAIN k.db \ gone \subseteq DOMAIN l.db
    /\ p.type = "FRAT" \/ (p.type = "LRAT" /\ p.empty = TAUTOLOGY)
         => DOMAIN l.db \cap gone \subseteq {p.empty}
    /\ p.empty \in DOMAIN k.db => p.empty \in DOMAIN l.db
    /\ p.type # "FRAT" /\ p.empty # TAUTOLOGY => l = k

\* The lines by which p became q deleted, at most, the clauses of gone.
Deleted(sure, c, p, q, gone) ==
    /\ q \in Generators /\ Accepted(sure, c, q)
    /\ SameButDeleted(p, q) /\ q.live = p.live
    /\ Fewer(p, Seen(c, p), Seen(c, q), gone)
    /\ StoredShown(q, Seen(c, q))

\* One round of the loop of delete_clauses: the clause is deleted, or it is kept
\* because it is the empty clause, a unit clause of a DRAT proof or not stored.
LEMMA DeleteStoredRight ==
  ASSUME NEW sure \in BOOLEAN, NEW c \in Checkers, NEW p \in Generators, NEW q, NEW gone,
         NEW id \in Ids \ InputIds,
         p.type = "FRAT" \/ (p.type = "DRAT" /\ p.empty = TAUTOLOGY),
         Deleted(sure, c, p, q, gone)
  PROVE  Deleted(sure, c, p, DeleteStored(q, id), gone \cup {id})
<1> DEFINE k == Seen(c, p)
           l == Seen(c, q)
           r == DeleteStored(q, id)
           line == Line!DeleteLine(<<id>>)
<1>1. /\ q \in Generators /\ Accepted(sure, c, q) /\ SameButDeleted(p, q) /\ q.live = p.live
      /\ Fewer(p, k, l, gone) /\ StoredShown(q, l)
      /\ DOMAIN l.db \ InputIds \subseteq DOMAIN q.stored
      /\ sure => DOMAIN q.stored = DOMAIN l.db \ InputIds /\ Good(c, q)
  BY DEF Deleted, StoredShown, SameButDeleted, Accepted, Exact
<1>2. k \in Checkers /\ l \in Checkers BY <1>1, SeenType
<1>3. CASE r = q /\ (id \in DOMAIN l.db => id = q.empty \/ q.type = "DRAT")
  <2>1. Fewer(p, k, l, gone \cup {id}) BY <1>1, <1>3 DEF Fewer, SameButDeleted
  <2> QED BY <1>1, <1>3, <2>1 DEF Deleted
<1>4. CASE /\ id \in DOMAIN q.stored /\ id # q.empty
           /\ r = [Emit(q, line) EXCEPT !.stored = [i \in DOMAIN @ \ {id} |-> @[i]]]
  <2>1. sure => id \in DOMAIN l.db BY <1>1, <1>4
  <2> DEFINE less == [i \in DOMAIN q.stored \ {id} |-> q.stored[i]]
             m == [l EXCEPT !.db = [i \in DOMAIN l.db \ {id} |-> l.db[i]]]
  <2>2. <<id>> \in Seq(Ids) /\ Len(<<id>>) = 1 /\ <<id>>[1] = id OBVIOUS
  <2>3. Named(<<id>>) = {id} BY <2>2 DEF Named
  <2>4. line \in Lines /\ (sure => File!Accepts(l, line)) /\ File!Absorb(l, line) = m
    <3>2. \A i, j \in 1..Len(<<id>>) : <<id>>[i] = <<id>>[j] => i = j BY <2>2
    <3> HIDE DEF l
    <3>3. /\ line \in Lines /\ (Named(<<id>>) \subseteq DOMAIN l.db => File!Accepts(l, line))
          /\ File!Absorb(l, line) = [l EXCEPT !.db = [i \in DOMAIN l.db \ Named(<<id>>) |-> l.db[i]]]
      BY <3>2, <2>2, <1>2, DeleteLineSeen
    <3> QED BY <3>3, <2>1, <2>3
  <2> HIDE DEF line
  <2>5. /\ Emit(q, line) \in Generators
        /\ Emit(q, line) = [q EXCEPT !.out = Append(q.out, line)]
        /\ Seen(c, Emit(q, line)) = m /\ (sure => Good(c, Emit(q, line)))
    BY <1>1, <2>4, EmitRight
  <2>6. r = [Emit(q, line) EXCEPT !.stored = less] BY <1>4, <2>5, <1>1 DEF Generators
  <2>7. less \in ClauseMaps BY <1>1, ClauseMapRestricted DEF Generators
  <2>8. /\ r \in Generators /\ r.out = Emit(q, line).out
        /\ SameButDeleted(q, r) /\ r.live = q.live /\ DOMAIN r.stored = DOMAIN q.stored \ {id}
    <3> HIDE DEF r, less
    <3>1. r \in Generators BY <2>5, <2>6, <2>7 DEF Generators
    <3>2. r.stored = less BY <2>5, <2>6 DEF Generators
    <3>3. DOMAIN less = DOMAIN q.stored \ {id} BY DEF less
    <3>4. r.out = Emit(q, line).out BY <2>5, <2>6 DEF Generators
    <3>5. SameButDeleted(q, r) /\ r.live = q.live
      BY <1>1, <2>5, <2>6 DEF Generators, SameButDeleted
    <3> QED BY <3>1, <3>2, <3>3, <3>4, <3>5
  <2>9. Seen(c, r) = m /\ (sure => Good(c, r)) BY <2>5, <2>8 DEF Seen, Good
  <2> HIDE DEF r, l, k
  <2>10. /\ DOMAIN m.db = DOMAIN l.db \ {id} /\ m.last = l.last /\ m.final = l.final
         /\ \A i \in DOMAIN m.db : m.db[i] = l.db[i]
    BY <1>2 DEF Checkers
  <2> HIDE DEF m
  <2>11. Fewer(p, k, m, gone \cup {id}) BY <1>1, <1>4, <2>10 DEF Fewer, SameButDeleted
  <2>12. StoredShown(r, m) BY <1>1, <2>8, <2>10 DEF StoredShown, SameButDeleted
  <2>14. sure => Exact(r, m) BY <1>1, <2>8, <2>10 DEF Exact
  <2>13. SameButDeleted(p, r) /\ r.live = p.live BY <1>1, <2>8 DEF SameButDeleted
  <2> QED BY <2>8, <2>9, <2>11, <2>12, <2>13, <2>14 DEF Deleted, Accepted, k, r
<1> QED
  <2>1. \/ r = q /\ (id \in DOMAIN q.stored => id = q.empty \/ q.type = "DRAT")
        \/ /\ id \in DOMAIN q.stored /\ id # q.empty
           /\ r = [Emit(q, line) EXCEPT !.stored = [i \in DOMAIN @ \ {id} |-> @[i]]]
    BY DEF DeleteStored
  <2> HIDE DEF k, l, r, line
  <2> QED BY <2>1, <1>1, <1>3, <1>4

\* Before the first round nothing is deleted.
LEMMA DeletedNone ==
  ASSUME NEW sure \in BOOLEAN, NEW c \in Checkers, NEW p \in Generators,
         Accepted(sure, c, p), StoredShown(p, Seen(c, p))
  PROVE  Deleted(sure, c, p, p, {})
BY DEF Deleted, SameButDeleted, Fewer

\* A round of the loop leaves a generator.
LEMMA DeleteStoredType ==
  ASSUME NEW p \in Generators, NEW id \in Ids
  PROVE  DeleteStored(p, id) \in Generators
<1> DEFINE line == Line!DeleteLine(<<id>>)
<1>1. CASE DeleteStored(p, id) = p BY <1>1
<1>2. CASE DeleteStored(p, id) =
             [Emit(p, line) EXCEPT !.stored = [i \in DOMAIN @ \ {id} |-> @[i]]]
  <2> DEFINE less == [i \in DOMAIN p.stored \ {id} |-> p.stored[i]]
  <2>1. <<id>> \in Seq(Ids) OBVIOUS
  <2>2. line \in Lines BY <2>1 DEF Line!DeleteLine, Lines
  <2> HIDE DEF line
  <2>3. Append(p.out, line) \in Seq(Lines) BY <2>2, AppendProperties DEF Generators
  <2>4. Emit(p, line) = [p EXCEPT !.out = Append(p.out, line)] BY DEF Emit
  <2>5. less \in ClauseMaps BY ClauseMapRestricted DEF Generators
  <2>6. DeleteStored(p, id) = [Emit(p, line) EXCEPT !.stored = less]
    BY <1>2, <2>4 DEF Generators
  <2> DEFINE out == Append(p.out, line)
             q == DeleteStored(p, id)
  <2>7. q = [[p EXCEPT !.out = out] EXCEPT !.stored = less] BY <2>4, <2>6
  <2> HIDE DEF less, out, q
  <2>8. out \in Seq(Lines) BY <2>3 DEF out
  <2>9. q \in Generators BY <2>5, <2>7, <2>8 DEF Generators
  <2> QED BY <2>9 DEF q
<1> QED BY <1>1, <1>2 DEF DeleteStored

\* The whole loop of delete_clauses deletes the clauses of the list and no others.
LEMMA DeleteEachRight ==
  ASSUME NEW sure \in BOOLEAN, NEW c \in Checkers, NEW p \in Generators, NEW ids \in Seq(Ids),
         Named(ids) \cap InputIds = {},
         p.type = "FRAT" \/ (p.type = "DRAT" /\ p.empty = TAUTOLOGY),
         Accepted(sure, c, p), StoredShown(p, Seen(c, p))
  PROVE  Deleted(sure, c, p, FoldLeft(DeleteStored, p, ids), Named(ids))
<1> DEFINE n == Len(ids)
           G == [q \in Generators |-> [id \in Ids |-> DeleteStored(q, id)]]
           Body(f) == [s \in SUBSET (1..n) |->
                         IF s = {} THEN p ELSE DeleteStored(f[s \ {Max(s)}], ids[Max(s)])]
           fold == CHOOSE f : f = Body(f)
<1>0. n \in Nat /\ DOMAIN ids = 1..n BY LenProperties
<1>2. \E f : f = Body(f)
  <2>1. G \in [Generators -> [Ids -> Generators]] BY DeleteStoredType
  <2>2. FoldsOf(Generators, G, p, ids) # {}
    <3> HIDE DEF G
    <3> QED BY <2>1, FoldExists, Zenon
  <2>3. \A q \in Generators, id \in Ids : G[q][id] = DeleteStored(q, id) OBVIOUS
  <2> HIDE DEF G
  <2>4. PICK f \in [SUBSET (1..n) -> Generators] :
          f = [s \in SUBSET (1..n) |-> IF s = {} THEN p ELSE G[f[s \ {Max(s)}]][ids[Max(s)]]]
    BY <2>2 DEF FoldsOf
  <2>5. ASSUME NEW s \in SUBSET (1..n), s # {}
        PROVE  G[f[s \ {Max(s)}]][ids[Max(s)]] = DeleteStored(f[s \ {Max(s)}], ids[Max(s)])
    <3>1. Max(s) \in 1..n BY <1>0, <2>5, MaxInSet
    <3>2. ids[Max(s)] \in Ids BY <3>1, ElementOfSeq
    <3>3. f[s \ {Max(s)}] \in Generators OBVIOUS
    <3> QED BY <3>2, <3>3, <2>3
  <2>6. f = Body(f) BY <2>4, <2>5
  <2> QED BY <2>6
<1>3. fold = Body(fold)
  <2> HIDE DEF Body
  <2> QED BY <1>2
<1>4. FoldLeft(DeleteStored, p, ids) = fold[1..n]
  BY <1>0 DEF FoldLeft, MapThenFoldSet
<1> HIDE DEF fold
<1>5. fold[1..0] = p
  <2>1. 1..0 = {} /\ {} \in SUBSET (1..n) OBVIOUS
  <2> QED BY <1>3, <2>1
<1>6. ASSUME NEW i \in 1..n PROVE fold[1..i] = DeleteStored(fold[1..(i-1)], ids[i])
  <2>1. 1..i \in SUBSET (1..n) BY <1>0
  <2>2. Max(1..i) = i /\ (1..i) \ {i} = 1..(i-1) /\ 1..i # {} BY <1>0, LastOfInterval
  <2>3. fold[1..i] = DeleteStored(fold[(1..i) \ {Max(1..i)}], ids[Max(1..i)])
    BY <2>1, <2>2, <1>3
  <2> QED BY <2>2, <2>3
<1> DEFINE First(i) == {ids[j] : j \in 1..i}
           S == {i \in 0..n : Deleted(sure, c, p, fold[1..i], First(i))}
<1>7. 0 \in S
  <2>1. First(0) = {} OBVIOUS
  <2>2. Deleted(sure, c, p, fold[1..0], First(0)) BY <1>5, <2>1, DeletedNone
  <2> HIDE DEF First, n
  <2> QED BY <2>2, <1>0
<1>8. ASSUME NEW i \in 1..n, i - 1 \in S PROVE i \in S
  <2>1. Deleted(sure, c, p, fold[1..(i-1)], First(i-1)) BY <1>8
  <2>2. ids[i] \in Ids \ InputIds
    <3>1. ids[i] \in Ids BY ElementOfSeq
    <3>2. ids[i] \in Named(ids) BY DEF Named
    <3> QED BY <3>1, <3>2
  <2>3. First(i) = First(i-1) \cup {ids[i]} BY <1>0
  <2> HIDE DEF First
  <2>4. Deleted(sure, c, p, DeleteStored(fold[1..(i-1)], ids[i]), First(i-1) \cup {ids[i]})
    BY <2>1, <2>2, DeleteStoredRight
  <2>5. Deleted(sure, c, p, fold[1..i], First(i)) BY <1>6, <2>3, <2>4
  <2> QED BY <2>5, <1>0
<1>9. n \in S
  <2> HIDE DEF S
  <2>1. 0..n \subseteq S BY <1>0, <1>7, <1>8, IntervalInduction
  <2> QED BY <1>0, <2>1
<1>10. Deleted(sure, c, p, fold[1..n], First(n)) BY <1>9
<1> QED BY <1>4, <1>10 DEF Named

\* The counters of delete_clauses are no concern of the checker.
LEMMA CountedRight ==
  ASSUME NEW sure \in BOOLEAN, NEW c \in Checkers, NEW p \in Generators, NEW ids \in Seq(Ids)
  PROVE  /\ Counted(p, ids) \in Generators
         /\ SameButDeleted(p, Counted(p, ids)) /\ Counted(p, ids).live = p.live - Len(ids)
         /\ Seen(c, Counted(p, ids)) = Seen(c, p)
         /\ Accepted(sure, c, p) => Accepted(sure, c, Counted(p, ids))
         /\ \A k : StoredShown(Counted(p, ids), k) <=> StoredShown(p, k)
<1>1. Len(ids) \in Nat BY LenProperties
<1> DEFINE q == Counted(p, ids)
<1>2. q \in Generators
  <2>1. p.live - Len(ids) \in Int /\ p.deletions + Len(ids) \in Int BY <1>1 DEF Generators
  <2> QED BY <2>1 DEF Counted, Generators
<1>3. /\ q.out = p.out /\ q.stored = p.stored /\ q.live = p.live - Len(ids)
      /\ SameButDeleted(p, q)
  BY DEF Counted, Generators, SameButDeleted
<1> HIDE DEF q
<1>4. Seen(c, q) = Seen(c, p) /\ Good(c, q) = Good(c, p) BY <1>3 DEF Seen, Good
<1>6. Accepted(sure, c, p) => Accepted(sure, c, q)
  BY <1>3, <1>4 DEF Accepted, Exact, SameButDeleted
<1>5. \A k : StoredShown(q, k) <=> StoredShown(p, k) BY <1>3 DEF StoredShown, SameButDeleted
<1> QED BY <1>2, <1>3, <1>4, <1>5, <1>6 DEF q

\* delete_clauses in every format: what it prints is accepted and takes from the
\* checker at most the clauses of the list.
LEMMA DeleteClausesRight ==
  ASSUME NEW sure \in BOOLEAN, NEW c \in Checkers, NEW p \in Generators, NEW ids \in Seq(Ids),
         Named(ids) \cap InputIds = {},
         \A i, j \in 1..Len(ids) : ids[i] = ids[j] => i = j,
         p.empty = TAUTOLOGY => Named(ids) \subseteq DOMAIN Seen(c, p).db,
         Accepted(sure, c, p), StoredShown(p, Seen(c, p))
  PROVE  Deleted(sure, c, Counted(p, ids), DeleteClauses(p, ids), Named(ids))
<1> DEFINE q == Counted(p, ids)
<1>1. /\ q \in Generators /\ SameButDeleted(p, q) /\ q.live = p.live - Len(ids)
      /\ Seen(c, q) = Seen(c, p) /\ Accepted(sure, c, q) /\ StoredShown(q, Seen(c, q))
  BY CountedRight
<1>2. DeleteClauses(p, ids) =
        IF p.empty # TAUTOLOGY /\ p.type # "FRAT" THEN q
        ELSE IF p.type = "LRAT" THEN Emit(q, Line!DeleteLine(ids))
        ELSE FoldLeft(DeleteStored, q, ids)
  <2>1. q.empty = p.empty /\ q.type = p.type BY <1>1 DEF SameButDeleted
  <2> HIDE DEF q
  <2>2. DeleteClauses(p, ids) = DeleteCounted(q, ids)
    BY CleanHintsOfIds DEF DeleteClauses, DeleteCleaned, q
  <2> QED BY <2>1, <2>2 DEF DeleteCounted
<1>3. p.type \in {"LRAT", "DRAT", "FRAT"} BY InputsAssumption DEF Generators
<1> HIDE DEF q
<1>4. CASE p.empty # TAUTOLOGY /\ p.type # "FRAT"
  <2>1. Fewer(q, Seen(c, q), Seen(c, q), Named(ids)) BY <1>1, <1>4 DEF Fewer, SameButDeleted
  <2> QED BY <1>1, <1>2, <1>4, <2>1 DEF Deleted, SameButDeleted, q
<1>5. CASE p.empty = TAUTOLOGY /\ p.type = "LRAT"
  <2> DEFINE k == Seen(c, q)
             line == Line!DeleteLine(ids)
             m == [k EXCEPT !.db = [i \in DOMAIN k.db \ Named(ids) |-> k.db[i]]]
             r == Emit(q, line)
  <2>0. k \in Checkers BY <1>1, SeenType
  <2>1. Named(ids) \subseteq DOMAIN k.db BY <1>1, <1>5
  <2>2. line \in Lines /\ File!Accepts(k, line) /\ File!Absorb(k, line) = m
    <3> HIDE DEF k
    <3> QED BY <2>0, <2>1, DeleteLineSeen
  <2> HIDE DEF line
  <2>3. /\ r \in Generators /\ r = [q EXCEPT !.out = Append(q.out, line)]
        /\ Seen(c, r) = m /\ (Good(c, r) <=> Good(c, q))
    BY <1>1, <2>2, EmitRight
  <2> HIDE DEF k
  <2>4. /\ DOMAIN m.db = DOMAIN k.db \ Named(ids) /\ m.last = k.last /\ m.final = k.final
        /\ \A i \in DOMAIN m.db : m.db[i] = k.db[i]
    BY <2>0 DEF Checkers
  <2> HIDE DEF m
  <2>5. q.type = "LRAT" /\ q.empty = TAUTOLOGY BY <1>1, <1>5 DEF SameButDeleted
  <2>6. Fewer(q, k, m, Named(ids))
    <3>1. ~ (q.type # "FRAT" /\ q.empty # TAUTOLOGY) BY <2>5
    <3>2. q.empty \in DOMAIN k.db => q.empty \in DOMAIN m.db
      <4>1. DOMAIN k.db \subseteq Ids BY <2>0, ClauseMapDef DEF Checkers
      <4> QED BY <4>1, <2>5, IdsAreNot
    <3>3. DOMAIN m.db \cap Named(ids) \subseteq {q.empty} BY <2>4
    <3> QED BY <2>4, <3>1, <3>2, <3>3 DEF Fewer
  <2>7. SameButDeleted(q, r) /\ r.live = q.live BY <1>1, <2>3 DEF SameButDeleted, Generators
  <2> HIDE DEF r
  <2>8. StoredShown(r, m) BY <2>5, <2>7 DEF StoredShown, SameButDeleted
  <2>9. DeleteClauses(p, ids) = r BY <1>2, <1>5 DEF r, line
  <2>10. Accepted(sure, c, r)
    <3>1. r.type # "FRAT" BY <2>5, <2>7 DEF SameButDeleted
    <3> QED BY <3>1, <1>1, <2>3 DEF Accepted, Exact
  <2> QED BY <2>3, <2>6, <2>7, <2>8, <2>9, <2>10 DEF Deleted, k, q
<1>6. CASE p.type = "FRAT" \/ (p.type = "DRAT" /\ p.empty = TAUTOLOGY)
  <2>1. q.type = "FRAT" \/ (q.type = "DRAT" /\ q.empty = TAUTOLOGY)
    BY <1>1, <1>6 DEF SameButDeleted
  <2>2. Deleted(sure, c, q, FoldLeft(DeleteStored, q, ids), Named(ids))
    BY <1>1, <2>1, DeleteEachRight
  <2>3. DeleteClauses(p, ids) = FoldLeft(DeleteStored, q, ids) BY <1>2, <1>6
  <2> QED BY <2>2, <2>3 DEF q
<1> QED BY <1>3, <1>4, <1>5, <1>6

----------------------------------------------------------------------------
(* The generator p and a checker k agree, when the clauses of owed are still to be *)
(* deleted. *)

\* The client of a FRAT proof has gone on after the empty clause: k lacks the clauses
\* derived since, and perhaps the one now kept as the empty clause.
GoesOn(p, k) ==
    /\ p.type = "FRAT" /\ p.empty # TAUTOLOGY
    /\ p.empty \notin DOMAIN k.db \/ p.empty < p.counter

\* The lines p has printed are accepted, unless the client has gone on.
Judged(c, p) == ~GoesOn(p, Seen(c, p)) => Good(c, p)

Consistent(p, k, owed) ==
    /\ k.last <= p.counter /\ DOMAIN k.db \subseteq 1..p.counter
    /\ InputIds \subseteq DOMAIN k.db
    /\ owed \subseteq 1..p.counter /\ owed \cap InputIds = {}
    /\ p.empty = TAUTOLOGY => owed \subseteq DOMAIN k.db
    /\ StoredShown(p, k) /\ (~GoesOn(p, k) => Exact(p, k))
    /\ p.type = "FRAT" => \A id \in DOMAIN k.db \ InputIds : id \in owed \/ k.db[id] = {}
    /\ p.type # "DRAT" /\ p.empty = TAUTOLOGY => p.live = Cardinality(DOMAIN k.db)
    /\ p.empty # TAUTOLOGY => p.empty <= p.counter
    /\ p.type = "FRAT" /\ p.empty \in DOMAIN k.db => k.db[p.empty] = {}
    /\ \A id \in DOMAIN k.db \ InputIds : k.db[id] = {} =>
         /\ p.empty # TAUTOLOGY
         /\ p.type = "FRAT" /\ p.empty \in DOMAIN k.db => id = p.empty

\* A list without repetitions is as long as the set of what it names.
LEMMA NamedCount ==
  ASSUME NEW ids \in Seq(Ids), \A i, j \in 1..Len(ids) : ids[i] = ids[j] => i = j
  PROVE  IsFiniteSet(Named(ids)) /\ Cardinality(Named(ids)) = Len(ids)
<1>0. Len(ids) \in Nat BY LenProperties
<1> DEFINE f == [i \in 1..Len(ids) |-> ids[i]]
<1>1. f \in Bijection(1..Len(ids), Named(ids))
  <2>1. f \in [1..Len(ids) -> Named(ids)] BY DEF Named
  <2>2. \A i, j \in 1..Len(ids) : f[i] = f[j] => i = j OBVIOUS
  <2>3. \A id \in Named(ids) : \E i \in 1..Len(ids) : f[i] = id BY DEF Named
  <2> HIDE DEF f
  <2> QED BY <2>1, <2>2, <2>3 DEF Bijection, Injection, Surjection, IsInjective
<1>2. ExistsBijection(1..Len(ids), Named(ids))
  <2> HIDE DEF f
  <2> QED BY <1>1 DEF ExistsBijection
<1> QED BY <1>0, <1>2, FS_NatBijection, FS_CountingElements

\* delete_clauses keeps the generator and the checker in agreement when the client
\* still owed the deletions, each once.
LEMMA DeletionConsistent ==
  ASSUME NEW c \in Checkers, NEW p \in Generators, NEW ids \in Seq(Ids), NEW owed,
         \A i, j \in 1..Len(ids) : ids[i] = ids[j] => i = j,
         Named(ids) \subseteq owed, Judged(c, p), Consistent(p, Seen(c, p), owed)
  PROVE  LET q == DeleteClauses(p, ids)
         IN  /\ q \in Generators /\ Judged(c, q) /\ SameButDeleted(p, q)
             /\ GoesOn(q, Seen(c, q)) <=> GoesOn(p, Seen(c, p))
             /\ Fewer(p, Seen(c, p), Seen(c, q), Named(ids))
             /\ Consistent(q, Seen(c, q), owed \ Named(ids))
<1> DEFINE q == DeleteClauses(p, ids)
           n == Counted(p, ids)
           k == Seen(c, p)
           l == Seen(c, q)
           gone == Named(ids)
           sure == ~GoesOn(p, k)
<1>1. gone \cap InputIds = {} /\ StoredShown(p, k) BY DEF Consistent
<1>2. p.empty = TAUTOLOGY => gone \subseteq DOMAIN k.db BY DEF Consistent
<1>3. Deleted(sure, c, n, q, gone)
  <2>1. sure \in BOOLEAN BY DEF GoesOn
  <2>2. Accepted(sure, c, p) BY DEF Consistent, Judged, Accepted
  <2> HIDE DEF q, n, k, gone, sure
  <2> QED BY <2>1, <2>2, <1>1, <1>2, DeleteClausesRight DEF q, n, k, gone
<1>4. /\ SameButDeleted(p, n) /\ n.live = p.live - Len(ids) /\ Seen(c, n) = k
  BY CountedRight
<1> HIDE DEF n, sure
<1>5. /\ q \in Generators /\ Accepted(sure, c, q) /\ StoredShown(q, l)
      /\ SameButDeleted(p, q) /\ q.live = p.live - Len(ids)
  BY <1>3, <1>4 DEF Deleted, SameButDeleted
<1>6. Fewer(p, k, l, gone)
  <2>1. Fewer(n, k, l, gone) BY <1>3, <1>4 DEF Deleted
  <2> HIDE DEF k, l, gone, q
  <2> QED BY <2>1, <1>4 DEF Fewer, SameButDeleted
<1>7. k \in Checkers /\ l \in Checkers BY <1>5, SeenType
<1>8. p.type \in {"LRAT", "DRAT", "FRAT"} BY InputsAssumption DEF Generators
<1>9. Consistent(p, k, owed) /\ gone \subseteq owed OBVIOUS
<1>10. IsFiniteSet(gone) /\ Cardinality(gone) = Len(ids) BY NamedCount
<1>13. sure => Good(c, q) /\ Exact(q, l) BY <1>5 DEF Accepted
<1> HIDE DEF q, k, l, gone
<1>14. GoesOn(q, l) <=> GoesOn(p, k) BY <1>5, <1>6 DEF GoesOn, SameButDeleted, Fewer
<1>15. sure <=> ~GoesOn(p, k) BY DEF sure
<1>16. ~GoesOn(q, l) => Good(c, q) /\ Exact(q, l) BY <1>13, <1>14, <1>15
<1>11. q.type # "DRAT" /\ q.empty = TAUTOLOGY => q.live = Cardinality(DOMAIN l.db)
  <2> SUFFICES ASSUME q.type # "DRAT", q.empty = TAUTOLOGY PROVE q.live = Cardinality(DOMAIN l.db)
    OBVIOUS
  <2>1. p.type # "DRAT" /\ p.empty = TAUTOLOGY BY <1>5 DEF SameButDeleted
  <2>2. DOMAIN k.db \subseteq Ids BY <1>7, ClauseMapDef DEF Checkers
  <2>3. TAUTOLOGY \notin DOMAIN l.db BY <2>2, <1>6, IdsAreNot DEF Fewer
  <2>4. DOMAIN l.db = DOMAIN k.db \ gone
    BY <2>1, <2>3, <1>6, <1>8 DEF Fewer
  <2>5. gone \subseteq DOMAIN k.db BY <2>1, <1>2
  <2>6. IsFiniteSet(DOMAIN k.db)
    <3>1. IsFiniteSet(Ids)
      <4>1. Len(Inputs) + MaxDerived \in Int
        BY InputsAssumption, RangeAssumption, LenProperties
      <4> QED BY <4>1, FS_Interval DEF Ids
    <3> QED BY <3>1, <2>2, FS_Subset
  <2>7. Cardinality(DOMAIN l.db) = Cardinality(DOMAIN k.db) - Cardinality(DOMAIN k.db \cap gone)
    BY <2>4, <2>6, FS_Difference
  <2>8. DOMAIN k.db \cap gone = gone BY <2>5
  <2>9. p.live = Cardinality(DOMAIN k.db) BY <2>1, <1>9 DEF Consistent
  <2> QED BY <2>7, <2>8, <2>9, <1>10, <1>5
<1>12. Consistent(q, l, owed \ gone)
  <2>1. l.last <= q.counter /\ DOMAIN l.db \subseteq 1..q.counter
    BY <1>5, <1>6, <1>9 DEF Consistent, Fewer, SameButDeleted
  <2>2. InputIds \subseteq DOMAIN l.db BY <1>1, <1>6, <1>9 DEF Consistent, Fewer, gone
  <2>3. owed \ gone \subseteq 1..q.counter /\ (owed \ gone) \cap InputIds = {}
    BY <1>5, <1>9 DEF Consistent, SameButDeleted
  <2>4. q.empty = TAUTOLOGY => owed \ gone \subseteq DOMAIN l.db
    BY <1>5, <1>6, <1>9 DEF Consistent, Fewer, SameButDeleted
  <2>6. q.type = "FRAT" /\ q.empty \in DOMAIN l.db => l.db[q.empty] = {}
    BY <1>5, <1>6, <1>9 DEF Consistent, Fewer, SameButDeleted
  <2>5. q.type = "FRAT" =>
          \A id \in DOMAIN l.db \ InputIds : id \in owed \ gone \/ l.db[id] = {}
    <3> SUFFICES ASSUME q.type = "FRAT", NEW id \in DOMAIN l.db \ InputIds
                 PROVE  id \in owed \ gone \/ l.db[id] = {}
      OBVIOUS
    <3>1. p.type = "FRAT" /\ q.empty = p.empty BY <1>5 DEF SameButDeleted
    <3>2. id \in DOMAIN k.db /\ l.db[id] = k.db[id] BY <1>6 DEF Fewer
    <3>3. id \in owed \/ k.db[id] = {} BY <3>1, <3>2, <1>9 DEF Consistent
    <3>4. id \in gone => id = q.empty BY <3>1, <1>6 DEF Fewer
    <3> QED BY <3>2, <3>3, <3>4, <2>6
  <2>7. \A id \in DOMAIN l.db \ InputIds : l.db[id] = {} =>
          /\ q.empty # TAUTOLOGY
          /\ q.type = "FRAT" /\ q.empty \in DOMAIN l.db => id = q.empty
    BY <1>5, <1>6, <1>9 DEF Consistent, Fewer, SameButDeleted
  <2>8. q.empty # TAUTOLOGY => q.empty <= q.counter
    BY <1>5, <1>9 DEF Consistent, SameButDeleted
  <2> QED BY <2>1, <2>2, <2>3, <2>4, <2>5, <2>6, <2>7, <2>8, <1>5, <1>11, <1>16 DEF Consistent
<1>17. Judged(c, q) BY <1>16 DEF Judged, l
<1> QED BY <1>5, <1>6, <1>12, <1>14, <1>17 DEF q, k, l, gone

\* Agreement depends on five fields of the generator.
LEMMA ConsistentSame ==
  ASSUME NEW p, NEW q, NEW k, NEW owed, Consistent(p, k, owed),
         q.type = p.type, q.counter = p.counter, q.empty = p.empty,
         q.live = p.live, q.stored = p.stored
  PROVE  Consistent(q, k, owed) /\ (GoesOn(q, k) <=> GoesOn(p, k))
BY DEF Consistent, StoredShown, Exact, GoesOn

\* The mark of a new step changes nothing but the lines.
LEMMA QuietRight ==
  ASSUME NEW c \in Checkers, NEW p \in Generators
  PROVE  /\ Quiet(p) \in Generators /\ Good(c, Quiet(p)) /\ Seen(c, Quiet(p)) = c
         /\ SameButDeleted(p, Quiet(p)) /\ Judged(c, Quiet(p))
         /\ GoesOn(Quiet(p), c) <=> GoesOn(p, c)
         /\ \A owed : Consistent(p, c, owed) => Consistent(Quiet(p), c, owed)
<1>1. <<>> \in Seq(Lines) OBVIOUS
<1>2. Quiet(p) = [p EXCEPT !.out = <<>>] BY DEF Quiet
<1>3. /\ Quiet(p) \in Generators /\ Quiet(p).out = <<>> /\ SameButDeleted(p, Quiet(p))
      /\ Quiet(p).live = p.live /\ Quiet(p).stored = p.stored
  BY <1>1, <1>2 DEF Generators, SameButDeleted
<1>4. Good(c, Quiet(p)) /\ Seen(c, Quiet(p)) = c BY <1>3, NothingPrinted DEF Good, Seen
<1>5. \A owed : Consistent(p, c, owed) => Consistent(Quiet(p), c, owed)
  BY <1>3, ConsistentSame DEF SameButDeleted
<1>6. GoesOn(Quiet(p), c) <=> GoesOn(p, c) BY <1>3 DEF GoesOn, SameButDeleted
<1> QED BY <1>3, <1>4, <1>5, <1>6 DEF Judged

\* The clause kept as the empty clause of a FRAT proof was never printed.
Unprinted(p, k) == p.type = "FRAT" /\ p.empty # TAUTOLOGY /\ p.empty \notin DOMAIN k.db

\* Otherwise no deletion that was owed takes an empty clause from the checker.
LEMMA RefutationStays ==
  ASSUME NEW p, NEW k, NEW l, NEW owed, NEW gone, ~Unprinted(p, k),
         Consistent(p, k, owed), Fewer(p, k, l, gone), gone \subseteq owed
  PROVE  \A id \in DOMAIN k.db : k.db[id] = {} => id \in DOMAIN l.db
BY DEF Consistent, Fewer, Unprinted

----------------------------------------------------------------------------
(* The inductive invariant. *)

StateType ==
    /\ prover \in Generators /\ checker \in Checkers /\ held \subseteq Ids
    /\ phase \in {"running", "done"} /\ session \in Nat /\ text \in ClauseMaps
    /\ prover.counter <= Len(Inputs) + MaxDerived
    /\ phase = "running" => checker.final = {}
    /\ phase = "done" => held = {} /\ prover.deferred = <<>>

\* No clause is owed two deletions.
Distinct(ids) == \A i, j \in 1..Len(ids) : ids[i] = ids[j] => i = j

OwedOnce == held \cap Named(prover.deferred) = {} /\ Distinct(prover.deferred)

\* The client has the text of every clause it may cite, and until the refutation it is
\* the text the checker has.
TextRight ==
    /\ InputIds \cup held \cup Named(prover.deferred) \subseteq DOMAIN text
    /\ prover.empty = TAUTOLOGY =>
         \A id \in DOMAIN checker.db : id \in DOMAIN text /\ checker.db[id] = text[id]

Agreement == Consistent(prover, checker, held \cup Named(prover.deferred))

IInv == StateType /\ OwedOnce /\ TextRight /\ Agreement

\* What a step within a session must be.
StepRight ==
    /\ ~GoneOn => File!Next
    /\ ~Overtaken =>
         \A id \in DOMAIN checker.db : checker.db[id] = {} => id \in DOMAIN checker'.db

\* The two conditions, as the lemmas about the generator have them.
LEMMA Conditions ==
  /\ GoneOn <=> GoesOn(prover, checker)
  /\ Overtaken <=> Unprinted(prover, checker)
BY DEF GoneOn, Overtaken, Refuted, GoesOn, Unprinted

\* Giving a clause up at once keeps the invariant and prints what a checker accepts.
LEMMA ReleaseRight ==
  ASSUME IInv, NEW id \in held, Release(id)
  PROVE  IInv' /\ StepRight
<1> DEFINE p == Quiet(prover)
           ids == <<id>>
           q == DeleteClauses(p, ids)
           c == checker
           owed == held \cup Named(prover.deferred)
<1>1. /\ phase = "running" /\ prover' = q /\ held' = held \ {id}
      /\ checker' = File!AbsorbAll(checker, prover'.out)
      /\ UNCHANGED <<phase, session, text>>
  BY DEF Release, Observe
<1>2. c \in Checkers /\ prover \in Generators /\ id \in Ids BY DEF IInv, StateType
<1>3. /\ p \in Generators /\ Judged(c, p) /\ Seen(c, p) = c /\ SameButDeleted(prover, p)
      /\ Consistent(p, c, owed) /\ (GoesOn(p, c) <=> GoesOn(prover, checker))
  BY <1>2, QuietRight DEF IInv, Agreement
<1>4. /\ ids \in Seq(Ids) /\ Named(ids) = {id} /\ {id} \subseteq owed
      /\ \A i, j \in 1..Len(ids) : ids[i] = ids[j] => i = j
  BY <1>2 DEF Named
<1> HIDE DEF p, c, owed, ids
<1>5. /\ q \in Generators /\ Judged(c, q) /\ SameButDeleted(p, q)
      /\ GoesOn(q, Seen(c, q)) <=> GoesOn(p, c)
      /\ Fewer(p, c, Seen(c, q), {id})
      /\ Consistent(q, Seen(c, q), owed \ {id})
  <2>1. Consistent(p, Seen(c, p), owed) /\ Named(ids) \subseteq owed BY <1>3, <1>4
  <2>2. c \in Checkers BY <1>2 DEF c
  <2>3. /\ q \in Generators /\ Judged(c, q) /\ SameButDeleted(p, q)
        /\ GoesOn(q, Seen(c, q)) <=> GoesOn(p, Seen(c, p))
        /\ Fewer(p, Seen(c, p), Seen(c, q), Named(ids))
        /\ Consistent(q, Seen(c, q), owed \ Named(ids))
    BY <1>3, <1>4, <2>1, <2>2, DeletionConsistent
  <2> QED BY <2>3, <1>3, <1>4
<1> HIDE DEF q
<1>6. checker' = Seen(c, q) BY <1>1 DEF Seen, c
<1>7. StepRight
  <2>1. ~GoneOn => Good(c, q) BY <1>3, <1>5, Conditions DEF Judged, c
  <2>4. ~GoneOn => File!Next BY <2>1, <1>1, <1>6 DEF File!Next, Good, c
  <2>2. ASSUME ~Overtaken
        PROVE  \A i \in DOMAIN checker.db : checker.db[i] = {} => i \in DOMAIN checker'.db
    <3>1. ~Unprinted(p, c) BY <2>2, <1>3, Conditions DEF Unprinted, SameButDeleted, c
    <3> QED BY <3>1, <1>3, <1>4, <1>5, <1>6, RefutationStays DEF c
  <2> QED BY <2>2, <2>4 DEF StepRight
<1>8. SameButDeleted(prover, prover') BY <1>1, <1>3, <1>5 DEF SameButDeleted
<1>9. checker' \in Checkers BY <1>2, <1>5, <1>6, SeenType
<1>10. Fewer(prover, checker, checker', {id})
  BY <1>3, <1>5, <1>6 DEF Fewer, SameButDeleted, c
<1>11. StateType'
  BY <1>1, <1>5, <1>8, <1>9, <1>10 DEF IInv, StateType, SameButDeleted, Fewer
<1>12. OwedOnce'
  BY <1>1, <1>8 DEF IInv, OwedOnce, SameButDeleted, Distinct, Named
<1>13. TextRight'
  <2>1. Named(prover'.deferred) = Named(prover.deferred) BY <1>8 DEF SameButDeleted
  <2> QED BY <2>1, <1>1, <1>8, <1>10 DEF IInv, TextRight, Fewer, SameButDeleted
<1>14. Agreement'
  <2>1. owed \ {id} = held' \cup Named(prover'.deferred)
    BY <1>1, <1>8 DEF IInv, OwedOnce, SameButDeleted, owed
  <2>2. Consistent(prover', checker', held' \cup Named(prover'.deferred))
    BY <2>1, <1>1, <1>5, <1>6
  <2> QED BY <2>2 DEF Agreement
<1> QED BY <1>7, <1>11, <1>12, <1>13, <1>14 DEF IInv

\* process_deferred_deletions deletes what was deferred and empties the list.
LEMMA ProcessRight ==
  ASSUME NEW c \in Checkers, NEW p \in Generators, NEW owed, Distinct(p.deferred),
         Named(p.deferred) \subseteq owed, Judged(c, p), Consistent(p, Seen(c, p), owed),
         NEW q, q = ProcessDeferredDeletions(p)
  PROVE  /\ q \in Generators /\ Judged(c, q) /\ q.deferred = <<>>
         /\ GoesOn(q, Seen(c, q)) <=> GoesOn(p, Seen(c, p))
         /\ q.type = p.type /\ q.counter = p.counter /\ q.empty = p.empty
         /\ q.finalized = p.finalized
         /\ Fewer(p, Seen(c, p), Seen(c, q), Named(p.deferred))
         /\ Consistent(q, Seen(c, q), owed \ Named(p.deferred))
<1> DEFINE ids == p.deferred
           k == Seen(c, p)
<1>1. CASE ids = <<>>
  <2>1. q = p BY <1>1 DEF ProcessDeferredDeletions
  <2>2. Named(ids) = {} BY <1>1 DEF Named
  <2>3. Fewer(p, k, k, {}) BY DEF Fewer
  <2>4. owed \ {} = owed OBVIOUS
  <2> QED BY <1>1, <2>1, <2>2, <2>3, <2>4
<1>2. CASE ids # <<>>
  <2> DEFINE r == DeleteClauses(p, ids)
  <2>1. ids \in Seq(Ids) BY DEF Generators
  <2>2. \A i, j \in 1..Len(ids) : ids[i] = ids[j] => i = j BY DEF Distinct
  <2> HIDE DEF ids
  <2>3. /\ r \in Generators /\ Judged(c, r) /\ SameButDeleted(p, r)
        /\ GoesOn(r, Seen(c, r)) <=> GoesOn(p, Seen(c, p))
        /\ Fewer(p, Seen(c, p), Seen(c, r), Named(ids))
        /\ Consistent(r, Seen(c, r), owed \ Named(ids))
    <3>1. Named(ids) \subseteq owed BY DEF ids
    <3> QED BY <2>1, <2>2, <3>1, DeletionConsistent
  <2>4. q = [r EXCEPT !.deferred = <<>>] BY <1>2 DEF ProcessDeferredDeletions, ids
  <2> HIDE DEF r
  <2>5. /\ q \in Generators /\ q.deferred = <<>> /\ q.out = r.out
        /\ q.type = r.type /\ q.counter = r.counter /\ q.empty = r.empty
        /\ q.finalized = r.finalized /\ q.live = r.live /\ q.stored = r.stored
    <3>1. <<>> \in Seq(Ids) OBVIOUS
    <3> QED BY <2>3, <2>4, <3>1 DEF Generators
  <2>6. Seen(c, q) = Seen(c, r) /\ (Good(c, q) <=> Good(c, r)) BY <2>5 DEF Good, Seen
  <2>7. Consistent(q, Seen(c, q), owed \ Named(ids))
        /\ (GoesOn(q, Seen(c, q)) <=> GoesOn(r, Seen(c, r)))
    BY <2>3, <2>5, <2>6, ConsistentSame
  <2>8. Judged(c, q) BY <2>3, <2>6, <2>7 DEF Judged
  <2> QED BY <2>3, <2>5, <2>6, <2>7, <2>8 DEF SameButDeleted, ids
<1> QED BY <1>1, <1>2

\* The end of an operation keeps the invariant and prints what a checker accepts.
LEMMA EndOperationRight ==
  ASSUME IInv, EndOperation
  PROVE  IInv' /\ StepRight
<1> DEFINE p == Quiet(prover)
           c == checker
           owed == held \cup Named(prover.deferred)
<1>1. /\ phase = "running" /\ prover' = ProcessDeferredDeletions(p)
      /\ checker' = Seen(c, prover')
      /\ UNCHANGED <<held, phase, session, text>>
  BY DEF EndOperation, Observe, Seen
<1>2. c \in Checkers /\ prover \in Generators BY DEF IInv, StateType
<1>3. /\ p \in Generators /\ Judged(c, p) /\ Seen(c, p) = c /\ SameButDeleted(prover, p)
      /\ Consistent(p, Seen(c, p), owed) /\ (GoesOn(p, c) <=> GoesOn(prover, checker))
  BY <1>2, QuietRight DEF IInv, Agreement
<1>4. p.deferred = prover.deferred BY <1>3 DEF SameButDeleted
<1>5. Distinct(p.deferred) /\ Named(p.deferred) \subseteq owed BY <1>4 DEF IInv, OwedOnce
<1> HIDE DEF p, c, owed
<1>6. /\ prover' \in Generators /\ Judged(c, prover') /\ prover'.deferred = <<>>
      /\ GoesOn(prover', Seen(c, prover')) <=> GoesOn(p, Seen(c, p))
      /\ prover'.type = p.type /\ prover'.counter = p.counter /\ prover'.empty = p.empty
      /\ prover'.finalized = p.finalized
      /\ Fewer(p, Seen(c, p), Seen(c, prover'), Named(p.deferred))
      /\ Consistent(prover', Seen(c, prover'), owed \ Named(p.deferred))
  <2>1. c \in Checkers BY <1>2
  <2> QED BY <2>1, <1>1, <1>3, <1>5, ProcessRight
<1>7. Named(prover'.deferred) = {} BY <1>6 DEF Named
<1>8. StepRight
  <2>1. ~GoneOn => Good(c, prover') BY <1>3, <1>6, Conditions DEF Judged, c
  <2>3. ~GoneOn => File!Next BY <2>1, <1>1 DEF File!Next, Good, Seen, c
  <2>2. ASSUME ~Overtaken
        PROVE  \A i \in DOMAIN c.db : c.db[i] = {} => i \in DOMAIN checker'.db
    <3>1. ~Unprinted(p, Seen(c, p)) BY <2>2, <1>3, Conditions DEF Unprinted, SameButDeleted, c
    <3> QED BY <3>1, <1>1, <1>3, <1>5, <1>6, RefutationStays
  <2> QED BY <2>2, <2>3 DEF StepRight, c
<1>9. checker' \in Checkers BY <1>1, <1>2, <1>6, SeenType
<1>10. Fewer(p, checker, checker', Named(p.deferred)) BY <1>1, <1>3, <1>6 DEF c
<1>11. StateType'
  BY <1>1, <1>3, <1>6, <1>9, <1>10 DEF IInv, StateType, SameButDeleted, Fewer
<1>12. OwedOnce'
  <2>1. Distinct(<<>>) BY DEF Distinct
  <2> QED BY <2>1, <1>6, <1>7 DEF OwedOnce
<1>13. TextRight'
  BY <1>1, <1>3, <1>6, <1>7, <1>10 DEF IInv, TextRight, Fewer, SameButDeleted
<1>14. Agreement'
  <2>1. owed \ Named(p.deferred) = held' \cup Named(prover'.deferred)
    BY <1>1, <1>4, <1>7 DEF IInv, OwedOnce, owed
  <2>2. Consistent(prover', checker', held' \cup Named(prover'.deferred))
    BY <2>1, <1>1, <1>6
  <2> QED BY <2>2 DEF Agreement
<1> QED BY <1>8, <1>11, <1>12, <1>13, <1>14 DEF IInv

\* Deferring a deletion keeps the invariant and prints nothing.
LEMMA EvictRight ==
  ASSUME IInv, NEW id \in held, Evict(id)
  PROVE  IInv' /\ StepRight
<1> DEFINE p == Quiet(prover)
           d == prover.deferred
<1>1. /\ phase = "running" /\ prover' = [p EXCEPT !.deferred = Append(@, id)]
      /\ held' = held \ {id} /\ checker' = Seen(checker, prover')
      /\ UNCHANGED <<phase, session, text>>
  BY DEF Evict, Observe, Seen, DeferDeleteClause
<1>2. checker \in Checkers /\ prover \in Generators /\ id \in Ids BY DEF IInv, StateType
<1>3. /\ p \in Generators /\ Good(checker, p) /\ Seen(checker, p) = checker
      /\ SameButDeleted(prover, p)
      /\ Consistent(p, checker, held \cup Named(d))
  BY <1>2, QuietRight DEF IInv, Agreement
<1> HIDE DEF p
<1>4. d \in Seq(Ids) /\ p.deferred = d BY <1>2, <1>3 DEF Generators, SameButDeleted
<1>5. /\ Append(d, id) \in Seq(Ids) /\ Len(d) \in Nat /\ Len(Append(d, id)) = Len(d) + 1
      /\ \A i \in 1..Len(d) : Append(d, id)[i] = d[i]
      /\ Append(d, id)[Len(d) + 1] = id
  BY <1>2, <1>4, AppendProperties, LenProperties
<1>6. /\ prover' \in Generators /\ prover'.deferred = Append(d, id) /\ prover'.out = p.out
      /\ prover'.type = p.type /\ prover'.counter = p.counter /\ prover'.empty = p.empty
      /\ prover'.live = p.live /\ prover'.stored = p.stored
  BY <1>1, <1>3, <1>4, <1>5 DEF Generators
<1>7. checker' = checker /\ Good(checker, prover') BY <1>1, <1>3, <1>6 DEF Good, Seen
<1>8. StepRight BY <1>1, <1>7 DEF StepRight, File!Next, Good, Seen
<1> HIDE DEF d
<1>9. Named(Append(d, id)) = Named(d) \cup {id}
  <2>1. 1..(Len(d) + 1) = 1..Len(d) \cup {Len(d) + 1} BY <1>5
  <2> QED BY <2>1, <1>5 DEF Named
<1>10. StateType'
  BY <1>1, <1>3, <1>6, <1>7 DEF IInv, StateType, SameButDeleted
<1>11. OwedOnce'
  <2>1. held \cap Named(d) = {} /\ Distinct(d) BY DEF IInv, OwedOnce, d
  <2>2. \A i \in 1..Len(d) : d[i] # id BY <2>1 DEF Named
  <2>3. Distinct(Append(d, id))
    <3>1. \A i \in 1..(Len(d) + 1) : i \in 1..Len(d) \/ i = Len(d) + 1 BY <1>5
    <3> QED BY <3>1, <2>1, <2>2, <1>5 DEF Distinct
  <2> QED BY <2>1, <2>3, <1>1, <1>6, <1>9 DEF OwedOnce
<1>12. held' \cup Named(prover'.deferred) = held \cup Named(d) BY <1>1, <1>6, <1>9
<1>13. TextRight'
  BY <1>1, <1>3, <1>6, <1>7, <1>12 DEF IInv, TextRight, SameButDeleted, d
<1>14. Agreement'
  <2>1. Consistent(prover', checker', held' \cup Named(prover'.deferred))
    BY <1>3, <1>6, <1>7, <1>12, ConsistentSame
  <2> QED BY <2>1 DEF Agreement
<1> QED BY <1>8, <1>10, <1>11, <1>13, <1>14 DEF IInv

\* The clauses held, in some order, each once.
LEMMA SetToSeqRight ==
  ASSUME NEW S \in SUBSET Ids
  PROVE  SetToSeq(S) \in Seq(Ids) /\ Named(SetToSeq(S)) = S /\ Distinct(SetToSeq(S))
<1> DEFINE s == SetToSeq(S)
           n == Cardinality(S)
<1>1. IsFiniteSet(S)
  <2>1. Len(Inputs) + MaxDerived \in Int BY InputsAssumption, RangeAssumption, LenProperties
  <2>2. IsFiniteSet(Ids) BY <2>1, FS_Interval DEF Ids
  <2> QED BY <2>2, FS_Subset
<1>2. n \in Nat /\ ExistsBijection(1..n, S) BY <1>1, FS_CardinalityType
<1>3. \E f \in [1..n -> S] : IsInjective(f)
  BY <1>2 DEF ExistsBijection, Bijection, Injection
<1>4. s \in [1..n -> S] /\ IsInjective(s)
  <2> HIDE DEF n
  <2>1. s = CHOOSE f \in [1..n -> S] : IsInjective(f) BY DEF SetToSeq, n
  <2> HIDE DEF s
  <2> QED BY <1>3, <2>1
<1> HIDE DEF s, n
<1>5. s \in Seq(S) /\ Len(s) = n
  <2>1. s \in Seq(S) BY <1>2, <1>4, SeqDef
  <2> QED BY <2>1, <1>2, <1>4, LenProperties
<1>6. s \in Seq(Ids) BY <1>5, SeqMonotonic
<1>7. Distinct(s) BY <1>4, <1>5 DEF Distinct, IsInjective
<1>8. Named(s) = S
  <2>1. s \in Injection(1..n, S) BY <1>4 DEF Injection
  <2>2. IsFiniteSet(1..n) /\ Cardinality(1..n) = n BY <1>2, FS_Interval
  <2>3. Cardinality(1..n) = Cardinality(S) BY <2>2 DEF n
  <2>4. s \in Surjection(1..n, S) BY <1>1, <2>1, <2>3, FS_Injection
  <2> QED BY <1>4, <1>5, <2>4 DEF Surjection, Named
<1> QED BY <1>6, <1>7, <1>8 DEF s

\* prover_done finalizes a clause the checker holds, and changes no clause.
LEMMA DoneRight ==
  ASSUME NEW c \in Checkers, NEW p \in Generators, NEW owed,
         Judged(c, p), Consistent(p, Seen(c, p), owed), Seen(c, p).final = {},
         NEW q, q = ProverDone(p)
  PROVE  /\ q \in Generators /\ Judged(c, q) /\ q.deferred = p.deferred
         /\ GoesOn(q, Seen(c, q)) <=> GoesOn(p, Seen(c, p))
         /\ q.type = p.type /\ q.counter = p.counter /\ q.empty = p.empty
         /\ Seen(c, q).db = Seen(c, p).db /\ Consistent(q, Seen(c, q), owed)
<1> DEFINE k == Seen(c, p)
           l == Seen(c, q)
           line == Line!FinalizeLine(p.empty)
<1>1. CASE ~ (p.type = "FRAT" /\ p.empty # TAUTOLOGY /\ ~p.finalized)
  BY <1>1 DEF ProverDone
<1>2. CASE p.type = "FRAT" /\ p.empty # TAUTOLOGY /\ ~p.finalized
  <2>1. q = [Emit(p, line) EXCEPT !.finalized = TRUE] BY <1>2 DEF ProverDone
  <2>2. line = [kind |-> "finalize", id |-> p.empty] BY DEF Line!FinalizeLine
  <2>3. p.empty \in Ids BY <1>2 DEF Generators
  <2> HIDE DEF line
  <2>4. line \in Lines /\ line.kind = "finalize" /\ line.id = p.empty
    BY <2>2, <2>3 DEF Lines
  <2>5. k \in Checkers BY SeenType
  <2>6. ~GoesOn(p, k) => p.empty \in DOMAIN k.db BY <1>2 DEF GoesOn
  <2>7. ~GoesOn(p, k) => File!Accepts(k, line) BY <2>4, <2>6 DEF File!Accepts
  <2>8. File!Absorb(k, line) = [k EXCEPT !.final = @ \cup {p.empty}]
    BY <2>4 DEF File!Absorb
  <2>9. /\ Emit(p, line) \in Generators
        /\ Emit(p, line) = [p EXCEPT !.out = Append(p.out, line)]
        /\ Seen(c, Emit(p, line)) = [k EXCEPT !.final = @ \cup {p.empty}]
        /\ ~GoesOn(p, k) => Good(c, Emit(p, line))
    BY <2>4, <2>7, <2>8, EmitRight DEF Judged
  <2>10. /\ q \in Generators /\ q.out = Emit(p, line).out /\ q.deferred = p.deferred
         /\ q.type = p.type /\ q.counter = p.counter /\ q.empty = p.empty
         /\ q.live = p.live /\ q.stored = p.stored
    BY <2>1, <2>9 DEF Generators
  <2>11. l = [k EXCEPT !.final = @ \cup {p.empty}] /\ (~GoesOn(p, k) => Good(c, q))
    BY <2>9, <2>10 DEF Seen, Good
  <2>12. l.db = k.db /\ l.last = k.last
    <3> HIDE DEF k, l
    <3> QED BY <2>5, <2>11 DEF Checkers
  <2>13. Consistent(q, k, owed) /\ (GoesOn(q, k) <=> GoesOn(p, k)) BY <2>10, ConsistentSame
  <2>14. Consistent(q, l, owed) /\ (GoesOn(q, l) <=> GoesOn(p, k))
    <3> HIDE DEF k, l
    <3> QED BY <2>12, <2>13 DEF Consistent, StoredShown, Exact, GoesOn
  <2>15. Judged(c, q) BY <2>11, <2>14 DEF Judged
  <2> QED BY <2>10, <2>12, <2>14, <2>15
<1> QED BY <1>1, <1>2

\* tbdd_done keeps the invariant and prints what a checker accepts.
LEMMA FinishRight ==
  ASSUME IInv, Finish
  PROVE  IInv' /\ StepRight
<1> DEFINE p == Quiet(prover)
           c == checker
           ids == SetToSeq(held)
           q == DeleteClauses(p, ids)
           r == ProcessDeferredDeletions(q)
           d == prover.deferred
           owed == held \cup Named(d)
<1>1. /\ phase = "running" /\ prover' = ProverDone(r)
      /\ checker' = Seen(c, prover') /\ held' = {} /\ phase' = "done"
      /\ UNCHANGED <<session, text>>
  BY DEF Finish, Observe, Seen
<1>2. c \in Checkers /\ prover \in Generators /\ held \in SUBSET Ids /\ c.final = {}
  BY <1>1 DEF IInv, StateType
<1>3. /\ p \in Generators /\ Judged(c, p) /\ Seen(c, p) = c /\ SameButDeleted(prover, p)
      /\ Consistent(p, Seen(c, p), owed) /\ (GoesOn(p, Seen(c, p)) <=> GoesOn(prover, checker))
  BY <1>2, QuietRight DEF IInv, Agreement
<1>4. /\ ids \in Seq(Ids) /\ Named(ids) = held
      /\ \A i, j \in 1..Len(ids) : ids[i] = ids[j] => i = j
  BY <1>2, SetToSeqRight DEF Distinct
<1>5. held \cap Named(d) = {} /\ Distinct(d) BY DEF IInv, OwedOnce
<1>6. Named(ids) \subseteq owed BY <1>4
<1> HIDE DEF p, ids, owed, d
<1>7. c \in Checkers /\ q = DeleteClauses(p, ids) BY <1>2
<1> HIDE DEF c, q
<1>8. /\ q \in Generators /\ Judged(c, q) /\ SameButDeleted(p, q)
      /\ GoesOn(q, Seen(c, q)) <=> GoesOn(p, Seen(c, p))
      /\ Fewer(p, Seen(c, p), Seen(c, q), Named(ids))
      /\ Consistent(q, Seen(c, q), owed \ Named(ids))
  <2>1. LET x == DeleteClauses(p, ids)
        IN  /\ x \in Generators /\ Judged(c, x) /\ SameButDeleted(p, x)
            /\ GoesOn(x, Seen(c, x)) <=> GoesOn(p, Seen(c, p))
            /\ Fewer(p, Seen(c, p), Seen(c, x), Named(ids))
            /\ Consistent(x, Seen(c, x), owed \ Named(ids))
    BY <1>7, <1>3, <1>4, <1>6, DeletionConsistent
  <2> QED BY <2>1, <1>7
<1>9. q.deferred = d BY <1>3, <1>8 DEF SameButDeleted, d
<1>10. owed \ Named(ids) = Named(d) BY <1>4, <1>5 DEF owed
<1>11. Distinct(q.deferred) /\ Named(q.deferred) \subseteq Named(d)
       /\ Consistent(q, Seen(c, q), Named(d))
  BY <1>5, <1>8, <1>9, <1>10
<1>12. /\ r \in Generators /\ Judged(c, r) /\ r.deferred = <<>>
       /\ r.type = q.type /\ r.counter = q.counter /\ r.empty = q.empty
       /\ GoesOn(r, Seen(c, r)) <=> GoesOn(q, Seen(c, q))
       /\ Fewer(q, Seen(c, q), Seen(c, r), Named(d))
       /\ Consistent(r, Seen(c, r), {})
  <2>1. Named(d) \ Named(q.deferred) = {} BY <1>9
  <2>2. r = ProcessDeferredDeletions(q) OBVIOUS
  <2> HIDE DEF r
  <2>3. /\ r \in Generators /\ Judged(c, r) /\ r.deferred = <<>>
        /\ r.type = q.type /\ r.counter = q.counter /\ r.empty = q.empty
        /\ GoesOn(r, Seen(c, r)) <=> GoesOn(q, Seen(c, q))
        /\ Fewer(q, Seen(c, q), Seen(c, r), Named(q.deferred))
        /\ Consistent(r, Seen(c, r), Named(d) \ Named(q.deferred))
    <3> DEFINE o == Named(d)
    <3>1. c \in Checkers /\ q \in Generators /\ Judged(c, q) BY <1>7, <1>8
    <3>2. /\ Distinct(q.deferred) /\ Named(q.deferred) \subseteq o
          /\ Consistent(q, Seen(c, q), o)
      BY <1>11
    <3> HIDE DEF o
    <3>3. /\ r \in Generators /\ Judged(c, r) /\ r.deferred = <<>>
          /\ r.type = q.type /\ r.counter = q.counter /\ r.empty = q.empty
          /\ GoesOn(r, Seen(c, r)) <=> GoesOn(q, Seen(c, q))
          /\ Fewer(q, Seen(c, q), Seen(c, r), Named(q.deferred))
          /\ Consistent(r, Seen(c, r), o \ Named(q.deferred))
      BY <2>2, <3>1, <3>2, ProcessRight
    <3> QED BY <3>3 DEF o
  <2> QED BY <2>1, <2>3, <1>9
<1> HIDE DEF r
<1>13. Seen(c, r).final = {}
  BY <1>2, <1>3, <1>8, <1>12 DEF Fewer, c
<1>14. /\ prover' \in Generators /\ Judged(c, prover') /\ prover'.deferred = <<>>
       /\ GoesOn(prover', Seen(c, prover')) <=> GoesOn(r, Seen(c, r))
       /\ prover'.type = r.type /\ prover'.counter = r.counter /\ prover'.empty = r.empty
       /\ Seen(c, prover').db = Seen(c, r).db /\ Consistent(prover', Seen(c, prover'), {})
  BY <1>1, <1>7, <1>12, <1>13, DoneRight
<1>15. StepRight
  <2>1. ~GoneOn => Good(c, prover')
    BY <1>3, <1>8, <1>12, <1>14, Conditions DEF Judged
  <2>3. ~GoneOn => File!Next BY <2>1, <1>1 DEF File!Next, Good, Seen, c
  <2>2. ASSUME ~Overtaken, NEW i \in DOMAIN c.db, c.db[i] = {} PROVE i \in DOMAIN checker'.db
    <3>4. ~Unprinted(p, Seen(c, p)) BY <2>2, <1>3, Conditions DEF Unprinted, SameButDeleted, c
    <3>5. ~Unprinted(q, Seen(c, q)) BY <3>4, <1>8 DEF Unprinted, SameButDeleted, Fewer
    <3>1. i \in DOMAIN Seen(c, q).db
      BY <3>4, <1>3, <1>6, <1>8, <2>2, RefutationStays
    <3>2. Seen(c, q).db[i] = {} BY <3>1, <2>2, <1>3, <1>8 DEF Fewer
    <3>3. i \in DOMAIN Seen(c, r).db
      BY <3>1, <3>2, <3>5, <1>11, <1>12, RefutationStays
    <3> QED BY <3>3, <1>1, <1>14
  <2> QED BY <2>2, <2>3 DEF StepRight, c
<1>16. Named(prover'.deferred) = {} BY <1>14 DEF Named
<1>17. checker' \in Checkers BY <1>1, <1>7, <1>14, SeenType
<1>18. prover'.empty = prover.empty /\ prover'.counter = prover.counter
  BY <1>3, <1>8, <1>12, <1>14 DEF SameButDeleted
<1>19. StateType'
  BY <1>1, <1>14, <1>17, <1>18 DEF IInv, StateType
<1>20. OwedOnce'
  <2>1. Distinct(<<>>) BY DEF Distinct
  <2> QED BY <2>1, <1>14, <1>16 DEF OwedOnce
<1>21. TextRight'
  <2>1. \A i \in DOMAIN checker'.db : i \in DOMAIN c.db /\ checker'.db[i] = c.db[i]
    BY <1>1, <1>3, <1>8, <1>12, <1>14 DEF Fewer
  <2> QED BY <2>1, <1>1, <1>16, <1>18 DEF IInv, TextRight, c
<1>22. Agreement'
  <2>1. Consistent(prover', checker', held' \cup Named(prover'.deferred))
    BY <1>1, <1>14, <1>16
  <2> QED BY <2>1 DEF Agreement
<1> QED BY <1>15, <1>19, <1>20, <1>21, <1>22 DEF IInv

----------------------------------------------------------------------------
(* generate_clause: a resolvent follows from its two clauses. *)

\* The resolvent of two clauses follows from them by unit propagation, the first
\* clause becoming unit and the second false: the hints generate_clause prints, in their
\* order, justify the clause.
LEMMA ResolventFollows ==
  ASSUME NEW db, NEW i \in DOMAIN db, NEW j \in DOMAIN db,
         db[i] \subseteq Int, db[j] \subseteq Int,
         NEW l \in db[i], -l \in db[j],
         NEW clause, clause = (db[i] \ {l}) \cup (db[j] \ {-l})
  PROVE  File!RupByHints(db, clause, <<i, j>>)
<1> DEFINE hints == <<i, j>>
           Step(before, id) ==
             LET left == {m \in db[id] : -m \notin before.true}
             IN  IF before.state # "open" THEN before
                 ELSE IF id \notin DOMAIN db THEN [before EXCEPT !.state = "failed"]
                 ELSE IF left = {} THEN [before EXCEPT !.state = "conflict"]
                 ELSE IF \E m \in left : left = {m} THEN [before EXCEPT !.true = @ \cup left]
                 ELSE [before EXCEPT !.state = "failed"]
           s0 == [true |-> {-m : m \in clause}, state |-> "open"]
           Body(f) == [n \in 0..Len(hints) |-> IF n = 0 THEN s0 ELSE Step(f[n - 1], hints[n])]
           step == CHOOSE f : f = Body(f)
<1>0. Len(hints) = 2 /\ hints[1] = i /\ hints[2] = j OBVIOUS
<1>1. File!RupByHints(db, clause, hints) <=> step[Len(hints)].state = "conflict"
  BY DEF File!RupByHints
<1>2. l \in Int /\ -l \in Int OBVIOUS
<1>3. \A m \in db[i] : -m \notin s0.true => m = l OBVIOUS
<1>4. \A m \in db[j] : -m \notin s0.true => m = -l OBVIOUS
<1>5. s0.state = "open" OBVIOUS
<1> HIDE DEF s0, hints
<1>6. Step(Step(s0, i), j).state = "conflict"
  <2> DEFINE left == {m \in db[i] : -m \notin s0.true}
  <2>1. s0 = [true |-> s0.true, state |-> "open"] BY DEF s0
  <2>2. CASE left = {}
    <3>1. Step(s0, i) = [s0 EXCEPT !.state = "conflict"] BY <2>2, <1>5
    <3>2. Step(s0, i).state = "conflict" BY <3>1, <2>1
    <3>3. Step(Step(s0, i), j) = Step(s0, i) BY <3>2
    <3> HIDE DEF Step
    <3> QED BY <3>2, <3>3
  <2>3. CASE left # {}
    <3>1. left = {l} BY <2>3, <1>3
    <3> DEFINE s1 == [s0 EXCEPT !.true = @ \cup {l}]
    <3>2. Step(s0, i) = s1
      <4>1. \E m \in left : left = {m} BY <3>1
      <4> QED BY <4>1, <3>1, <1>5
    <3>3. s1.true = s0.true \cup {l} /\ s1.state = "open"
          /\ s1 = [true |-> s1.true, state |-> "open"] BY <2>1
    <3> HIDE DEF s1
    <3>4. {m \in db[j] : -m \notin s1.true} = {}
      <4>1. -(-l) = l BY <1>2
      <4> QED BY <4>1, <3>3, <1>4
    <3>5. Step(s1, j) = [s1 EXCEPT !.state = "conflict"] BY <3>3, <3>4
    <3>6. Step(s1, j).state = "conflict" BY <3>5, <3>3
    <3> HIDE DEF Step
    <3> QED BY <3>2, <3>6
  <2> QED BY <2>2, <2>3
<1> HIDE DEF Step
<1>7. \E f : f = Body(f)
  <2> DEFINE f == [n \in 0..2 |-> IF n = 0 THEN s0 ELSE IF n = 1 THEN Step(s0, i)
                                 ELSE Step(Step(s0, i), j)]
  <2>1. \A n \in 0..2 : n = 0 \/ n = 1 \/ n = 2 OBVIOUS
  <2>2. f[0] = s0 /\ f[1] = Step(s0, i) /\ f[2] = Step(Step(s0, i), j) OBVIOUS
  <2>3. \A n \in 0..2 : f[n] = IF n = 0 THEN s0 ELSE Step(f[n - 1], hints[n])
    BY <2>1, <2>2, <1>0
  <2>4. f = Body(f)
    <3>1. f = [n \in 0..2 |-> f[n]] OBVIOUS
    <3> HIDE DEF f
    <3> QED BY <3>1, <2>3, <1>0
  <2> QED BY <2>4
<1>8. step = Body(step)
  <2> HIDE DEF Body
  <2> QED BY <1>7
<1> HIDE DEF step
<1>9. step[0] = s0 /\ step[1] = Step(step[0], i) /\ step[2] = Step(step[1], j)
  BY <1>8, <1>0
<1>10. step[2].state = "conflict" BY <1>6, <1>9
<1> QED BY <1>0, <1>1, <1>10 DEF hints

\* What the assumptions say of the input clauses.
LEMMA InputFacts ==
  /\ Len(Inputs) \in Nat /\ Len(Inputs) + MaxDerived \in Nat
  /\ Len(Inputs) <= Len(Inputs) + MaxDerived
  /\ InputIds \subseteq Ids /\ \A i \in InputIds : Inputs[i] \in Clauses
<1>1. Inputs \in Seq(Clauses) BY RangeAssumption DEF Clauses, Literals
<1>2. Len(Inputs) \in Nat /\ \A i \in 1..Len(Inputs) : Inputs[i] \in Clauses
  BY <1>1, LenProperties, ElementOfSeq
<1> QED BY <1>2, InputsAssumption DEF InputIds, Ids

\* The generator prover_init leaves.
Fresh(type, finalized) ==
    [type |-> type, variable |-> 2, counter |-> Len(Inputs), live |-> Len(Inputs),
     deletions |-> 0, stored |-> [id \in {} |-> {}], deferred |-> <<>>, empty |-> TAUTOLOGY,
     finalized |-> finalized, out |-> <<>>]

\* A record with fields of the right kinds is a generator.
LEMMA GeneratorOf ==
  ASSUME NEW type \in Types, NEW variable \in Nat, NEW counter \in Nat, NEW live \in Int,
         NEW deletions \in Int, NEW stored \in ClauseMaps, NEW deferred \in Seq(Ids),
         NEW empty \in Ids \cup {TAUTOLOGY}, NEW finalized \in BOOLEAN, NEW lines \in Seq(Lines)
  PROVE  [type |-> type, variable |-> variable, counter |-> counter, live |-> live,
          deletions |-> deletions, stored |-> stored, deferred |-> deferred, empty |-> empty,
          finalized |-> finalized, out |-> lines] \in Generators
<1> DEFINE T == Types
           M == ClauseMaps
           S == Seq(Ids)
           E == Ids \cup {TAUTOLOGY}
           L == Seq(Lines)
<1>1. type \in T /\ stored \in M /\ deferred \in S /\ empty \in E /\ lines \in L OBVIOUS
<1>2. Generators = [type : T, variable : Nat, counter : Nat, live : Int, deletions : Int,
                    stored : M, deferred : S, empty : E, finalized : BOOLEAN, out : L]
  BY DEF Generators
<1> HIDE DEF T, M, S, E, L
<1> QED BY <1>1, <1>2

\* prover_init agrees with a checker that has read the CNF file.
LEMMA FreshRight ==
  ASSUME NEW type \in Types, NEW finalized \in BOOLEAN,
         NEW p, p = Fresh(type, finalized),
         NEW t, t = [i \in InputIds |-> Inputs[i]]
  PROVE  /\ p \in Generators /\ p.counter = Len(Inputs) /\ p.deferred = <<>>
         /\ File!NewChecker \in Checkers /\ File!NewChecker.db = t
         /\ File!NewChecker.final = {} /\ t \in ClauseMaps /\ DOMAIN t = InputIds
         /\ Consistent(p, File!NewChecker, {})
<1> DEFINE k == File!NewChecker
           empty == [id \in {} |-> {}]
<1>1. t \in ClauseMaps /\ DOMAIN t = InputIds
  <2>1. DOMAIN t = InputIds /\ t = [i \in DOMAIN t |-> t[i]] OBVIOUS
  <2>2. \A i \in DOMAIN t : t[i] \in Clauses BY InputFacts
  <2> QED BY <2>1, <2>2, InputFacts, ClauseMapDef
<1>2. k = [db |-> t, last |-> Len(Inputs), final |-> {}]
  BY DEF File!NewChecker, InputIds
<1>3. empty \in ClauseMaps /\ DOMAIN empty = {}
  <2>1. DOMAIN empty = {} /\ empty = [i \in DOMAIN empty |-> empty[i]] OBVIOUS
  <2> HIDE DEF empty
  <2> QED BY <2>1, ClauseMapDef
<1>4. p = [type |-> type, variable |-> 2, counter |-> Len(Inputs), live |-> Len(Inputs),
           deletions |-> 0, stored |-> empty, deferred |-> <<>>, empty |-> TAUTOLOGY,
           finalized |-> finalized, out |-> <<>>]
  BY DEF Fresh
<1>5. <<>> \in Seq(Ids) /\ <<>> \in Seq(Lines) OBVIOUS
<1> HIDE DEF k, empty
<1>6. p \in Generators
  <2> DEFINE n == Len(Inputs)
             q == [type |-> type, variable |-> 2, counter |-> n, live |-> n, deletions |-> 0,
                   stored |-> empty, deferred |-> <<>>, empty |-> TAUTOLOGY,
                   finalized |-> finalized, out |-> <<>>]
  <2>1. /\ 2 \in Nat /\ n \in Nat /\ n \in Int /\ 0 \in Int
        /\ TAUTOLOGY \in Ids \cup {TAUTOLOGY}
    BY InputFacts
  <2>2. p = q BY <1>4
  <2> HIDE DEF n, TAUTOLOGY
  <2>3. q \in Generators BY <2>1, <1>3, <1>5, GeneratorOf, Zenon
  <2> QED BY <2>2, <2>3
<1>7. k \in Checkers BY <1>1, <1>2, InputFacts DEF Checkers
<1>8. /\ p.type = type /\ p.counter = Len(Inputs) /\ p.live = Len(Inputs)
      /\ DOMAIN p.stored = {} /\ p.empty = TAUTOLOGY /\ p.deferred = <<>>
  BY <1>3, <1>4
<1>9. k.db = t /\ k.last = Len(Inputs) /\ k.final = {} BY <1>2
<1>10. Cardinality(InputIds) = Len(Inputs)
  <2> DEFINE n == Len(Inputs)
  <2>1. n \in Nat BY InputFacts
  <2> HIDE DEF n
  <2>2. Cardinality(1..n) = n BY <2>1, FS_Interval
  <2> QED BY <2>2 DEF InputIds, n
<1>11. DOMAIN k.db \ InputIds = {} BY <1>1, <1>9
<1>13. TAUTOLOGY \notin DOMAIN k.db BY <1>1, <1>9, InputFacts, IdsAreNot
<1>12. Consistent(p, k, {})
  BY <1>1, <1>8, <1>9, <1>10, <1>11, <1>13, InputFacts DEF Consistent, StoredShown, Exact, InputIds
<1> QED BY <1>1, <1>6, <1>7, <1>8, <1>9, <1>12 DEF k

\* The first session starts in the invariant.
LEMMA InitRight == Init => IInv
<1> SUFFICES ASSUME Init PROVE IInv OBVIOUS
<1>1. PICK type \in Types : prover = ProverInit(type, 2, Inputs) BY DEF Init
<1>2. prover = Fresh(type, FALSE) BY <1>1 DEF ProverInit, Fresh
<1>3. /\ checker = File!NewChecker /\ held = {} /\ phase = "running" /\ session = 1
      /\ text = [i \in InputIds |-> Inputs[i]]
  BY DEF Init
<1>4. /\ prover \in Generators /\ prover.counter = Len(Inputs) /\ prover.deferred = <<>>
      /\ checker \in Checkers /\ checker.db = text /\ checker.final = {}
      /\ text \in ClauseMaps /\ DOMAIN text = InputIds /\ Consistent(prover, checker, {})
  BY <1>2, <1>3, FreshRight
<1>5. Named(prover.deferred) = {} /\ Distinct(prover.deferred) BY <1>4 DEF Named, Distinct
<1>6. StateType BY <1>3, <1>4, InputFacts DEF StateType
<1>7. OwedOnce BY <1>3, <1>5 DEF OwedOnce
<1>8. TextRight BY <1>3, <1>4, <1>5 DEF TextRight
<1>9. Agreement BY <1>3, <1>4, <1>5 DEF Agreement
<1> QED BY <1>6, <1>7, <1>8, <1>9 DEF IInv

\* So does each later one, whatever empty_clause_finalized was left at.
LEMMA RestartRight ==
  ASSUME IInv, Restart
  PROVE  IInv' /\ session' # session
<1>1. /\ prover' = Fresh(prover.type, prover.finalized)
      /\ checker' = File!NewChecker /\ held' = {} /\ phase' = "running"
      /\ session' = session + 1 /\ text' = [i \in InputIds |-> Inputs[i]]
  BY DEF Restart, ProverInit, Fresh
<1>2. prover.type \in Types /\ prover.finalized \in BOOLEAN /\ session \in Nat
  BY DEF IInv, StateType, Generators
<1>3. /\ prover' \in Generators /\ prover'.counter = Len(Inputs) /\ prover'.deferred = <<>>
      /\ checker' \in Checkers /\ checker'.db = text' /\ checker'.final = {}
      /\ text' \in ClauseMaps /\ DOMAIN text' = InputIds /\ Consistent(prover', checker', {})
  BY <1>1, <1>2, FreshRight
<1>4. Named(prover'.deferred) = {} /\ Distinct(prover'.deferred) BY <1>3 DEF Named, Distinct
<1>5. StateType' BY <1>1, <1>2, <1>3, InputFacts DEF StateType
<1>6. OwedOnce' BY <1>1, <1>4 DEF OwedOnce
<1>7. TextRight' BY <1>1, <1>3, <1>4 DEF TextRight
<1>8. Agreement'
  <2>1. Consistent(prover', checker', held' \cup Named(prover'.deferred)) BY <1>1, <1>3, <1>4
  <2> QED BY <2>1 DEF Agreement
<1> QED BY <1>1, <1>2, <1>5, <1>6, <1>7, <1>8 DEF IInv

----------------------------------------------------------------------------
(* generate_clause. *)

\* q is p after it took and told a clause that is no tautology.
GeneratedRight(p, clause, hints, q) ==
    LET id == p.counter + 1
    IN  /\ q \in Generators /\ q.type = p.type /\ q.counter = id /\ q.live = p.live + 1
        /\ q.deferred = p.deferred /\ q.finalized = p.finalized
        /\ StoresClauses(p) => DOMAIN q.stored = DOMAIN p.stored \cup {id}
        /\ q.empty = (IF clause = {} THEN id ELSE p.empty)
        /\ q.out = (IF p.empty = TAUTOLOGY THEN Append(p.out, Line!AddLine(id, clause, hints))
                   ELSE p.out)

\* generate_clause takes an identifier; it returns that of truth for a tautology and
\* else counts, stores and, before the refutation, prints the clause.
LEMMA GenerateRight ==
  ASSUME NEW p \in Generators, NEW clause \in Clauses, NEW hints \in Seq(Ids),
         p.counter + 1 \in Ids, NEW q, q = GenerateClause(p, clause, hints)
  PROVE  \/ /\ GeneratedId(p, clause) = TAUTOLOGY
            /\ q = [p EXCEPT !.counter = p.counter + 1]
         \/ /\ GeneratedId(p, clause) = p.counter + 1
            /\ GeneratedRight(p, clause, hints, q)
<1> DEFINE id == p.counter + 1
           line == Line!AddLine(id, clause, hints)
           taken == [p EXCEPT !.counter = id]
           lines == IF p.empty = TAUTOLOGY THEN Append(p.out, line) ELSE p.out
           longer == [i \in DOMAIN p.stored \cup {id} |-> IF i = id THEN clause ELSE p.stored[i]]
           stored == IF StoresClauses(p) THEN longer ELSE p.stored
           empty == IF clause = {} THEN id ELSE p.empty
<1>1. p.type # "NONE" BY InputsAssumption DEF Generators
<1>2. TAUTOLOGY \notin clause /\ -TAUTOLOGY \notin clause /\ clause # TautologyClause
  BY DEF Clauses, Literals, TautologyClause, TAUTOLOGY
<1>3. CleanHints(hints) = hints BY CleanHintsOfIds
<1>4. CleanClause(clause) = TautologyClause \/ CleanClause(clause) = clause
  <2>1. clause \ {-TAUTOLOGY} = clause BY <1>2
  <2> QED BY <2>1 DEF CleanClause
<1>5. CASE CleanClause(clause) = TautologyClause
  <2>1. GeneratedId(p, clause) = TAUTOLOGY BY <1>5 DEF GeneratedId
  <2>2. q = taken BY <1>5, <1>1 DEF GenerateClause, GenerateCleaned
  <2> QED BY <2>1, <2>2
<1>6. CASE CleanClause(clause) = clause
  <2>1. GeneratedId(p, clause) = id BY <1>1, <1>2, <1>6 DEF GeneratedId
  <2>2. line \in Lines BY DEF Lines, Line!AddLine
  <2>3. p.out \in Seq(Lines) /\ p.stored \in ClauseMaps /\ p.live \in Int BY DEF Generators
  <2>4. lines \in Seq(Lines) BY <2>2, <2>3, AppendProperties
  <2>5. stored \in ClauseMaps BY <2>3, ClauseMapExtended
  <2>6. id \in Ids /\ id \in Nat /\ p.live + 1 \in Int
    <3>1. id \in Ids /\ p.live + 1 \in Int BY <2>3
    <3>2. Ids \subseteq Nat BY IdsAreNot
    <3> QED BY <3>1, <3>2
  <2>7. empty \in Ids \cup {TAUTOLOGY} BY <2>6 DEF Generators
  <2>8. StoresClauses(p) => DOMAIN stored = DOMAIN p.stored \cup {id} OBVIOUS
  <2>9. q = [(IF p.empty = TAUTOLOGY THEN Emit(taken, line) ELSE taken) EXCEPT
               !.live   = @ + 1,
               !.stored = IF StoresClauses(p)
                          THEN [i \in DOMAIN @ \cup {id} |-> IF i = id THEN clause ELSE @[i]]
                          ELSE @,
               !.empty  = IF clause = {} THEN id ELSE @]
    BY <1>1, <1>2, <1>3, <1>6 DEF GenerateClause, GenerateCleaned
  <2>10. Emit(taken, line) = [taken EXCEPT !.out = Append(p.out, line)] BY DEF Emit, Generators
  <2>11. q = [p EXCEPT !.counter = id, !.live = p.live + 1, !.stored = stored, !.empty = empty,
                       !.out = lines]
    <3> DEFINE told == IF p.empty = TAUTOLOGY THEN Emit(taken, line) ELSE taken
    <3>1. told = [p EXCEPT !.counter = id, !.out = lines]
      <4> HIDE DEF line, id
      <4>1. CASE p.empty = TAUTOLOGY BY <4>1, <2>10
      <4>2. CASE p.empty # TAUTOLOGY BY <4>2 DEF Generators
      <4> QED BY <4>1, <4>2
    <3> HIDE DEF lines, line
    <3>2. told.live = p.live /\ told.stored = p.stored /\ told.empty = p.empty
      BY <3>1 DEF Generators
    <3>3. q = [told EXCEPT
                 !.live   = @ + 1,
                 !.stored = IF StoresClauses(p)
                            THEN [i \in DOMAIN @ \cup {id} |-> IF i = id THEN clause ELSE @[i]]
                            ELSE @,
                 !.empty  = IF clause = {} THEN id ELSE @]
      BY <2>9
    <3> HIDE DEF told, id
    <3>4. q = [told EXCEPT !.live = p.live + 1, !.stored = stored, !.empty = empty]
      BY <3>2, <3>3
    <3> HIDE DEF stored, empty
    <3> QED BY <3>1, <3>4 DEF Generators
  <2> HIDE DEF stored, empty, lines, id
  <2>12. q \in Generators BY <2>4, <2>5, <2>6, <2>7, <2>11 DEF Generators
  <2>13. /\ q.type = p.type /\ q.counter = id /\ q.live = p.live + 1 /\ q.deferred = p.deferred
         /\ q.finalized = p.finalized /\ q.stored = stored /\ q.empty = empty /\ q.out = lines
    BY <2>11 DEF Generators
  <2>14. GeneratedRight(p, clause, hints, q)
    <3>1. StoresClauses(p) => DOMAIN q.stored = DOMAIN p.stored \cup {id} BY <2>8, <2>13
    <3>2. q.empty = (IF clause = {} THEN id ELSE p.empty) BY <2>13 DEF empty
    <3>3. q.out = (IF p.empty = TAUTOLOGY THEN Append(p.out, Line!AddLine(id, clause, hints))
                   ELSE p.out) BY <2>13 DEF lines
    <3> QED BY <2>12, <2>13, <3>1, <3>2, <3>3 DEF GeneratedRight, id
  <2> QED BY <2>1, <2>14 DEF id
<1> QED BY <1>4, <1>5, <1>6

\* The checker after the line of a fresh clause.
Extended(c, id, clause) ==
    [c EXCEPT !.last = id,
              !.db = [i \in DOMAIN c.db \cup {id} |-> IF i = id THEN clause ELSE c.db[i]]]

\* The line of a fresh clause that follows by its hints is accepted.
LEMMA AddLineSeen ==
  ASSUME NEW c \in Checkers, NEW p \in Generators, NEW id \in Ids, NEW clause \in Clauses,
         NEW hints \in Seq(Ids), Good(c, p), Seen(c, p) = c, c.last < id,
         File!RupByHints(c.db, clause, hints),
         NEW q \in Generators, q.out = Append(p.out, Line!AddLine(id, clause, hints))
  PROVE  Good(c, q) /\ Seen(c, q) = Extended(c, id, clause)
<1> DEFINE line == Line!AddLine(id, clause, hints)
           more == [i \in DOMAIN c.db \cup {id} |-> IF i = id THEN clause ELSE c.db[i]]
<1>1. line = [kind |-> "add", id |-> id, clause |-> clause, hints |-> hints]
  BY DEF Line!AddLine
<1> HIDE DEF line
<1>2. /\ line \in Lines /\ line.kind = "add" /\ line.id = id /\ line.clause = clause
      /\ line.hints = hints
  BY <1>1 DEF Lines
<1>3. File!Accepts(c, line) BY <1>2 DEF File!Accepts
<1>4. File!Absorb(c, line) = [c EXCEPT !.last = id, !.db = more] BY <1>2 DEF File!Absorb
<1> HIDE DEF more
<1>5. /\ Seen(c, Emit(p, line)) = [c EXCEPT !.last = id, !.db = more] /\ Good(c, Emit(p, line))
      /\ Emit(p, line) = [p EXCEPT !.out = Append(p.out, line)]
  BY <1>2, <1>3, <1>4, EmitRight
<1>6. Emit(p, line).out = q.out BY <1>5 DEF Generators, line
<1> QED BY <1>5, <1>6 DEF Seen, Good, more, Extended

\* Deriving a resolvent keeps the invariant and prints what a checker accepts.
LEMMA DeriveRight ==
  ASSUME IInv, NEW i \in Citable, NEW j \in Citable,
         NEW l \in text[i], Derive(i, j, l)
  PROVE  IInv' /\ StepRight
<1> DEFINE p == Quiet(prover)
           c == checker
           d == prover.deferred
           owed == held \cup Named(d)
           clause == Resolvent(i, j, l)
           hints == <<i, j>>
           id == prover.counter + 1
<1>1. /\ phase = "running" /\ prover.counter < Len(Inputs) + MaxDerived
      /\ -l \in text[j] /\ prover' = GenerateClause(p, clause, hints)
      /\ checker' = Seen(c, prover') /\ UNCHANGED <<phase, session>>
  BY DEF Derive, Observe, Seen
<1>2. /\ GeneratedId(p, clause) = TAUTOLOGY => UNCHANGED <<held, text>>
      /\ GeneratedId(p, clause) # TAUTOLOGY =>
           /\ held' = held \cup {GeneratedId(p, clause)}
           /\ text' = [k \in DOMAIN text \cup {GeneratedId(p, clause)} |->
                         IF k = GeneratedId(p, clause) THEN clause ELSE text[k]]
  BY DEF Derive
<1>3. /\ c \in Checkers /\ prover \in Generators /\ held \in SUBSET Ids /\ text \in ClauseMaps
      /\ c.final = {} /\ d \in Seq(Ids)
  BY <1>1 DEF IInv, StateType, Generators
<1>4. /\ p \in Generators /\ Good(c, p) /\ Seen(c, p) = c /\ SameButDeleted(prover, p)
      /\ Consistent(p, c, owed)
  BY <1>3, QuietRight DEF IInv, Agreement
<1>5. /\ p.type = prover.type /\ p.counter = prover.counter /\ p.deferred = d
      /\ p.empty = prover.empty
  BY <1>4 DEF SameButDeleted
<1>6. id \in Ids /\ id \in Nat /\ prover.counter \in Nat /\ id # TAUTOLOGY
  BY <1>1, <1>3, InputFacts, IdsAreNot DEF Generators, Ids
<1>7. Deferred = Named(d) BY <1>3, RangeEquality DEF Deferred, Named
<1>8. Citable = InputIds \cup owed BY <1>7 DEF Citable
<1>9. i \in DOMAIN text /\ j \in DOMAIN text /\ i \in Ids /\ j \in Ids
  BY <1>3, <1>8, ClauseMapDef DEF IInv, TextRight
<1>10. text[i] \in Clauses /\ text[j] \in Clauses BY <1>3, <1>9, ClauseMapDef
<1>11. clause \in Clauses BY <1>10 DEF Clauses, Resolvent
<1>12. hints \in Seq(Ids) BY <1>9
<1>13. clause = (text[i] \ {l}) \cup (text[j] \ {-l}) BY DEF Resolvent
<1> HIDE DEF p, c, clause, hints, id
<1>14. /\ c.last <= prover.counter /\ DOMAIN c.db \subseteq 1..prover.counter
       /\ owed \subseteq 1..prover.counter /\ InputIds \subseteq DOMAIN c.db
       /\ owed \cap InputIds = {} /\ (p.empty # TAUTOLOGY => p.empty <= prover.counter)
  BY <1>4, <1>5 DEF Consistent
<1>15. id \notin DOMAIN c.db /\ id \notin owed /\ id \notin InputIds /\ c.last < id
  BY <1>3, <1>6, <1>14 DEF id, Checkers
<1>16. 1..prover.counter \subseteq 1..id /\ id \in 1..id
  BY <1>6 DEF id
<1>17. checker \in Checkers /\ c \in Checkers /\ c = checker BY <1>3 DEF c
<1>18. \/ /\ GeneratedId(p, clause) = TAUTOLOGY
          /\ prover' = [p EXCEPT !.counter = id]
       \/ /\ GeneratedId(p, clause) = id
          /\ GeneratedRight(p, clause, hints, prover')
  <2>1. p.counter + 1 = id BY <1>5 DEF id
  <2>2. p.counter + 1 \in Ids BY <2>1, <1>6
  <2>3. \/ /\ GeneratedId(p, clause) = TAUTOLOGY
           /\ prover' = [p EXCEPT !.counter = p.counter + 1]
        \/ /\ GeneratedId(p, clause) = p.counter + 1
           /\ GeneratedRight(p, clause, hints, prover')
    BY <2>2, <1>1, <1>4, <1>11, <1>12, GenerateRight
  <2> QED BY <2>1, <2>3
<1>19. id <= Len(Inputs) + MaxDerived BY <1>6, IdsAreNot DEF Ids
<1>20. CASE /\ GeneratedId(p, clause) = TAUTOLOGY
            /\ prover' = [p EXCEPT !.counter = id]
  <2>1. /\ prover' \in Generators /\ prover'.counter = id /\ prover'.type = p.type
        /\ prover'.empty = p.empty /\ prover'.live = p.live /\ prover'.stored = p.stored
        /\ prover'.deferred = d /\ prover'.out = p.out
    BY <1>20, <1>4, <1>5, <1>6 DEF Generators
  <2>2. UNCHANGED <<held, text>> BY <1>20, <1>2
  <2>3. checker' = c /\ Good(c, prover') BY <1>1, <1>4, <2>1 DEF Seen, Good
  <2>4. StepRight
    <3>1. File!Next BY <1>1, <1>17, <2>3 DEF File!Next, Good, Seen
    <3> QED BY <3>1, <1>17, <2>3 DEF StepRight
  <2>5. Consistent(prover', c, owed)
    <3>1. c.last <= id BY <1>3, <1>14, <1>6 DEF id, Checkers
    <3>2. ~GoesOn(prover', c) => Exact(prover', c)
      <4>1. ~GoesOn(prover', c) => ~GoesOn(p, c)
        <5>1. p.counter = prover.counter /\ id = prover.counter + 1 /\ prover.counter \in Nat
          BY <1>5, <1>6 DEF id
        <5>2. p.empty \in Ids \cup {TAUTOLOGY} BY <1>4 DEF Generators
        <5>3. Ids \subseteq Nat BY IdsAreNot
        <5> HIDE DEF TAUTOLOGY
        <5> QED BY <5>1, <5>2, <5>3, <2>1, <1>14 DEF GoesOn
      <4> QED BY <4>1, <2>1, <1>4 DEF Exact, Consistent
    <3>3. prover'.empty # TAUTOLOGY => prover'.empty <= id
      <4>1. p.empty \in Ids \cup {TAUTOLOGY} BY <1>4 DEF Generators
      <4>2. id = prover.counter + 1 /\ prover.counter \in Nat BY <1>6 DEF id
      <4>3. Ids \subseteq Nat BY IdsAreNot
      <4>4. ASSUME p.empty # TAUTOLOGY PROVE p.empty <= id
        <5>1. p.empty \in Nat /\ p.empty <= prover.counter BY <4>1, <4>3, <4>4, <1>14
        <5> QED BY <5>1, <4>2
      <4>5. prover'.empty = p.empty BY <2>1
      <4> QED BY <4>4, <4>5, Zenon
    <3> QED BY <3>1, <3>2, <3>3, <2>1, <1>4, <1>5, <1>14, <1>16 DEF Consistent, StoredShown
  <2>6. StateType' BY <1>1, <1>17, <1>19, <2>1, <2>2, <2>3, <1>5 DEF IInv, StateType
  <2>7. OwedOnce' BY <2>1, <2>2 DEF IInv, OwedOnce
  <2>8. TextRight' BY <1>5, <1>17, <2>1, <2>2, <2>3 DEF IInv, TextRight
  <2>9. Agreement'
    <3>1. Consistent(prover', checker', held' \cup Named(prover'.deferred))
      BY <2>1, <2>2, <2>3, <2>5
    <3> QED BY <3>1 DEF Agreement
  <2> QED BY <2>4, <2>6, <2>7, <2>8, <2>9 DEF IInv
<1>21. CASE /\ GeneratedId(p, clause) = id
            /\ GeneratedRight(p, clause, hints, prover')
  <2>1. /\ prover' \in Generators /\ prover'.type = p.type /\ prover'.counter = id
        /\ prover'.live = p.live + 1 /\ prover'.deferred = d
        /\ StoresClauses(p) => DOMAIN prover'.stored = DOMAIN p.stored \cup {id}
        /\ prover'.empty = (IF clause = {} THEN id ELSE p.empty)
        /\ prover'.out = (IF p.empty = TAUTOLOGY
                         THEN Append(p.out, Line!AddLine(id, clause, hints)) ELSE p.out)
    BY <1>21, <1>5 DEF GeneratedRight, id
  <2>2. /\ held' = held \cup {id}
        /\ text' = [k \in DOMAIN text \cup {id} |-> IF k = id THEN clause ELSE text[k]]
    BY <1>21, <1>2, <1>6
  <2>3. held' \cup Named(prover'.deferred) = owed \cup {id} BY <2>1, <2>2
  <2>4. text' \in ClauseMaps BY <2>2, <1>3, <1>6, <1>11, ClauseMapExtended
  <2>5. /\ DOMAIN text' = DOMAIN text \cup {id} /\ text'[id] = clause
        /\ \A k \in DOMAIN text : k # id => text'[k] = text[k]
    BY <2>2
  <2>6. OwedOnce' BY <2>1, <2>2, <1>15 DEF IInv, OwedOnce
  <2>7. CASE p.empty = TAUTOLOGY
    <3> DEFINE k == Seen(c, prover')
    <3>1. /\ i \in DOMAIN c.db /\ j \in DOMAIN c.db
          /\ c.db[i] = text[i] /\ c.db[j] = text[j]
      BY <2>7, <1>4, <1>5, <1>8, <1>14, <1>17 DEF Consistent, IInv, TextRight
    <3>2. File!RupByHints(c.db, clause, hints)
      <4>1. c.db[i] \subseteq Int /\ c.db[j] \subseteq Int
        BY <3>1, <1>10 DEF Clauses, Literals
      <4>2. l \in c.db[i] /\ -l \in c.db[j]
            /\ clause = (c.db[i] \ {l}) \cup (c.db[j] \ {-l})
        BY <3>1, <1>1, <1>13
      <4> QED BY <3>1, <4>1, <4>2, ResolventFollows DEF hints
    <3>3. Good(c, prover') /\ k = Extended(c, id, clause)
      <4>1. prover'.out = Append(p.out, Line!AddLine(id, clause, hints)) BY <2>1, <2>7
      <4>2. /\ c \in Checkers /\ p \in Generators /\ id \in Ids /\ Good(c, p)
            /\ Seen(c, p) = c /\ c.last < id /\ prover' \in Generators
        BY <2>1, <1>4, <1>6, <1>15, <1>17
      <4> HIDE DEF k
      <4>3. ASSUME NEW q \in Generators, q.out = Append(p.out, Line!AddLine(id, clause, hints))
            PROVE  Good(c, q) /\ Seen(c, q) = Extended(c, id, clause)
        BY <4>2, <4>3, <3>2, <1>11, <1>12, AddLineSeen
      <4> QED BY <4>1, <4>2, <4>3 DEF k
    <3>4. /\ k.last = id /\ DOMAIN k.db = DOMAIN c.db \cup {id} /\ k.final = c.final
          /\ k.db[id] = clause /\ \A n \in DOMAIN c.db : n # id => k.db[n] = c.db[n]
      <4> HIDE DEF k
      <4> QED BY <3>3, <1>17 DEF Checkers, Extended
    <3>5. k \in Checkers BY <1>17, <2>1, SeenType
    <3> HIDE DEF k
    <3>6. checker' = k BY <1>1 DEF k
    <3>7. StepRight
      <4>1. File!Next BY <1>1, <1>17, <3>3 DEF File!Next, Good, Seen
      <4> QED BY <4>1, <1>17, <3>4, <3>6 DEF StepRight
    <3>8. StateType'
      BY <1>1, <1>3, <1>6, <1>19, <2>1, <2>2, <2>4, <3>4, <3>5, <3>6 DEF IInv, StateType
    <3>9. TextRight'
      <4>1. InputIds \cup held' \cup Named(prover'.deferred) \subseteq DOMAIN text'
        BY <2>3, <2>5 DEF IInv, TextRight
      <4>2. \A n \in DOMAIN k.db : n \in DOMAIN text' /\ k.db[n] = text'[n]
        BY <2>5, <2>7, <3>4, <1>5, <1>15, <1>17 DEF IInv, TextRight
      <4> QED BY <4>1, <4>2, <3>6 DEF TextRight
    <3>10. Consistent(prover', k, owed \cup {id})
      <4>0. TAUTOLOGY \notin DOMAIN c.db
        BY <1>17, ClauseMapDef, IdsAreNot DEF Checkers
      <4>1. /\ k.last <= id /\ DOMAIN k.db \subseteq 1..id /\ InputIds \subseteq DOMAIN k.db
            /\ owed \cup {id} \subseteq 1..id /\ (owed \cup {id}) \cap InputIds = {}
        BY <3>4, <1>6, <1>14, <1>15, <1>16
      <4>2. owed \cup {id} \subseteq DOMAIN k.db
        BY <2>7, <3>4, <1>4 DEF Consistent
      <4>3. StoredShown(prover', k)
        BY <2>1, <2>7, <3>4, <1>4, <1>15 DEF Consistent, StoredShown, StoresClauses
      <4>4. p.type = "FRAT" =>
              \A n \in DOMAIN k.db \ InputIds : n \in owed \cup {id} \/ k.db[n] = {}
        <5>1. p.type = "FRAT" => \A n \in DOMAIN c.db \ InputIds : n \in owed \/ c.db[n] = {}
          BY <1>4 DEF Consistent
        <5> QED BY <5>1, <3>4
      <4>8. ~GoesOn(prover', k) => Exact(prover', k)
        <5>1. Exact(p, c) BY <2>7, <1>4 DEF Consistent, GoesOn
        <5> QED BY <5>1, <2>1, <3>4, <1>15 DEF Exact, StoresClauses
      <4>9. prover'.empty # TAUTOLOGY => prover'.empty <= id
        BY <2>1, <2>7, <1>6
      <4>5. p.type # "DRAT" => prover'.live = Cardinality(DOMAIN k.db)
        <5>1. IsFiniteSet(DOMAIN c.db)
          <6> DEFINE n == prover.counter
          <6>1. n \in Nat /\ DOMAIN c.db \subseteq 1..n BY <1>6, <1>14
          <6> HIDE DEF n
          <6>2. IsFiniteSet(1..n) BY <6>1, FS_Interval
          <6> QED BY <6>1, <6>2, FS_Subset
        <5>2. Cardinality(DOMAIN c.db \cup {id}) = Cardinality(DOMAIN c.db) + 1
          BY <5>1, <1>15, FS_AddElement
        <5> QED BY <5>2, <2>1, <2>7, <3>4, <1>4 DEF Consistent
      <4>6. prover'.empty \in DOMAIN k.db => k.db[prover'.empty] = {}
        BY <4>0, <2>1, <2>7, <3>4, <1>6, <1>15
      <4>7. \A n \in DOMAIN k.db \ InputIds : k.db[n] = {} =>
              prover'.empty # TAUTOLOGY /\ n = prover'.empty
        <5>1. \A n \in DOMAIN c.db \ InputIds : c.db[n] # {}
          BY <2>7, <1>4 DEF Consistent
        <5> QED BY <5>1, <2>1, <3>4, <1>6, <1>15
      <4> QED BY <4>1, <4>2, <4>3, <4>4, <4>5, <4>6, <4>7, <4>8, <4>9, <2>1
             DEF Consistent
    <3>11. Agreement'
      <4>1. Consistent(prover', checker', held' \cup Named(prover'.deferred))
        BY <2>3, <3>6, <3>10
      <4> QED BY <4>1 DEF Agreement
    <3> QED BY <2>6, <3>7, <3>8, <3>9, <3>11 DEF IInv
  <2>8. CASE p.empty # TAUTOLOGY
    <3>2. checker' = c /\ Good(c, prover') BY <1>1, <1>4, <2>1, <2>8 DEF Seen, Good
    <3>3. prover'.empty # TAUTOLOGY BY <2>1, <2>8, <1>6
    <3>4. StepRight
      <4>1. File!Next BY <1>1, <1>17, <3>2 DEF File!Next, Good, Seen
      <4> QED BY <4>1, <1>17, <3>2 DEF StepRight
    <3>5. StateType'
      BY <1>1, <1>3, <1>6, <1>19, <2>1, <2>2, <2>4, <3>2 DEF IInv, StateType
    <3>6. TextRight'
      <4>1. InputIds \cup held' \cup Named(prover'.deferred) \subseteq DOMAIN text'
        BY <2>3, <2>5 DEF IInv, TextRight
      <4> QED BY <4>1, <3>3 DEF TextRight
    <3>7. Consistent(prover', c, owed \cup {id})
      <4>1. c.last <= id BY <1>3, <1>14, <1>6 DEF id, Checkers
      <4>2. p.empty \in Nat /\ p.empty <= prover.counter /\ p.empty < id
        <5>1. p.empty \in Ids BY <2>8, <1>4 DEF Generators
        <5>2. p.empty \in Nat BY <5>1, IdsAreNot
        <5> QED BY <5>2, <2>8, <1>6, <1>14 DEF id
      <4>3. DOMAIN c.db \subseteq 1..id /\ owed \cup {id} \subseteq 1..id
            /\ (owed \cup {id}) \cap InputIds = {}
        BY <1>14, <1>15, <1>16
      <4>4. StoredShown(prover', c)
        BY <2>1, <3>3, <1>4 DEF Consistent, StoredShown, StoresClauses
      <4>5. GoesOn(prover', c) \/ Exact(prover', c)
        BY <2>1, <3>3, <4>2, <1>15 DEF GoesOn, Exact
      <4>6. prover'.type = "FRAT" =>
              \A n \in DOMAIN c.db \ InputIds : n \in owed \cup {id} \/ c.db[n] = {}
        BY <2>1, <1>4 DEF Consistent
      <4>7. prover'.empty <= id BY <2>1, <4>2, <1>6
      <4>8. prover'.empty \in DOMAIN c.db => prover'.empty = p.empty BY <2>1, <1>15
      <4>9. prover'.type = "FRAT" /\ prover'.empty \in DOMAIN c.db => c.db[prover'.empty] = {}
        BY <2>1, <4>8, <1>4 DEF Consistent
      <4>10. \A n \in DOMAIN c.db \ InputIds : c.db[n] = {} =>
               (prover'.type = "FRAT" /\ prover'.empty \in DOMAIN c.db => n = prover'.empty)
        BY <2>1, <4>8, <1>4 DEF Consistent
      <4> QED BY <4>1, <4>3, <4>4, <4>5, <4>6, <4>7, <4>9, <4>10, <2>1, <3>3, <1>14
             DEF Consistent
    <3>8. Agreement'
      <4>1. Consistent(prover', checker', held' \cup Named(prover'.deferred))
        BY <2>3, <3>2, <3>7
      <4> QED BY <4>1 DEF Agreement
    <3> QED BY <2>6, <3>4, <3>5, <3>6, <3>8 DEF IInv
  <2> QED BY <2>7, <2>8
<1> QED BY <1>18, <1>20, <1>21

----------------------------------------------------------------------------
(* The theorems. *)

\* Every step keeps the invariant, and within a session it is right.
LEMMA StepKeeps ==
  ASSUME IInv, [Next]_vars
  PROVE  IInv' /\ (session' = session /\ vars' # vars => StepRight)
<1>1. ASSUME NEW i \in Citable, NEW j \in Citable, NEW l \in text[i], Derive(i, j, l)
      PROVE  IInv' /\ StepRight
  BY <1>1, DeriveRight
<1>2. ASSUME NEW id \in held, Release(id)
      PROVE  IInv' /\ StepRight
  BY <1>2, ReleaseRight
<1>3. ASSUME NEW id \in held, Evict(id)
      PROVE  IInv' /\ StepRight
  BY <1>3, EvictRight
<1>4. CASE EndOperation BY <1>4, EndOperationRight
<1>5. CASE Finish BY <1>5, FinishRight
<1>6. CASE Restart BY <1>6, RestartRight
<1>7. CASE UNCHANGED vars
  BY <1>7 DEF vars, IInv, StateType, OwedOnce, TextRight, Agreement
<1> QED BY <1>1, <1>2, <1>3, <1>4, <1>5, <1>6, <1>7 DEF Next

\* The invariant holds throughout: in particular the types, that no clause is owed two
\* deletions, and that generator, client and checker agree on the clauses.
THEOREM InvariantHolds ==
  Spec => []IInv
<1>1. Init => IInv BY InitRight
<1>2. IInv /\ [Next]_vars => IInv' BY StepKeeps
<1> QED BY <1>1, <1>2, PTL DEF Spec

\* Within a session every line the generator prints is one a checker accepts
\* (generate_clause, delete_clauses, prover_done): its steps are steps of Proof, until the
\* client of a FRAT proof goes on after the empty clause.
THEOREM FileAcceptedHolds ==
  Spec => FileAccepted
<1>1. IInv /\ [Next]_vars => [session' = session /\ ~GoneOn => File!Next]_vars
  BY StepKeeps DEF StepRight
<1> QED BY <1>1, InvariantHolds, PTL DEF Spec, FileAccepted

\* No step of a session takes an empty clause out of the file, in any format and with a
\* client that goes on after the refutation (delete_clauses: "Empty clause should not be
\* deleted"), unless a FRAT proof keeps an empty clause that was never printed.
THEOREM RefutationKeptHolds ==
  Spec => RefutationKept
<1>1. IInv /\ [Next]_vars =>
        [\A id \in DOMAIN checker.db :
           session' = session /\ checker.db[id] = {} /\ ~Overtaken => id \in DOMAIN checker'.db]_vars
  BY StepKeeps DEF StepRight
<1> QED BY <1>1, InvariantHolds, PTL DEF Spec, RefutationKept

\* When a FRAT session is over only the input and empty clauses are left, even with a
\* client that went on after the refutation, and before it live_clause_count is the number
\* of clauses a checker holds.
THEOREM NothingLeaksHolds ==
  Spec => []NothingLeaks
<1>1. IInv => NothingLeaks
  <2> SUFFICES ASSUME IInv PROVE NothingLeaks OBVIOUS
  <2>1. Consistent(prover, checker, held \cup Named(prover.deferred)) BY DEF IInv, Agreement
  <2>2. ASSUME phase = "done", prover.type = "FRAT", NEW id \in DOMAIN checker.db \ InputIds
        PROVE  checker.db[id] = {}
    <3>1. held \cup Named(prover.deferred) = {}
      BY <2>2 DEF IInv, StateType, Named
    <3> QED BY <3>1, <2>1, <2>2 DEF Consistent
  <2>3. prover.type # "DRAT" /\ ~Refuted => prover.live = Cardinality(DOMAIN checker.db)
    BY <2>1 DEF Consistent, Refuted
  <2> QED BY <2>2, <2>3 DEF NothingLeaks
<1> QED BY <1>1, InvariantHolds, PTL
=============================================================================
