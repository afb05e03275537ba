------------------------------- MODULE Proof -------------------------------
(***************************************************************************)
(* What a clausal proof file promises: the abstract specification of the   *)
(* output of the trusted BDD package.                                      *)
(*                                                                         *)
(* A proof file is a list of lines.  A line adds a clause under an         *)
(* identifier, together with the identifiers of the clauses it follows     *)
(* from (its hints), deletes clauses, or finalizes a clause.  A checker    *)
(* reads the lines in order and keeps the clauses added and not yet        *)
(* deleted.  The specification lets the file grow by any lines such a      *)
(* checker accepts, and by no others.  The package is correct when what it *)
(* prints implements this specification.                                   *)
(*                                                                         *)
(* Literals are nonzero integers, a clause is a set of literals, and the   *)
(* LRAT convention holds that the negative hints of a line name the        *)
(* clauses resolved on its pivot.                                          *)
(***************************************************************************)
EXTENDS Integers, Sequences

CONSTANT InputClauses   \* the clauses of the CNF file; clause i has identifier i

VARIABLES
    checker,            \* what a checker knows after the lines printed so far
    out                 \* the lines printed by the latest step

proofVars == <<checker, out>>

----------------------------------------------------------------------------
(* Lines.                                                                  *)

AddLine(id, clause, hints) ==
    [kind |-> "add", id |-> id, clause |-> clause, hints |-> hints]
DeleteLine(ids)  == [kind |-> "delete", ids |-> ids]
FinalizeLine(id) == [kind |-> "finalize", id |-> id]

----------------------------------------------------------------------------
(* The checker.  db maps the identifiers it holds to their clauses.        *)

Magnitude(l) == IF l < 0 THEN -l ELSE l

\* The literal a definition introduces: the newest variable of the clause.
Pivot(clause) ==
    CHOOSE l \in clause : \A m \in clause : Magnitude(m) <= Magnitude(l)

\* Unit propagation through the hints, in order, from the negated clause.
\* Each hint must become unit, or false, under what is known so far.
RupByHints(db, clause, hints) ==
    LET step[i \in 0..Len(hints)] ==
          IF i = 0 THEN [true |-> {-l : l \in clause}, state |-> "open"]
          ELSE LET before == step[i - 1]
                   left   == {l \in db[hints[i]] : -l \notin before.true}
               IN  IF before.state # "open" THEN before
                   ELSE IF hints[i] \notin DOMAIN db
                        THEN [before EXCEPT !.state = "failed"]
                   ELSE IF left = {} THEN [before EXCEPT !.state = "conflict"]
                   ELSE IF \E l \in left : left = {l}
                        THEN [before EXCEPT !.true = @ \cup left]
                   ELSE [before EXCEPT !.state = "failed"]
    IN  step[Len(hints)].state = "conflict"

\* A definition: no clause contradicts the pivot except those named by negative
\* hints, and each of these has a second literal clashing with the clause.
DefinesPivot(db, clause, hints) ==
    LET p == Pivot(clause)
        against == {id \in DOMAIN db : -p \in db[id]}
    IN  /\ clause # {}
        /\ {hints[i] : i \in 1..Len(hints)} = {-id : id \in against}
        /\ \A id \in against : \E l \in clause \ {p} : -l \in db[id]

\* A clause no weaker than one the checker holds needs no hint.
Subsumed(db, clause) == \E id \in DOMAIN db : db[id] \subseteq clause

Accepts(c, line) ==
    CASE line.kind = "add" ->
            /\ line.id > c.last
            /\ \/ RupByHints(c.db, line.clause, line.hints)
               \/ DefinesPivot(c.db, line.clause, line.hints)
               \/ line.hints = <<>> /\ Subsumed(c.db, line.clause)
      [] line.kind = "delete" ->
            \A i \in 1..Len(line.ids) :
                /\ line.ids[i] \in DOMAIN c.db
                /\ \A j \in 1..(i - 1) : line.ids[j] # line.ids[i]
      [] line.kind = "finalize" -> line.id \in DOMAIN c.db /\ line.id \notin c.final

Absorb(c, line) ==
    CASE line.kind = "add" ->
            [c EXCEPT !.last = line.id,
                      !.db = [id \in DOMAIN c.db \cup {line.id} |->
                                IF id = line.id THEN line.clause ELSE c.db[id]]]
      [] line.kind = "delete" ->
            LET gone == {line.ids[i] : i \in 1..Len(line.ids)}
            IN  [c EXCEPT !.db = [id \in DOMAIN c.db \ gone |-> c.db[id]]]
      [] line.kind = "finalize" -> [c EXCEPT !.final = @ \cup {line.id}]

\* The checker after the first n of the lines.
Replay(c, lines) ==
    LET after[n \in 0..Len(lines)] ==
          IF n = 0 THEN c ELSE Absorb(after[n - 1], lines[n])
    IN  after

AcceptsAll(c, lines) ==
    \A n \in 1..Len(lines) : Accepts(Replay(c, lines)[n - 1], lines[n])

AbsorbAll(c, lines) == Replay(c, lines)[Len(lines)]

----------------------------------------------------------------------------
(* The specification.                                                      *)

NewChecker ==
    [db    |-> [id \in 1..Len(InputClauses) |-> InputClauses[id]],
     last  |-> Len(InputClauses),
     final |-> {}]

Init == checker = NewChecker /\ out = <<>>

Next == AcceptsAll(checker, out') /\ checker' = AbsorbAll(checker, out')

Spec == Init /\ [][Next]_proofVars
============================================================================
