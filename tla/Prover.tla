------------------------------- MODULE Prover -------------------------------
(***************************************************************************)
(* The proof generator (prover.c): the numbering of clauses, the lines it  *)
(* prints, the deletions it defers, its treatment of the empty clause, and *)
(* the search for the hints a step needs.                                  *)
(*                                                                         *)
(* The generator's file-level variables are one record, and each function  *)
(* of the C interface is an operator from the record before a call to the  *)
(* record after it, so that the callers' modules can describe a handler    *)
(* that makes several calls.  Field out collects the lines printed since   *)
(* Quiet, the caller's mark of a new step.                                 *)
(***************************************************************************)
EXTENDS Integers, Sequences, FiniteSets, SequencesExt

Line == INSTANCE Proof WITH InputClauses <- <<>>, checker <- <<>>, out <- <<>>

\* INT_MAX stands for truth: a literal, a clause identifier or a hint.
TAUTOLOGY == 2147483647
TautologyClause == {TAUTOLOGY}

ProofTypes == {"LRAT", "DRAT", "FRAT", "NONE"}

----------------------------------------------------------------------------
(* State.                                                                  *)

\* prover_init, given the shared counters and the clauses of the CNF file.
\* Only LRAT callers hand the clauses over.
ProverInit(type, variables, inputs) ==
    [type      |-> type,
     variable  |-> variables,                  \* *variable_counter
     counter   |-> Len(inputs),                \* *clause_id_counter
     live      |-> Len(inputs),                \* live_clause_count
     deletions |-> 0,                          \* deleted_clause_count
     stored    |-> [id \in {} |-> {}],         \* all_clauses, beyond the input
     deferred  |-> <<>>,                       \* deferred_deletion_list
     empty     |-> TAUTOLOGY,                  \* empty_clause_id
     finalized |-> FALSE,                      \* empty_clause_finalized
     out       |-> <<>>]

Quiet(p) == [p EXCEPT !.out = <<>>]

Emit(p, line) == [p EXCEPT !.out = Append(@, line)]

----------------------------------------------------------------------------
(* Clauses and hints.                                                      *)

\* clean_clause: a clause is the set of its literals, without the false ones;
\* it is the tautology when it holds truth or a complementary pair.
CleanClause(literals) ==
    IF TAUTOLOGY \in literals \/ \E l \in literals : -l \in literals
    THEN TautologyClause
    ELSE literals \ {-TAUTOLOGY}

\* clean_hints: without the hints that say nothing, in the same order.
CleanHints(ids) ==
    LET kept[i \in 0..Len(ids)] ==
          IF i = 0 THEN <<>>
          ELSE IF ids[i] = TAUTOLOGY THEN kept[i - 1] ELSE Append(kept[i - 1], ids[i])
    IN  kept[Len(ids)]

\* The four clauses defining node nid = ITE(vid, hid, lid), in the order of
\* their identifiers.
DefiningClause(dtype, nid, vid, hid, lid) ==
    CASE dtype = "HU" -> { nid, -vid, -hid}
      [] dtype = "LU" -> { nid,  vid, -lid}
      [] dtype = "HD" -> {-nid, -vid,  hid}
      [] dtype = "LD" -> {-nid,  vid,  lid}

----------------------------------------------------------------------------
(* generate_clause.                                                        *)

StoresClauses(p) == p.type \in {"DRAT", "FRAT"}

\* The identifier a call returns.
GeneratedId(p, literals) ==
    IF p.type = "NONE" \/ CleanClause(literals) = TautologyClause
    THEN TAUTOLOGY
    ELSE p.counter + 1

\* Every call takes an identifier, a tautology's too.  Nothing is printed once
\* the empty clause has been derived, but the clause is still counted.
GenerateCleaned(p, clause, hints) ==
    LET id     == p.counter + 1
        line   == Line!AddLine(id, clause, hints)
        taken  == [p EXCEPT !.counter = id]
        told   == IF p.empty = TAUTOLOGY THEN Emit(taken, line) ELSE taken
    IN  IF p.type = "NONE" THEN p
        ELSE IF clause = TautologyClause THEN taken
        ELSE [told EXCEPT
                !.live   = @ + 1,
                !.stored = IF StoresClauses(p)
                           THEN [i \in DOMAIN @ \cup {id} |->
                                   IF i = id THEN clause ELSE @[i]]
                           ELSE @,
                !.empty  = IF clause = {} THEN id ELSE @]

GenerateClause(p, literals, hints) ==
    GenerateCleaned(p, CleanClause(literals), CleanHints(hints))

----------------------------------------------------------------------------
(* delete_clauses and the deferred deletions.                              *)

\* DRAT and FRAT look each clause up and print a line of its own; the empty
\* clause stays, and so do the unit clauses of a DRAT proof.
DeleteStored(p, id) ==
    IF \/ id \notin DOMAIN p.stored
       \/ id = p.empty
       \/ p.type = "DRAT" /\ \A l, m \in p.stored[id] : l = m
    THEN p
    ELSE [Emit(p, Line!DeleteLine(<<id>>)) EXCEPT
            !.stored = [i \in DOMAIN @ \ {id} |-> @[i]]]

Counted(p, ids) == [p EXCEPT !.live = @ - Len(ids), !.deletions = @ + Len(ids)]

\* Fault: nothing stops the deletions after the empty clause.
DeleteCounted_always(p, ids) ==
    IF p.type = "LRAT" THEN Emit(p, Line!DeleteLine(ids)) ELSE FoldLeft(DeleteStored, p, ids)

DeleteCounted(p, ids) ==
    IF p.empty # TAUTOLOGY /\ p.type # "FRAT" THEN p
    ELSE IF p.type = "LRAT" THEN Emit(p, Line!DeleteLine(ids))
    ELSE FoldLeft(DeleteStored, p, ids)

DeleteCleaned(p, ids) == DeleteCounted(Counted(p, ids), ids)

DeleteClauses(p, clauseIds) == DeleteCleaned(p, CleanHints(clauseIds))

DeferDeleteClause(p, id) == [p EXCEPT !.deferred = Append(@, id)]

\* Fault: the list is not cleared.
ProcessDeferredDeletions_again(p) ==
    IF p.deferred = <<>> THEN p ELSE DeleteClauses(p, p.deferred)

\* Fault: the list is cleared before it is read.
ProcessDeferredDeletions_none(p) == [p EXCEPT !.deferred = <<>>]

ProcessDeferredDeletions(p) ==
    IF p.deferred = <<>> THEN p
    ELSE [DeleteClauses(p, p.deferred) EXCEPT !.deferred = <<>>]

----------------------------------------------------------------------------
(* prover_done: a FRAT proof finalizes the empty clause, once.             *)

ProverDone(p) ==
    IF p.type = "FRAT" /\ p.empty # TAUTOLOGY /\ ~p.finalized
    THEN [Emit(p, Line!FinalizeLine(p.empty)) EXCEPT !.finalized = TRUE]
    ELSE p

----------------------------------------------------------------------------
(* Reverse unit propagation through a list of candidate hints: rup_check,  *)
(* which justify_apply uses to find out which of its candidates a proof    *)
(* step needs.  A candidate is the identifier of a clause with the clause  *)
(* itself.  The hints found are recorded by the names of the candidates.   *)

\* The size of ulist, the units known.
UnitsMax == 8

NoHint == [id |-> TAUTOLOGY, clause |-> TautologyClause]

\* complete_hints: a candidate that says nothing is not one.
Hint(id, literals) ==
    LET clause == CleanClause(literals)
    IN  IF id = TAUTOLOGY \/ clause = TautologyClause THEN NoHint
        ELSE [id |-> id, clause |-> clause]

\* Fault: the target is taken as it stands.
RupStart_positive(target) == [units |-> target, used |-> {}, verdict |-> "open"]

\* The negated target is what is known at first.
RupStart(target) ==
    [units |-> {-l : l \in target}, used |-> {}, verdict |-> "open"]

\* What is left of a clause once its false literals are gone.
Undecided(c, hint) == {l \in hint.clause : -l \notin c.units}

\* Fault: a clause is taken for a unit whatever is left of it.
Propagates_any(c, hint) == Undecided(c, hint) # {}

Propagates(c, hint) == \E l \in hint.clause : Undecided(c, hint) = {l}

\* One round of the loop.  A clause with a true literal ends the search.
RupStep(c, name, hint) ==
    IF c.verdict # "open" \/ hint.id = TAUTOLOGY THEN c
    ELSE IF hint.clause \cap c.units # {} THEN [c EXCEPT !.verdict = "satisfied"]
    ELSE IF Undecided(c, hint) = {} /\ hint.clause # {}
    THEN [c EXCEPT !.verdict = "conflict", !.used = @ \cup {name}]
    ELSE IF ~Propagates(c, hint) THEN c
    ELSE IF Cardinality(c.units) = UnitsMax THEN [c EXCEPT !.verdict = "overflow"]
    ELSE [c EXCEPT !.units = @ \cup Undecided(c, hint), !.used = @ \cup {name}]

rup_check(target, hints, order) ==
    FoldLeft(LAMBDA c, name : RupStep(c, name, hints[name]), RupStart(target), order)

\* Fault: the antecedents are listed in the order opposite to the search.
Antecedents_reversed(c, hints, order) ==
    FoldLeft(LAMBDA ids, name : IF name \in c.used THEN <<hints[name].id>> \o ids ELSE ids,
             <<>>, order)

\* The hints used, in the order tried: the antecedents of the clause.
Antecedents(c, hints, order) ==
    FoldLeft(LAMBDA ids, name : IF name \in c.used THEN Append(ids, hints[name].id) ELSE ids,
             <<>>, order)
============================================================================
