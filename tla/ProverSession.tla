--------------------------- MODULE ProverSession ---------------------------
(***************************************************************************)
(* The proof generator under a disciplined client: it derives clauses by   *)
(* resolution from clauses it may still cite, gives up each clause it owns *)
(* once, either at once or through the deferred list, and lets the         *)
(* deferred deletions happen only at the end of an operation.  It may go   *)
(* on after it has derived the empty clause, and derive another.           *)
(*                                                                         *)
(* The client may use several sessions one after the other: prover_init    *)
(* runs again, with the file-level variables as the last session left them.*)
(***************************************************************************)
EXTENDS Prover, FiniteSets

CONSTANTS
    Inputs,        \* sequence of the clauses of the CNF file
    Types,         \* the proof formats to generate
    MaxDerived,    \* bound on the clauses derived in a session
    MaxSessions    \* bound on the sessions

ASSUME InputsAssumption ==
    /\ Types \subseteq {"LRAT", "DRAT", "FRAT"}
    /\ MaxDerived \in Nat /\ MaxSessions \in Nat

\* Literals and identifiers are C ints, and INT_MAX is taken.
ASSUME RangeAssumption ==
    /\ Inputs \in Seq(SUBSET {l \in Int : l # 0 /\ -TAUTOLOGY < l /\ l < TAUTOLOGY})
    /\ Len(Inputs) + MaxDerived < TAUTOLOGY

VARIABLES
    prover,        \* the generator
    checker,       \* what a checker of the file printed so far knows
    held,          \* clauses the client owns: it derived and not yet gave up
    phase,         \* "running" or "done"
    session,       \* number of the current session
    text           \* the client's own copy of every clause of the session

vars == <<prover, checker, held, phase, session, text>>

File == INSTANCE Proof WITH InputClauses <- Inputs, out <- prover.out

InputIds == 1..Len(Inputs)
Deferred == Range(prover.deferred)

\* The clauses the client may cite, each with its identifier.
Citable == InputIds \cup held \cup Deferred

Resolvent(i, j, l) == (text[i] \ {l}) \cup (text[j] \ {-l})

Refuted == prover.empty # TAUTOLOGY

----------------------------------------------------------------------------
Init ==
    /\ \E type \in Types : prover = ProverInit(type, 2, Inputs)
    /\ checker = File!NewChecker
    /\ held = {}
    /\ phase = "running"
    /\ session = 1
    /\ text = [i \in InputIds |-> Inputs[i]]

\* The checker reads what the step printed.
Observe == checker' = File!AbsorbAll(checker, prover'.out)

Derive(i, j, l) ==
    LET p == Quiet(prover)
        clause == Resolvent(i, j, l)
        id == GeneratedId(p, clause)
    IN  /\ phase = "running"
        /\ prover.counter < Len(Inputs) + MaxDerived
        /\ l \in text[i] /\ -l \in text[j]
        /\ prover' = GenerateClause(p, clause, <<i, j>>)
        /\ IF id = TAUTOLOGY
           THEN UNCHANGED <<held, text>>
           ELSE /\ held' = held \cup {id}
                /\ text' = [k \in DOMAIN text \cup {id} |->
                              IF k = id THEN clause ELSE text[k]]
        /\ Observe
        /\ UNCHANGED <<phase, session>>

\* The owner of a unit clause or of a node lets go of it.
Release(id) ==
    /\ phase = "running"
    /\ prover' = DeleteClauses(Quiet(prover), <<id>>)
    /\ held' = held \ {id}
    /\ Observe
    /\ UNCHANGED <<phase, session, text>>

\* The operation cache evicts the entry a clause justifies.
Evict(id) ==
    /\ phase = "running"
    /\ prover' = DeferDeleteClause(Quiet(prover), id)
    /\ held' = held \ {id}
    /\ Observe
    /\ UNCHANGED <<phase, session, text>>

EndOperation ==
    /\ phase = "running"
    /\ prover.deferred # <<>>
    /\ prover' = ProcessDeferredDeletions(Quiet(prover))
    /\ Observe
    /\ UNCHANGED <<held, phase, session, text>>

\* tbdd_done: delete the remaining unit clauses, then what was deferred.
Finish ==
    /\ phase = "running"
    /\ prover' = LET p == DeleteClauses(Quiet(prover), SetToSeq(held))
                 IN  ProverDone(ProcessDeferredDeletions(p))
    /\ held' = {}
    /\ phase' = "done"
    /\ Observe
    /\ UNCHANGED <<session, text>>

\* A new session opens a new file; only empty_clause_finalized survives.
Restart ==
    /\ phase = "done"
    /\ session < MaxSessions
    /\ prover' = [ProverInit(prover.type, 2, Inputs)
                    EXCEPT !.finalized = prover.finalized]
    /\ checker' = File!NewChecker
    /\ held' = {}
    /\ phase' = "running"
    /\ session' = session + 1
    /\ text' = [i \in InputIds |-> Inputs[i]]

Next ==
    \/ \E i, j \in Citable : \E l \in text[i] : Derive(i, j, l)
    \/ \E id \in held : Release(id) \/ Evict(id)
    \/ EndOperation
    \/ Finish
    \/ Restart

Spec == Init /\ [][Next]_vars

----------------------------------------------------------------------------
(* Properties.                                                             *)

\* The client of a FRAT proof has derived an empty clause and then another, which
\* generate_clause keeps in its place without printing it.
Overtaken == prover.type = "FRAT" /\ Refuted /\ prover.empty \notin DOMAIN checker.db

\* The client of a FRAT proof has called generate_clause after the empty clause.  What
\* is derived then is not printed, but its deletion is.
GoneOn == Overtaken \/ (prover.type = "FRAT" /\ Refuted /\ prover.empty < prover.counter)

\* Within a session every printed line is one a checker accepts: each addition
\* has a fresh identifier and follows from clauses the checker still holds, and
\* each deletion names clauses it holds (generate_clause, delete_clauses).  The lines of a
\* FRAT proof are judged until its client goes on after the empty clause.
FileAccepted == [][session' = session /\ ~GoneOn => File!Next]_vars

\* "Empty clause should not be deleted" (prover.c:578): no step of a session takes an empty
\* clause out of the file, whatever the client does after the refutation.  There is one way
\* to lose it, a second empty clause in a FRAT proof, which becomes empty_clause_id: then
\* delete_clauses spares a clause that is not in the file, and not the one that is.
RefutationKept ==
    [][\A id \in DOMAIN checker.db :
         session' = session /\ checker.db[id] = {} /\ ~Overtaken => id \in DOMAIN checker'.db]_vars

\* At the end of a FRAT session nothing it added is left except the empty clause:
\* whatever was given up at once, deferred or still held has been deleted.
\* Before that, live_clause_count is the number of clauses a checker holds: no
\* deletion is counted that was not printed.  (DRAT keeps its unit clauses but counts
\* them as deleted.)
NothingLeaks ==
    /\ phase = "done" /\ prover.type = "FRAT" =>
          \A id \in DOMAIN checker.db \ InputIds : checker.db[id] = {}
    /\ prover.type # "DRAT" /\ ~Refuted => prover.live = Cardinality(DOMAIN checker.db)
==============================================================================
