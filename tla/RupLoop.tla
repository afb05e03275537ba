------------------------------ MODULE RupLoop ------------------------------
(***************************************************************************)
(* The loop of rup_check (prover.c) by itself: candidates are tried one    *)
(* after the other until one is contradicted or satisfied.  The candidates *)
(* found to be needed are printed as the antecedents of the target clause. *)
(***************************************************************************)
EXTENDS Prover

CONSTANTS
    Literals,      \* literals of the clauses
    Names,         \* the candidates, each named by its identifier
    Orders,        \* the orders in which they may be tried
    Clauses        \* the clauses they may have; a candidate may also be missing

ASSUME RupAssumption ==
    /\ Literals \subseteq Int /\ \A l \in Literals : l # 0 /\ -l \in Literals
    /\ Names \subseteq Nat /\ TAUTOLOGY \notin Names
    /\ Clauses \subseteq SUBSET Literals
    /\ Orders \subseteq Seq(Names)
    /\ \A o \in Orders : IsInjective(o)   \* no candidate is tried twice (hint_hl_order)

VARIABLES
    target,        \* the clause to be proved
    hints,         \* the candidates
    order,         \* the order chosen
    check,         \* the state of the search
    tried          \* candidates tried so far

vars == <<target, hints, order, check, tried>>

Candidates == {NoHint} \cup [id : Names, clause : Clauses]

Present(n) == hints[n].id # TAUTOLOGY

----------------------------------------------------------------------------
Init ==
    /\ target \in SUBSET Literals
    /\ \A l \in target : -l \notin target
    /\ hints \in [Names -> Candidates]
    /\ \A n \in Names : Present(n) => hints[n].id = n
    /\ order \in Orders
    /\ check = RupStart(target)
    /\ tried = 0

Try ==
    /\ check.verdict = "open" /\ tried < Len(order)
    /\ check' = RupStep(check, order[tried + 1], hints[order[tried + 1]])
    /\ tried' = tried + 1
    /\ UNCHANGED <<target, hints, order>>

Next == Try

Spec == Init /\ [][Next]_vars

----------------------------------------------------------------------------
(* Properties.                                                             *)

\* An assignment is the set of the literals it makes true.
Assignments == {a \in SUBSET Literals : \A l \in Literals : l \in a <=> -l \notin a}

Satisfies(a, clause) == \E l \in clause : l \in a

SatisfiesUsed(a) == \A n \in check.used : Satisfies(a, hints[n].clause)

TypeOK ==
    /\ target \in SUBSET Literals
    /\ hints \in [Names -> Candidates]
    /\ order \in Seq(Names) /\ tried \in 0..Len(order)
    /\ check = [units |-> check.units, used |-> check.used, verdict |-> check.verdict]
    /\ check.units \subseteq Literals
    /\ check.used \subseteq {n \in Names : Present(n)}
    /\ check.verdict \in {"open", "satisfied", "conflict", "overflow"}

\* A conflict means that the target follows from the candidates marked as used: the
\* clause that justify_apply then generates is a consequence of its antecedents.
ConflictSound ==
    check.verdict = "conflict" =>
        \A a \in Assignments : SatisfiesUsed(a) => Satisfies(a, target)

\* What is known follows from the negated target and the candidates used so far.
UnitsFollow ==
    \A a \in Assignments :
        SatisfiesUsed(a) /\ ~Satisfies(a, target) => check.units \subseteq a

\* The antecedents, in the order printed, are a proof that an LRAT checker accepts:
\* each of them is a unit clause when its turn comes, and the last one is false.
AntecedentsSuffice ==
    check.verdict = "conflict" =>
        Line!RupByHints([n \in {m \in Names : Present(m)} |-> hints[n].clause],
                        target, Antecedents(check, hints, order))
============================================================================
