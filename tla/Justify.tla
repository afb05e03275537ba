------------------------------ MODULE Justify ------------------------------
(***************************************************************************)
(* The justification of one step of a proving operator: justify_apply of   *)
(* prover.c.  For the conjunction of l and r it proves the clause          *)
(* {-l, -r, res}, for the implication from l to r the clause {-l, r}, from *)
(* the defining clauses of the nodes at the splitting level and from the   *)
(* clauses tresl, tresh that justify the two recursive results.            *)
(***************************************************************************)
EXTENDS NodeTable

bddop_andj == 18
bddop_imptstj == 19
bddop_andimptstj == 20

hint_hl_order == <<"RESHU", "ARG1HD", "ARG2HD", "OPH", "RESLU", "ARG1LD", "ARG2LD", "OPL">>
hint_lh_order == <<"RESLU", "ARG1LD", "ARG2LD", "OPL", "RESHU", "ARG1HD", "ARG2HD", "OPH">>
hint_h_order  == <<"RESHU", "ARG1HD", "ARG2HD", "OPH">>
\* Fault: the second half does not cite the first.
hint_l_order_alone == <<"RESLU", "ARG1LD", "ARG2LD", "OPL">>

hint_l_order  == <<"EXTRA", "RESLU", "ARG1LD", "ARG2LD", "OPL">>

target_and(k, l, r, s) == {-XVAR(k, l), -XVAR(k, r), XVAR(k, s)}
target_imply(k, l, r)  == {-XVAR(k, l), XVAR(k, r)}

\* The cofactors with respect to the variable of a level.
LowAt(k, n, level)  == IF LEVEL(k, n) = level THEN LOW(k, n) ELSE n
HighAt(k, n, level) == IF LEVEL(k, n) = level THEN HIGH(k, n) ELSE n

\* A defining clause of a node at the splitting level.
NodeHint(k, n, level, dtype) ==
    IF LEVEL(k, n) # level THEN NoHint
    ELSE Hint(bdd_dclause(k, n, dtype),
              DefiningClause(dtype, XVAR(k, n), k.level2var[level],
                             XVAR(k, HIGH(k, n)), XVAR(k, LOW(k, n))))

\* The eight candidates; EXTRA is filled in by the second half of a split proof.
Candidates(k, op, l, r, level, tresl, tresh, res) ==
    LET imply == op = bddop_imptstj
        goal  == IF imply THEN r ELSE res
        low(n)  == LowAt(k, n, level)
        high(n) == HighAt(k, n, level)
    IN  [RESHU  |-> NodeHint(k, goal, level, "HU"),
         RESLU  |-> NodeHint(k, goal, level, "LU"),
         ARG1HD |-> NodeHint(k, l, level, "HD"),
         ARG1LD |-> NodeHint(k, l, level, "LD"),
         ARG2HD |-> IF imply THEN NoHint ELSE NodeHint(k, r, level, "HD"),
         ARG2LD |-> IF imply THEN NoHint ELSE NodeHint(k, r, level, "LD"),
         OPH    |-> Hint(tresh, IF imply THEN target_imply(k, high(l), high(r))
                                ELSE target_and(k, high(l), high(r), high(res))),
         OPL    |-> Hint(tresl, IF imply THEN target_imply(k, low(l), low(r))
                                ELSE target_and(k, low(l), low(r), low(res))),
         EXTRA  |-> NoHint]

\* A clause proved from the hints a check used.
Proved(p, clause, check, hints, order) ==
    [p |-> GenerateClause(p, clause, Antecedents(check, hints, order)),
     id |-> GeneratedId(p, clause),
     ok |-> check.verdict = "conflict"]

\* The proof in two halves: the first for the case that the variable is true, the
\* second cites it and deletes it.
SecondHalf(first, half, target, hints) ==
    LET both == [hints EXCEPT !.EXTRA = [id |-> first.id, clause |-> half]]
        finish(second) == [second EXCEPT !.p = DeleteClauses(@, <<first.id>>),
                                         !.ok = @ /\ first.ok]
    IN  finish(Proved(first.p, target, rup_check(target, both, hint_l_order),
                      both, hint_l_order))

SplitProof(p, target, half, hints) ==
    SecondHalf(Proved(p, half, rup_check(half, hints, hint_h_order), hints, hint_h_order),
               half, target, hints)

\* The single clause proofs are tried where one of the recursive results needed
\* no justification.
ChooseProof(p, target, half, hints, hl, lh) ==
    LET closes(check) == check.verdict \in {"conflict", "overflow"}
    IN  IF hints.OPH.id = TAUTOLOGY /\ closes(hl)
        THEN Proved(p, target, hl, hints, hint_hl_order)
        ELSE IF hints.OPL.id = TAUTOLOGY /\ closes(lh)
        THEN Proved(p, target, lh, hints, hint_lh_order)
        ELSE SplitProof(p, target, half, hints)

JustifyFrom(p, target, variable, hints) ==
    ChooseProof(p, target, CleanClause({-variable} \cup target), hints,
                rup_check(target, hints, hint_hl_order),
                rup_check(target, hints, hint_lh_order))

\* Field ok is FALSE where the code stops with an error: a list of units that
\* overflows, or a proof that fails.
justify_apply(k, p, op, l, r, level, tresl, tresh, res) ==
    LET target == CleanClause(IF op = bddop_andj THEN target_and(k, l, r, res)
                              ELSE target_imply(k, l, r))
    IN  IF target = TautologyClause THEN [p |-> p, id |-> TAUTOLOGY, ok |-> TRUE]
        ELSE JustifyFrom(p, target, k.level2var[level],
                         Candidates(k, op, l, r, level, tresl, tresh, res))
============================================================================
