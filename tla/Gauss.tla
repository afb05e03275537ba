------------------------------- MODULE Gauss -------------------------------
(***************************************************************************)
(* Gauss-Jordan elimination of a list of constraints (class gauss).  Each  *)
(* variable has a preferred pivot, the cheapest equation to eliminate it   *)
(* with, and the cheapest of these is next; variables that are external,   *)
(* which the result is wanted for, come last.                              *)
(***************************************************************************)
EXTENDS Parity

VARIABLES
    equations,          \* the remaining ones, NULL once eliminated
    remaining_equation_count,
    internal_variables,
    imap,               \* for each variable, the remaining equations that have it
    pivot_list,         \* for each variable, its preferred pivot, or NULL
    pivot_sequence,     \* the variables in the order of their elimination
    internal_equations, \* the equations they were eliminated with
    external_equations,
    gaussPhase          \* "idle", "eliminating", "infeasible", "done" or "crashed"

gaussVars == <<equations, remaining_equation_count, internal_variables, imap, pivot_list,
               pivot_sequence, internal_equations, external_equations, gaussPhase>>

EXTERNAL_PENALTY == 2^30

\* A variable without a pivot has NULL.
ASSUME GaussAssumption == NULL \notin [equation_id : Nat, cost : Int]

GaussIdle ==
    /\ equations = <<>> /\ remaining_equation_count = 0 /\ internal_variables = {}
    /\ imap = [v \in Vars |-> {}] /\ pivot_list = [v \in Vars |-> NULL] /\ pivot_sequence = <<>>
    /\ internal_equations = <<>> /\ external_equations = <<>> /\ gaussPhase = "idle"

\* Fault: the penalty is forgotten.
Cost_nopenalty(eqs, map, internal, v, eid) ==
    (Cardinality(map[v]) - 1) * (Len(eqs[eid].variables) - 1)

Cost(eqs, map, internal, v, eid) ==
    (Cardinality(map[v]) - 1) * (Len(eqs[eid].variables) - 1)
        + (IF v \in internal THEN 0 ELSE EXTERNAL_PENALTY)

\* The pivots a variable may get; the choice among the cheapest is random.
choose_pivot(eqs, map, internal, v) ==
    LET cost(eid) == Cost(eqs, map, internal, v, eid)
    IN  IF map[v] = {} THEN {NULL}
        ELSE {[equation_id |-> eid, cost |-> cost(eid)] :
                 eid \in {e \in map[v] : \A d \in map[v] : cost(e) <= cost(d)}}

PivotChoices(eqs, map, internal, vs) ==
    {p \in [vs -> UNION {choose_pivot(eqs, map, internal, v) : v \in vs}] :
        \A v \in vs : p[v] \in choose_pivot(eqs, map, internal, v)}

\* The constructor.
gauss(list, internal) ==
    LET map == [v \in Vars |-> {eid \in DOMAIN list : v \in Range(list[eid].variables)}]
    IN  /\ equations' = list /\ remaining_equation_count' = Len(list)
        /\ internal_variables' = internal
        /\ imap' = map
        /\ pivot_list' \in PivotChoices(list, map, internal, Vars)
        /\ gaussPhase' = "eliminating"
        /\ UNCHANGED <<pivot_sequence, internal_equations, external_equations>>

\* Fault: only the pivot equation's variables count as touched.
Touched_pivot(peid, pvar) == Range(equations[peid].variables) \ {pvar}

\* The variables of all equations that change.
Touched(peid, pvar) == (UNION {Range(equations[eid].variables) : eid \in imap[pvar] \cup {peid}}) \ {pvar}

\* One step: the variable is eliminated from the other equations that have it, in order,
\* as far as the first one found without solution, which replaces all that was saved.
\* Without any pivot the step is undefined (a set that was given an equation without
\* variables).
gauss_step(pvar) ==
    LET piv == pivot_list[pvar]
        peid == piv.equation_id
        peq == equations[peid]
        others == imap[pvar] \ {peid}
        added == [eid \in others |-> xor_plus(peq, equations[eid])]
        wrong == {eid \in others : is_infeasible(added[eid])}
        met == {eid \in others : \A w \in wrong : eid <= w}
        left == {eid \in met \ wrong : ~is_degenerate(added[eid])}
        changed == [eid \in DOMAIN equations |->
                       IF eid \in left THEN added[eid]
                       ELSE IF eid \in met \cup {peid} THEN NULL ELSE equations[eid]]
        map == [v \in Vars |->
                   IF v = pvar THEN (IF wrong = {} THEN {} ELSE others)
                   ELSE (imap[v] \ (met \cup {peid}))
                            \cup {eid \in left : v \in Range(added[eid].variables)}]
        touched == Touched(peid, pvar)
    IN  /\ gaussPhase = "eliminating" /\ remaining_equation_count > 0
        /\ piv # NULL
        /\ \A v \in Vars : pivot_list[v] # NULL => piv.cost <= pivot_list[v].cost
        /\ UNCHANGED internal_variables
        /\ IF peq = NULL
           THEN gaussPhase' = "crashed"
                /\ UNCHANGED <<equations, remaining_equation_count, imap, pivot_list,
                               pivot_sequence, internal_equations, external_equations>>
           ELSE /\ equations' = changed
                /\ remaining_equation_count' =
                       remaining_equation_count - 1 - Cardinality(met \ (left \cup wrong))
                /\ imap' = map
                /\ IF wrong # {}
                   THEN /\ gaussPhase' = "infeasible"
                        /\ external_equations' = <<added[Min(wrong)]>> /\ internal_equations' = <<>>
                        /\ pivot_sequence' = <<pvar>>
                        /\ pivot_list' = [pivot_list EXCEPT ![pvar] = NULL]
                   ELSE /\ UNCHANGED gaussPhase
                        /\ \E p \in PivotChoices(changed, map, internal_variables, touched) :
                              pivot_list' = [v \in Vars |-> IF v = pvar THEN NULL
                                               ELSE IF v \in touched THEN p[v] ELSE pivot_list[v]]
                        /\ pivot_sequence' = Append(pivot_sequence, pvar)
                        /\ IF pvar \in internal_variables
                           THEN internal_equations' = Append(internal_equations, peq)
                                /\ UNCHANGED external_equations
                           ELSE external_equations' = Append(external_equations, peq)
                                /\ UNCHANGED internal_equations

\* From the last external equation up, each pivot is eliminated from those before.
Jordanized ==
    LET pivot(peid) == pivot_sequence[peid + Len(internal_equations)]
        eliminate(eqs, peid) ==
            [eid \in DOMAIN eqs |->
                IF eid < peid /\ pivot(peid) \in Range(eqs[eid].variables)
                THEN xor_plus(eqs[eid], eqs[peid]) ELSE eqs[eid]]
    IN  FoldLeft(eliminate, external_equations, Reverse([i \in DOMAIN external_equations |-> i]))

jordanize ==
    /\ gaussPhase = "eliminating" /\ remaining_equation_count = 0
    /\ external_equations' = Jordanized
    /\ gaussPhase' = "done"
    /\ UNCHANGED <<equations, remaining_equation_count, internal_variables, imap, pivot_list,
                   pivot_sequence, internal_equations>>
=============================================================================
