--------------------------- MODULE ParitySession ---------------------------
(***************************************************************************)
(* A client fills a set of parity constraints (class xor_set) and then     *)
(* asks for its sum, or for its elimination with some variables as the     *)
(* internal ones.                                                          *)
(***************************************************************************)
EXTENDS SumGraph, Gauss

CONSTANTS
    Summands,       \* lists of constraints to sum, as pairs of variables and phase
    Systems,        \* lists of constraints to eliminate
    InternalSets    \* sets of internal variables

ASSUME SessionAssumption ==
    \* the variables of a constraint are in ascending order
    /\ Summands \cup Systems \subseteq Seq(Lists \X {0, 1})
    \* gauss_step has no pivot for an equation without variables
    /\ \A list \in Systems : <<<<>>, 1>> \notin Range(list)
    \* costs stay below the penalty, and so within an int
    /\ \A list \in Systems : Len(list) * VarCount < EXTERNAL_PENALTY

VARIABLES
    xlist,          \* the set
    todo,           \* "sum" or "gauss"
    eset, iset      \* the sets of the result, NULL until then

sessionVars == <<xlist, todo, eset, iset>>
vars == <<sumVars, gaussVars, sessionVars>>

\* xor_set::add: a constraint that says nothing is left out.
add(set, c) == IF is_degenerate(c) THEN set ELSE Append(set, c)

AddAll(constraints) == FoldLeft(add, <<>>, constraints)

Filled(list) == AddAll([i \in DOMAIN list |-> xor_constraint(list[i][1], list[i][2])])

Init ==
    /\ \/ todo = "sum" /\ xlist \in {Filled(list) : list \in Summands}
       \/ todo = "gauss" /\ xlist \in {Filled(list) : list \in Systems}
    /\ eset = NULL /\ iset = NULL
    /\ SumIdle /\ GaussIdle

Sum ==
    /\ todo = "sum" /\ sumPhase = "idle"
    /\ xor_sum_list(xlist)
    /\ UNCHANGED <<gaussVars, sessionVars>>

GaussJordan(internal) ==
    /\ todo = "gauss" /\ gaussPhase = "idle"
    /\ gauss(xlist, internal)
    /\ UNCHANGED <<sumVars, sessionVars>>

\* The end of gauss_jordan: copies of the equations go to the sets of the client.
FillSets ==
    /\ gaussPhase \in {"done", "infeasible"} /\ eset = NULL
    /\ eset' = AddAll(external_equations)
    /\ iset' = IF gaussPhase = "done" THEN AddAll(internal_equations) ELSE <<>>
    /\ UNCHANGED <<sumVars, gaussVars, xlist, todo>>

infeasible(set) == Len(set) = 1 /\ is_infeasible(set[1])

Next ==
    \/ Sum
    \/ \E internal \in InternalSets : GaussJordan(internal)
    \/ (\E e \in edges : Contract(e)) /\ UNCHANGED <<gaussVars, sessionVars>>
    \/ AddRest /\ UNCHANGED <<gaussVars, sessionVars>>
    \/ (\E v \in Vars : gauss_step(v)) /\ UNCHANGED <<sumVars, sessionVars>>
    \/ jordanize /\ UNCHANGED <<sumVars, sessionVars>>
    \/ FillSets

Spec == Init /\ [][Next]_vars

----------------------------------------------------------------------------
(* Properties.                                                             *)

Present(list) == {i \in DOMAIN list : list[i] # NULL}

Odd(set) == Cardinality(set) % 2

\* The constraint is the sum of those at the given places of the list, and its
\* validation says the same.
IsSum(c, list, places) ==
    /\ Range(c.variables) = {v \in Vars : Odd({i \in places : v \in Range(list[i].variables)}) = 1}
    /\ c.phase = Odd({i \in places : list[i].phase = 1})
    /\ c.validation = Solutions({c})

\* Whatever is contracted first, and whatever cancels, the nodes keep the sum of the set,
\* any two of them can be added with a proof, and in the end the sum is that of the set,
\* with a validation that says so (get_sum, contract_edge, xor_sum_list).
SumRight ==
    /\ sumPhase = "contracting" =>
          /\ \A v \in Vars : Odd({n \in Present(nodes) : v \in Range(nodes[n].variables)})
                                = Odd({i \in DOMAIN xlist : v \in Range(xlist[i].variables)})
          /\ Odd({n \in Present(nodes) : nodes[n].phase = 1})
                = Odd({i \in DOMAIN xlist : xlist[i].phase = 1})
          /\ \A m, n \in Present(nodes) : Proved(nodes[m], nodes[n])
    /\ sumPhase = "done" => IsSum(sum, xlist, DOMAIN xlist)

\* Every two nodes that share a variable have an edge with the present cost, no other
\* edge is left, and no deleted node is added to, as long as nothing cancels next to
\* other edges (add_edge, remove_edge, contract_edge).
EdgesKept ==
    /\ sumPhase # "crashed"
    /\ sumPhase = "contracting" =>
          edges = {Edge(nodes, p[1], p[2]) : p \in
                     {q \in Present(nodes) \X Present(nodes) :
                         q[1] < q[2] /\ xoverlap(nodes[q[1]], nodes[q[2]])}}

\* Elimination neither loses nor adds a solution; the map from variables to equations
\* and the preferred pivots are up to date at every step, with the present costs and
\* equations that still exist (gauss_step, choose_pivot).
EquationsKept ==
    /\ gaussPhase # "crashed"
    /\ gaussPhase \in {"eliminating", "done"} =>
          Solutions({equations[i] : i \in Present(equations)}
                        \cup Range(internal_equations) \cup Range(external_equations))
              = Solutions(Range(xlist))
    /\ gaussPhase = "eliminating" =>
          /\ remaining_equation_count = Cardinality(Present(equations))
          /\ remaining_equation_count > 0 => \E v \in Vars : pivot_list[v] # NULL
          /\ \A v \in Vars :
                /\ imap[v] = {i \in Present(equations) : v \in Range(equations[i].variables)}
                /\ pivot_list[v] \in choose_pivot(equations, imap, internal_variables, v)
          /\ \A i, j \in Present(equations) : Proved(equations[i], equations[j])

\* What the client is given has the solutions of what it gave, with validations that say
\* the same, and it is told that there are none just when there are none (gauss_jordan).
AnswerRight ==
    eset # NULL =>
        /\ Solutions(Range(eset) \cup Range(iset)) = Solutions(Range(xlist))
        /\ infeasible(eset) = (Solutions(Range(xlist)) = {})
        /\ \A c \in Range(eset) \cup Range(iset) : c.validation = Solutions({c})

\* In the end the first set has no internal variable and each of its pivots in one
\* equation only, and those of the second are not in later equations (gauss_step,
\* jordanize).
SolvedForm ==
    LET inner == Len(iset)
        pivot(k) == pivot_sequence[k]
        all == iset \o eset
        has(k, v) == v \in Range(all[k].variables)
    IN  eset # NULL /\ ~infeasible(eset) =>
          /\ Len(pivot_sequence) = Len(all)
          /\ \A k \in DOMAIN all : has(k, pivot(k)) /\ \A l \in (k + 1)..Len(all) : ~has(l, pivot(k))
          /\ \A k \in (inner + 1)..Len(all) :
                /\ Range(all[k].variables) \cap internal_variables = {}
                /\ \A l \in (inner + 1)..Len(all) : l # k => ~has(l, pivot(k))

\* pseudoboolean.cxx, on the graph: "There is a node for each remaining argument, and an
\* undirected edge (i,i') if nodes i & j share at least one nonzero coeffienct."
EdgesJoinArguments == \A e \in edges : nodes[e.node1] # NULL /\ nodes[e.node2] # NULL
=============================================================================
