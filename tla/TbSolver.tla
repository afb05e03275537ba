------------------------------ MODULE TbSolver ------------------------------
(***************************************************************************)
(* The SAT solver tbsat (teval.cpp): the set of terms, each of which is a  *)
(* function known to follow from the clauses, the quantifications done on  *)
(* them, and the solver that goes back through those for one solution      *)
(* after another.  Here a BDD is its function: OperatorSession is about    *)
(* the operators.                                                          *)
(*                                                                         *)
(* solve() conjoins all terms, reports whether a solution is left and ends *)
(* there.  A client of the same classes may also eliminate variables       *)
(* first, and may then ask the solver for solutions and exclude some of    *)
(* those it got, whenever it likes.                                        *)
(***************************************************************************)
EXTENDS Cnf

CONSTANTS
    Files,          \* the files of clauses
    VarCount,       \* greatest variable in them
    CollectMin,     \* COLLECT_MIN_LRAT
    CollectFraction \* 1 / COLLECT_FRACTION

ASSUME TbSolverAssumption ==
    VarCount \in Nat \ {0} /\ CollectMin \in Nat /\ CollectFraction \in Nat \ {0}

M == INSTANCE Meaning WITH Variables <- 1..VarCount

VARIABLES
    file,           \* the file of clauses
    cnf,            \* what was read of it
    tset,           \* the term set: terms, min_active, total_count, dead_count and
                    \* the eliminated variables
    solver,         \* the quantification steps (qsteps) and constraint_function
    phase,          \* "reducing", "final", "solving", "done" or "aborted"
    answer,         \* the status line
    found,          \* the solutions given, cubes
    excluded        \* those of them that are excluded

vars == <<file, cnf, tset, solver, phase, answer, found, excluded>>

true == M!Assignments
false == {}
node_count(f) == Cardinality(M!Subfunctions(f, [i \in 1..VarCount |-> i]))

----------------------------------------------------------------------------
(* Terms.                                                                  *)

Active(t) == {i \in DOMAIN t.terms : t.terms[i].is_active}

add(t, fun) ==
    [t EXCEPT !.terms = Append(@, [is_active |-> TRUE, fun |-> fun, node_count |-> node_count(fun)]),
              !.total_count = @ + node_count(fun)]

deactivate(t, i) ==
    [t EXCEPT !.terms[i] = [is_active |-> FALSE, fun |-> true, node_count |-> 0],
              !.dead_count = @ + t.terms[i].node_count]

\* The estimates start again; the collection changes no function.
check_gc(t) ==
    IF t.dead_count >= CollectMin /\ t.dead_count * CollectFraction >= t.total_count
    THEN [t EXCEPT !.total_count = @ - t.dead_count, !.dead_count = 0] ELSE t

conjunct(t, i, j) ==
    check_gc(deactivate(deactivate(add(t, t.terms[i].fun \cap t.terms[j].fun), i), j))

equantify(t, i, variables) ==
    [check_gc(deactivate(add(t, M!Exists(t.terms[i].fun, Range(variables))), i))
        EXCEPT !.eliminated = @ \cup Range(variables)]

\* The first active term from a place on, or one past the last place.
NextActive(t, from) == Min({i \in Active(t) : i >= from} \cup {Len(t.terms) + 1})

----------------------------------------------------------------------------
(* Solutions.                                                              *)

Literal(v, p) == {a \in M!Assignments : (v \in a) = (p = 1)}

Extension(c, v, p) ==
    [constraint |-> M!Restriction(c.constraint, Literal(v, p)), cube |-> c.cube \cap Literal(v, p)]

\* A variable gets the value that is tried first, or else the other one: either when
\* both or none are possible.
Assign(c, v) ==
    LET possible == {p \in {0, 1} : Extension(c, v, p).constraint # false}
    IN  {Extension(c, v, p) : p \in (IF possible = {} THEN {0, 1} ELSE possible)}

\* Quantification::solve_step: the solutions it can make of some.  The value that is
\* tried first is arbitrary (PhaseGenerator).
RECURSIVE AssignAll(_, _)
AssignAll(cs, variables) ==
    IF variables = <<>> THEN {c.cube : c \in cs}
    ELSE AssignAll(UNION {Assign(c, Last(variables)) : c \in cs}, Front(variables))

solve_step(q, cubes) ==
    AssignAll({[constraint |-> M!Restriction(q.local_constraint, s), cube |-> s] : s \in cubes},
              q.variables)

\* The solutions that next_solution can return.
RECURSIVE SolveAll(_, _)
SolveAll(cubes, qsteps) ==
    IF qsteps = <<>> THEN cubes ELSE SolveAll(solve_step(Last(qsteps), cubes), Front(qsteps))

next_solution(s) == IF s.constraint_function = false THEN {false} ELSE SolveAll({true}, s.qsteps)

\* Fault: the solution is passed on but not excluded at this step.
exclude_step_passing(q, upper) ==
    LET new == q.local_constraint \cap upper
    IN  [q |-> q, down |-> IF new = q.local_constraint THEN true
                           ELSE M!Exists(new, Range(q.variables))]

\* Fault: what is passed on holds for every value of the variables, not for some.
exclude_step_forall(q, upper) ==
    LET new == q.local_constraint \cap upper
    IN  IF new = q.local_constraint THEN [q |-> q, down |-> true]
        ELSE [q |-> [q EXCEPT !.local_constraint = new], down |-> M!ForAll(new, Range(q.variables))]

\* Quantification::exclude_step.
exclude_step(q, upper) ==
    LET new == q.local_constraint \cap upper
    IN  IF new = q.local_constraint THEN [q |-> q, down |-> true]
        ELSE [q |-> [q EXCEPT !.local_constraint = new], down |-> M!Exists(new, Range(q.variables))]

\* From the first step on; true excludes nothing (where the loop ends).
impose_constraint(s, constraint) ==
    LET down[i \in 0..Len(s.qsteps)] ==
            IF i = 0 THEN constraint ELSE exclude_step(s.qsteps[i], down[i - 1]).down
    IN  [qsteps |-> [i \in DOMAIN s.qsteps |-> exclude_step(s.qsteps[i], down[i - 1]).q],
         constraint_function |-> s.constraint_function \cap down[Len(s.qsteps)]]

add_step(s, variables, fun) ==
    [s EXCEPT !.qsteps = Append(@, [variables |-> variables, local_constraint |-> fun])]

----------------------------------------------------------------------------
(* The program.                                                            *)

ClauseFunction(c) ==
    {a \in M!Assignments : \E l \in Range(c.contents) : (Abs(l) \in a) = (l > 0)}

TermSet(clauses) ==
    FoldLeft(LAMBDA t, c : add(t, ClauseFunction(c)),
             [terms |-> <<>>, min_active |-> 1, total_count |-> 0, dead_count |-> 0, eliminated |-> {}],
             clauses)

Init ==
    /\ file \in Files
    /\ cnf = ReadCNF(file)
    /\ tset = TermSet(cnf.clauses)
    /\ solver = [qsteps |-> <<>>, constraint_function |-> true]
    /\ phase = IF cnf.read_failed THEN "aborted" ELSE "reducing"
    /\ answer = "" /\ found = {} /\ excluded = {}

Conjunct(i, j) ==
    /\ phase = "reducing"
    /\ i # j
    /\ tset' = conjunct(tset, i, j)
    /\ UNCHANGED <<file, cnf, solver, phase, answer, found, excluded>>

\* Variables of one term may go, once, when no other term has them.
Equantify(i, variables) ==
    /\ phase = "reducing"
    /\ Range(variables) \cap tset.eliminated = {}
    /\ \A j \in Active(tset) : (j = i) = (M!Support(tset.terms[j].fun) \cap Range(variables) # {})
    /\ tset' = equantify(tset, i, variables)
    /\ solver' = add_step(solver, variables, tset.terms[i].fun)
    /\ UNCHANGED <<file, cnf, phase, answer, found, excluded>>

\* The rest of solve(): tree_reduce conjoins the two oldest terms until one is left or
\* one is false, and the last step gets the variables that are left.
Finish(t, result) ==
    /\ tset' = t
    /\ IF result = false
       THEN answer' = "UNSATISFIABLE" /\ phase' = "done" /\ UNCHANGED solver
       ELSE answer' = "SATISFIABLE" /\ phase' = "solving"
            /\ solver' = add_step(solver, SetToSortSeq((1..cnf.maxVar) \ tset.eliminated, <), result)

tree_reduce ==
    LET first == NextActive(tset, tset.min_active)
        second == NextActive(tset, first + 1)
        conj == conjunct([tset EXCEPT !.min_active = second + 1], first, second)
    IN  /\ phase \in {"reducing", "final"}
        /\ IF first > Len(tset.terms) THEN Finish(tset, true)
           ELSE IF second > Len(tset.terms)
           THEN Finish([deactivate(tset, first) EXCEPT !.min_active = second], tset.terms[first].fun)
           ELSE IF Last(conj.terms).fun = false THEN Finish(conj, false)
           ELSE phase' = "final" /\ tset' = conj /\ UNCHANGED <<solver, answer>>
        /\ UNCHANGED <<file, cnf, found, excluded>>

NextSolution(s) ==
    /\ phase = "solving"
    /\ s # false
    /\ found' = found \cup {s}
    /\ UNCHANGED <<file, cnf, tset, solver, phase, answer, excluded>>

\* impose_constraint(bdd_not(s)): at any time, and again if the client likes.
Exclude(s) ==
    /\ phase = "solving"
    /\ solver' = impose_constraint(solver, M!Assignments \ s)
    /\ excluded' = excluded \cup {s}
    /\ UNCHANGED <<file, cnf, tset, phase, answer, found>>

Next ==
    \/ \E i, j \in Active(tset) : Conjunct(i, j)
    \/ \E i \in Active(tset), v, w \in 1..VarCount :
          Equantify(i, <<v>>) \/ (v # w /\ Equantify(i, <<v, w>>))
    \/ tree_reduce
    \/ \E s \in next_solution(solver) : NextSolution(s)
    \/ \E s \in found : Exclude(s)

Spec == Init /\ [][Next]_vars

----------------------------------------------------------------------------
(* Properties.                                                             *)

\* The assignments that satisfy all clauses of the file, as they are written.
Satisfying ==
    {a \in M!Assignments : \A i \in DOMAIN file.clauses :
        \E l \in Range(file.clauses[i]) : (Abs(l) \in a) = (l > 0)}

\* What the client may still be given.
Remaining == Satisfying \ UNION excluded

\* The answer is right, and whatever next_solution can return, short of false, gives each
\* variable of the formula a value such that all clauses hold, and is none that was
\* excluded: quantified variables get values that fit those chosen before, and an
\* exclusion reaches each step whose values it must restrict (solve_step, exclude_step).
SolutionsRight ==
    /\ answer # "" => (answer = "SATISFIABLE") = (Satisfying # {})
    /\ phase = "solving" => \A s \in next_solution(solver) \ {false} :
          s \subseteq Remaining /\ M!Positive(s) \cup M!Negative(s) = 1..cnf.maxVar

\* Excluding some solutions loses no other: next_solution can still return each of them
\* that is left, and gives false only when there is none (exclude_step passes on what
\* holds for some values of its variables; impose_constraint).
NoneMissed ==
    phase = "solving" =>
       /\ Remaining \subseteq UNION next_solution(solver)
       /\ false \in next_solution(solver) => Remaining = {}

\* The checker accepts the status line followed by any of the solutions given, and a
\* single assignment just when it satisfies the clauses (run_checks, CNF::satisfied).
Lits(s) == SetToSeq(M!Positive(s) \cup {-v : v \in M!Negative(s)})

Line(type, status, lits) == [type |-> type, status |-> status, lits |-> lits]

CheckerRight ==
    LET status == Line("s", answer, <<>>)
        v(s) == Line("v", "", Lits(s))
        solutions == SetToSeq(found)
    IN  (answer # "" /\ cnf.maxVar = VarCount) => \A verblevel \in 0..2 :
          /\ run_checks(cnf, <<status>> \o [i \in DOMAIN solutions |-> v(solutions[i])], verblevel)
                = (IF answer = "UNSATISFIABLE" THEN answer ELSE IF found = {} THEN "nothing" ELSE "VERIFIED")
          /\ \A a \in M!Assignments :
                (run_checks(cnf, <<v({a})>>, verblevel) = "VERIFIED") = (a \in Satisfying)
=============================================================================
