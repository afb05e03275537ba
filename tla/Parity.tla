------------------------------ MODULE Parity ------------------------------
(***************************************************************************)
(* Parity constraints (pseudoboolean.cxx): a list of variables, in         *)
(* ascending order, whose sum is the phase, with the validation, the       *)
(* trusted BDD of the constraint.  Here a BDD is its function.             *)
(***************************************************************************)
EXTENDS Integers, Sequences, FiniteSets, SequencesExt, FiniteSetsExt

CONSTANTS
    VarCount,       \* greatest variable
    NULL            \* what was deleted

Vars == 1..VarCount

M == INSTANCE Meaning WITH Variables <- Vars

\* Lists of variables in ascending order, and constraints.
Lists == {list \in Seq(Vars) : \A i, j \in DOMAIN list : i < j => list[i] < list[j]}
Constraints == [variables : Lists, phase : {0, 1}, validation : SUBSET M!Assignments]

ASSUME ParityAssumption ==
    /\ VarCount \in Nat \ {0}
    /\ NULL \notin Constraints            \* it is no constraint
    /\ NULL \notin Seq(Constraints)       \* and no list of constraints

\* BDD_build_xor: from the last variable up, the functions for both phases.
BDD_build_xor(variables, phase) ==
    LET positive(v) == {a \in M!Assignments : v \in a}
        node(v, low, high) == M!ITE(positive(v), high, low)
        both == FoldLeft(LAMBDA f, v : [even |-> node(v, f.even, f.odd), odd |-> node(v, f.odd, f.even)],
                         [even |-> M!Assignments, odd |-> {}], Reverse(variables))
    IN  IF phase = 1 THEN both.odd ELSE both.even

\* TBDD_from_xor: the conjunction of the clauses that exclude the assignments to the
\* variables with the other sum.
ExcludingClause(variables, excluded) ==
    {a \in M!Assignments : a \cap variables # excluded}

TBDD_from_xor(variables, phase) ==
    LET wrong == {e \in SUBSET Range(variables) : Cardinality(e) % 2 # phase}
    IN  {a \in M!Assignments : \A e \in wrong : a \in ExcludingClause(Range(variables), e)}

xor_constraint(variables, phase) ==
    [variables |-> variables, phase |-> phase, validation |-> TBDD_from_xor(variables, phase)]

Tautology == [variables |-> <<>>, phase |-> 0, validation |-> M!Assignments]

\* Fault: the phase is not looked at.
is_degenerate_any(c) == c.variables = <<>>

is_degenerate(c) == c.variables = <<>> /\ c.phase = 0
is_infeasible(c) == c.variables = <<>> /\ c.phase # 0

\* One turn of the loops of coefficient_sum, for the places reached in both lists and
\* the sum so far: the smaller of the next variables, or none if they are equal.
SumTurn(list1, list2, c) ==
    LET more1 == c.i1 <= Len(list1)
        more2 == c.i2 <= Len(list2)
        first1 == more1 /\ (more2 => list1[c.i1] < list2[c.i2])
        first2 == more2 /\ (more1 => list2[c.i2] < list1[c.i1])
    IN  CASE first1 -> [i1 |-> c.i1 + 1, i2 |-> c.i2, sum |-> Append(c.sum, list1[c.i1])]
          [] first2 -> [i1 |-> c.i1, i2 |-> c.i2 + 1, sum |-> Append(c.sum, list2[c.i2])]
          [] more1 /\ more2 /\ ~first1 /\ ~first2 -> [c EXCEPT !.i1 = @ + 1, !.i2 = @ + 1]
          [] OTHER -> c

coefficient_sum(list1, list2) ==
    LET turns == Len(list1) + Len(list2)
        at[t \in 0..turns] ==
            IF t = 0 THEN [i1 |-> 1, i2 |-> 1, sum |-> <<>>] ELSE SumTurn(list1, list2, at[t - 1])
    IN  at[turns].sum

\* Fault: the disjunction of the phases.
xor_plus_or(arg1, arg2) ==
    LET variables == coefficient_sum(arg1.variables, arg2.variables)
        phase == IF arg1.phase + arg2.phase > 0 THEN 1 ELSE 0
    IN  [variables |-> variables, phase |-> phase, validation |-> BDD_build_xor(variables, phase)]

xor_plus(arg1, arg2) ==
    LET variables == coefficient_sum(arg1.variables, arg2.variables)
        phase == (arg1.phase + arg2.phase) % 2
    IN  [variables |-> variables, phase |-> phase, validation |-> BDD_build_xor(variables, phase)]

\* The validation of a sum is proved from those of its arguments, or the program ends.
Proved(arg1, arg2) == arg1.validation \cap arg2.validation \subseteq xor_plus(arg1, arg2).validation

xoverlap(c1, c2) == Range(c1.variables) \cap Range(c2.variables) # {}

\* The cost of an addition, without the part that makes it unique.
xcost(c1, c2) == Len(coefficient_sum(c1.variables, c2.variables))

xor_sum_list_linear(list) ==
    IF list = <<>> THEN Tautology ELSE FoldLeft(xor_plus, list[1], Tail(list))

\* The assignments that satisfy all constraints of a set.
Solutions(constraints) ==
    {a \in M!Assignments : \A c \in constraints : Cardinality(a \cap Range(c.variables)) % 2 = c.phase}
=============================================================================
