------------------------------ MODULE Meaning ------------------------------
(***************************************************************************)
(* What diagrams mean: the sets of assignments they are true for, and the  *)
(* operations of the package as operations on such sets.  An assignment is *)
(* the set of the variables it makes true.                                 *)
(***************************************************************************)
EXTENDS Naturals, FiniteSets, Sequences

CONSTANT Variables

Assignments == SUBSET Variables

With(a, v, value) == IF value THEN a \cup {v} ELSE a \ {v}

\* The function with one variable fixed.
Cofactor(m, v, value) == {a \in Assignments : With(a, v, value) \in m}

Support(m) == {v \in Variables : Cofactor(m, v, TRUE) # Cofactor(m, v, FALSE)}

ITE(f, g, h) == (f \cap g) \cup (h \ f)

\* The variables that a cube, a set of assignments, fixes to true and to false.
Positive(cube) == {v \in Variables : \A a \in cube : v \in a}
Negative(cube) == {v \in Variables : \A a \in cube : v \notin a}

IsCube(m) ==
    Cardinality(m) = 2^Cardinality(Variables \ (Positive(m) \cup Negative(m)))

Restriction(f, cube) ==
    LET true == Positive(cube)
        false == Negative(cube)
    IN  {a \in Assignments : (a \cup true) \ false \in f}

\* The assignments that agree with one outside a set of variables.
Variants(a, set) == {b \in Assignments : a \ set = b \ set}

Exists(f, set)  == UNION {Variants(a, set) : a \in f}
ForAll(f, set)  == {a \in Assignments : Variants(a, set) \subseteq f}
Parity(f, set)  == {a \in Assignments : Cardinality(Variants(a, set) \cap f) % 2 = 1}

Composition(f, g, v) == {a \in Assignments : With(a, v, a \in g) \in f}

\* Simultaneous substitution of the function g[v] for each variable v.
Substitution(f, g) == {a \in Assignments : {v \in Variables : a \in g[v]} \in f}

\* The functions that are left when the first variables of an order are fixed,
\* the constants excepted: a diagram has a node for each.
Subfunctions(m, order) ==
    LET fix[i \in 0..Len(order)] ==
          IF i = 0 THEN {m}
          ELSE {Cofactor(f, order[i], value) : f \in fix[i - 1], value \in BOOLEAN}
    IN  (UNION {fix[i] : i \in 0..Len(order)}) \ {{}, Assignments}
============================================================================
