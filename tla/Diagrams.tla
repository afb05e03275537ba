------------------------------ MODULE Diagrams ------------------------------
(***************************************************************************)
(* What a diagram stands for, and how a client builds the diagram of a     *)
(* function it has in mind: for the sessions, not a part of the package.   *)
(***************************************************************************)
EXTENDS Pairs

CONSTANT VarCount       \* the variables are 0 .. VarCount - 1

ASSUME VarCountAssumption == VarCount \in Nat \ {0}

M == INSTANCE Meaning WITH Variables <- 0..(VarCount - 1)

\* The models of a node.
Models(k, n) ==
    LET at[a \in M!Assignments, i \in 0..VarCount] ==
          IF i = 0 THEN n
          ELSE LET m == at[a, i - 1]
               IN  IF m \in Terminals THEN m
                   ELSE IF k.level2var[LEVEL(k, m)] \in a THEN HIGH(k, m) ELSE LOW(k, m)
    IN  {a \in M!Assignments : at[a, VarCount] = 1}

\* The diagram of a function, as the client would have built it.
RECURSIVE Diagram(_, _, _)
Diagram(s, m, level) ==
    LET v == s.k.level2var[level]
    IN  IF m = {} THEN Plainly(s, 0) ELSE IF m = M!Assignments THEN Plainly(s, 1)
        ELSE Both2(s, LAMBDA u : Diagram(u, M!Cofactor(m, v, FALSE), level + 1),
                      LAMBDA u : Diagram(u, M!Cofactor(m, v, TRUE), level + 1),
                      LAMBDA u, low, high : Node(u, level, low, high))

Referenced_(r) == [r EXCEPT !.s.k = bdd_addref(@, r.root)]

\* One after another, each made by make and referenced.
AllMade(s, inputs, make(_, _)) ==
    LET add(c, input) ==
            LET r == Referenced_(make(c.s, input)) IN [s |-> r.s, roots |-> Append(c.roots, r.root)]
    IN  FoldLeft(add, [s |-> s, roots |-> <<>>], inputs)
=============================================================================
