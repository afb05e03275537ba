-------------------------- MODULE MCReorderSession --------------------------
(* Four variables; functions for which the order of the variables matters.   *)
EXTENDS ReorderSession

Natural == [level \in 0..(VarCount - 1) |-> level]

Pairs02  == {a \in M!Assignments : {0, 2} \subseteq a \/ {1, 3} \subseteq a}
Majority == {a \in M!Assignments : Cardinality(a) >= 2}
Select   == {a \in M!Assignments : IF 3 \in a THEN 0 \in a ELSE 1 \in a}
Equal    == {a \in M!Assignments : (0 \in a) = (2 \in a) /\ (1 \in a) = (3 \in a)}

Block(first, last, fixed) == [first |-> first, last |-> last, fixed |-> fixed]
Singles == {Block(v, v, BDD_REORDER_FREE) : v \in 0..(VarCount - 1)}

Menu(nodes, functions, bs, methods, names, bound) ==
    [order |-> Natural, nodes |-> nodes, functions |-> functions, blocks |-> bs,
     methods |-> methods, calls |-> names, bound |-> bound, careful |-> TRUE]

Sliding == {BDD_REORDER_WIN2, BDD_REORDER_WIN2ITE, BDD_REORDER_WIN3, BDD_REORDER_WIN3ITE}
Sifting == {BDD_REORDER_SIFT, BDD_REORDER_SIFTITE}

MCMenus ==
    { Menu(25, <<Pairs02, Select>>, {}, {}, {"swapvar", "setvarorder", "block", "and", "release"}, 3),
      Menu(25, <<Pairs02, Select>>, {Block(0, 1, 0), Block(1, 2, 1), Block(2, 3, 1)},
           Sliding \cup Sifting, {"block", "reorder", "clear"}, 4),
      Menu(25, <<Equal, Select>>, {}, Sliding \cup Sifting, {"block", "reorder", "xor"}, 3),
      Menu(25, <<Equal>>, {}, {BDD_REORDER_RANDOM}, {"block", "reorder", "replace"}, 3),
      Menu(19, <<Equal, Select>>, {}, {BDD_REORDER_SIFT, BDD_REORDER_WIN2},
           {"block", "autoreorder", "xor", "ite"}, 4) }

\* A client that may reorder while a node it references is below another one.
Odd12  == {a \in M!Assignments : (1 \in a) # (2 \in a)}
Both12 == {a \in M!Assignments : {1, 2} \subseteq a}
Just0  == {a \in M!Assignments : 0 \in a}
MCCareless ==
    { [Menu(25, <<Odd12, Both12, Just0>>, {}, {}, {"swapvar", "and", "release"}, 4)
         EXCEPT !.careful = FALSE] }

MCDraws == {<<0, 1, 2, 3, 0, 1, 2, 3, 1, 1, 0, 2, 3, 0, 1, 2>>,
            <<2, 2, 1, 0, 0, 3, 1, 1, 2, 0, 0, 1, 2, 2, 3, 1>>}
MCOrders == {<<3, 1, 0, 2>>, <<0, 2, 1, 3>>}
=============================================================================
