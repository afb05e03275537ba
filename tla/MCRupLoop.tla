------------------------------ MODULE MCRupLoop ------------------------------
(* Clauses like those of justify_apply over three variables. *)
EXTENDS RupLoop

MCLiterals == (-3..3) \ {0}
MCClauses == {{1}, {-1, 2}, {1, -2}, {-2, 3}, {1, 2, -3}, {-1, -2, -3}}
MCOrders == {<<1, 2, 3, 4>>, <<3, 4, 1, 2>>, <<2, 3>>}
============================================================================
