---------------------------- MODULE MCTbddSession ----------------------------
(* Small formulas, a table with one free entry, a cache of three entries.  Two
   clauses refute the first formula, all of them the second.                  *)
EXTENDS TbddSession

MCRefutable == <<{1, 2}, {1}, {-1}>>
MCInputs == <<{1, 2}, {-1, 2}, {-2, 3}, {-2, -3}>>
MCLemmas == {{1, 2, 3}, {-1, 3}, {-1, 1}}
MCIdentityOrder == [level \in 0..(VarCount + 2) |-> level]
============================================================================
