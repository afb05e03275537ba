---------------------------- MODULE MCNodeSession ----------------------------
(* Small tables.  Level 0 is the unused variable 0, as prover_init sets it up. *)
EXTENDS NodeSession

Identity == [level \in 0..(VarCount + 3) |-> level]
Reversed ==
    [level \in 0..(VarCount + 3) |->
       IF level \in 1..VarCount THEN VarCount + 1 - level ELSE level]

\* With the limit of 14 a table of 13 entries is resized to 13 entries.
Growing == [type |-> "LRAT", limit |-> 0, order |-> Reversed]
Limited == [type |-> "NONE", limit |-> 14, order |-> Identity]

MCSetups == {Growing, Limited}
MCMaxStack == [type \in ProofTypes |-> IF type = "NONE" THEN 2 ELSE 1]
============================================================================
