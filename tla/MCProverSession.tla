--------------------------- MODULE MCProverSession ---------------------------
(* The generator on a small formula that is refuted in two steps, with resolvents that
   are tautologies or have two literals. *)
EXTENDS ProverSession

MCInputs == <<{1}, {-1, 2}, {-2}, {-2, 1, 3}>>
============================================================================
