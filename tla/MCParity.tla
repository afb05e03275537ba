------------------------------ MODULE MCParity ------------------------------
(* Constraints over five variables.  The lists to sum are independent, or
   contradict each other, or have a pair with a trivial sum that shares no
   variable with the others: a pair that does is in MCRepeated.  The systems
   have dependent and contradicting equations.                              *)
EXTENDS ParitySession

MCSummands ==
    { << <<<<1, 2>>, 1>>, <<<<2, 3>>, 0>>, <<<<3, 4>>, 1>>, <<<<4, 5>>, 0>>, <<<<1, 3, 5>>, 1>> >>,
      << <<<<1, 2>>, 0>>, <<<<2, 3>>, 0>>, <<<<1, 3>>, 1>>, <<<<4>>, 1>>, <<<<4, 5>>, 1>> >>,
      << <<<<1, 2, 3, 4>>, 0>>, <<<<2, 4>>, 1>>, <<<<1, 4, 5>>, 0>>, <<<<3, 5>>, 0>>, <<<<>>, 0>>, <<<<5>>, 1>> >>,
      << <<<<1, 3>>, 1>>, <<<<1, 2, 3>>, 1>>, <<<<2>>, 1>>, <<<<3, 4>>, 0>> >>,
      << <<<<1, 2>>, 1>>, <<<<1, 2>>, 1>>, <<<<3, 4>>, 0>>, <<<<4, 5>>, 1>>, <<<<3, 5>>, 0>> >>,
      << >> }

MCRepeated ==
    { << <<<<1, 2>>, 1>>, <<<<2, 3>>, 0>>, <<<<1, 2>>, 1>>, <<<<4, 5>>, 0>>, <<<<3, 4>>, 1>> >> }

MCSystems ==
    { << <<<<1, 2>>, 1>>, <<<<2, 3>>, 0>>, <<<<1, 3>>, 1>>, <<<<3, 4, 5>>, 1>> >>,
      << <<<<1, 2, 3>>, 1>>, <<<<2, 3, 4>>, 0>>, <<<<3, 4, 5>>, 1>>, <<<<1, 5>>, 0>> >>,
      << <<<<1, 2>>, 1>>, <<<<2, 3>>, 0>>, <<<<3, 4>>, 1>>, <<<<1, 4>>, 1>>, <<<<4, 5>>, 0>> >>,
      << <<<<1, 2, 4, 5>>, 0>>, <<<<1, 3>>, 1>>, <<<<2, 5>>, 1>>, <<<<3, 4>>, 1>>, <<<<5>>, 1>> >> }

MCInternalSets == {{}, {1, 2}, {2, 4, 5}, 1..VarCount}

MCNone == {}
=============================================================================
