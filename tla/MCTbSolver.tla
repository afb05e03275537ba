----------------------------- MODULE MCTbSolver -----------------------------
(* Files over three variables: satisfiable and not, with clauses that are
   written twice or hold always, and with a wrong header.                     *)
EXTENDS TbSolver

File(count, clauses) == [header |-> "cnf", max |-> VarCount, count |-> count, clauses |-> clauses]

MCFiles ==
    { File(3, << <<1, 2, 1>>, <<-1, 3>>, <<-2, -3>> >>),
      File(3, << <<3, -1>>, <<2, -3, 2>>, <<3>> >>),
      File(4, << <<1, 2>>, <<-1, 2>>, <<3, -2>>, <<-3, -2>> >>),
      File(2, << <<1, 3>>, <<-3>> >>),
      File(3, << <<1, 2>>, <<3, -3, 2>>, <<-1>> >>),
      File(2, << <<1, 2>>, <<-1, 3>>, <<-2>> >>),
      File(2, << <<1, 2>>, <<-1, 3>> >>),
      [File(1, << <<1, 2>> >>) EXCEPT !.header = "dnf"] }
=============================================================================
