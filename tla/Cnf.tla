-------------------------------- MODULE Cnf --------------------------------
(***************************************************************************)
(* Clauses and files of clauses (clause.cpp), and the program that checks  *)
(* the solutions written for one (sat_check.cpp).                          *)
(***************************************************************************)
EXTENDS Integers, Sequences, FiniteSets, SequencesExt, FiniteSetsExt

Abs(lit) == IF lit < 0 THEN -lit ELSE lit

\* Clause::canonize: without duplicates, the greatest variable first.  A clause with
\* opposite literals keeps two of them.
Canonize(lits) ==
    LET both == {Abs(lits[i]) : i \in {j \in DOMAIN lits : -lits[j] \in Range(lits)}}
    IN  IF both # {} THEN [is_tautology |-> TRUE, contents |-> <<Max(both), -Max(both)>>]
        ELSE [is_tautology |-> FALSE,
              contents |-> SetToSortSeq(Range(lits), LAMBDA x, y : Abs(x) > Abs(y))]

length(c) == IF c.is_tautology THEN 0 ELSE Len(c.contents)

max_variable(clauses) == Max({0} \cup UNION {{Abs(l) : l \in Range(c.contents)} : c \in Range(clauses)})

\* The constructor of CNF: a clause of length zero ends the file.  A file has the
\* numbers of its header and the clauses as they are written.
ReadCNF(file) ==
    LET all == [i \in DOMAIN file.clauses |-> Canonize(file.clauses[i])]
        last == Min({i \in DOMAIN all : length(all[i]) = 0} \cup {Len(all) + 1}) - 1
        clauses == SubSeq(all, 1, last)
    IN  [clauses |-> clauses, maxVar |-> max_variable(clauses),
         read_failed |-> \/ file.header # "cnf"
                         \/ max_variable(clauses) > file.max \/ Len(clauses) # file.count]

\* An assignment has 0, 1 or, where the solution says nothing, 2.
ClauseSatisfied(c, assignment) ==
    \/ c.is_tautology
    \/ \E l \in Range(c.contents) : assignment[Abs(l)] = (IF l < 0 THEN 0 ELSE 1)

\* CNF::satisfied: the number of the first clause that is not, or 0.
satisfied(cnf, assignment) ==
    LET wrong == {i \in DOMAIN cnf.clauses : ~ClauseSatisfied(cnf.clauses[i], assignment)}
    IN  IF wrong = {} THEN 0 ELSE Min(wrong)

\* A later literal overwrites an earlier one.
read_solution(cnf, lits) ==
    FoldLeft(LAMBDA a, l : [a EXCEPT ![Abs(l)] = IF l < 0 THEN 0 ELSE 1],
             [v \in 1..cnf.maxVar |-> 2], lits)

\* One line of the file of solutions.
CheckLine(cnf, verblevel, c, line) ==
    LET cid == satisfied(cnf, read_solution(cnf, line.lits))
    IN  CASE c.said # "" \/ line.type = "c" -> c
          [] line.type = "s" ->
               CASE line.status = "SATISFIABLE" -> c
                 [] line.status = "UNSATISFIABLE" -> [c EXCEPT !.said = "UNSATISFIABLE"]
                 [] OTHER -> [c EXCEPT !.said = "ERROR"]
          [] line.type = "v" /\ cid = 0 ->
               [c EXCEPT !.check_count = @ + 1, !.ok_count = @ + 1]
          [] line.type = "v" -> [c EXCEPT !.check_count = @ + 1, !.error = @ \/ verblevel >= 1]
          [] OTHER -> [c EXCEPT !.error = TRUE]

\* What the program says in the end.
Verdict(c, wrong) ==
    IF c.said # "" THEN c.said
    ELSE IF c.error \/ wrong THEN "ERROR"
    ELSE IF c.check_count > 0 THEN "VERIFIED" ELSE "nothing"

ReadLines(cnf, lines, verblevel) ==
    FoldLeft(LAMBDA c, line : CheckLine(cnf, verblevel, c, line),
             [said |-> "", check_count |-> 0, ok_count |-> 0, error |-> FALSE], lines)

\* Fault: only what was reported counts, and without -v nothing is.
run_checks_reported(cnf, lines, verblevel) == Verdict(ReadLines(cnf, lines, verblevel), FALSE)

run_checks(cnf, lines, verblevel) ==
    LET c == ReadLines(cnf, lines, verblevel)
    IN  Verdict(c, c.ok_count # c.check_count)
=============================================================================
