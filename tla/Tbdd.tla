-------------------------------- MODULE Tbdd --------------------------------
(***************************************************************************)
(* Trusted BDDs (tbdd.c): the functions that make them, each as an         *)
(* operator on a record x with the record s of OpCache and                 *)
(*   slot     what each variable of the client holds,                      *)
(*   rc       the table of reference counts,                               *)
(*   created  created_unit_clauses,                                        *)
(*   dead     dead_unit_clauses,                                           *)
(*   gone     the list that the latest call to change a trusted BDD        *)
(*            handed to delete_clauses.                                    *)
(***************************************************************************)
EXTENDS Apply, RefCounts

NoTbdd == [root |-> -1, clause_id |-> 0, rc_index |-> -2]

tbdd_create(x, u, r, id) ==
    LET index == IF id = TAUTOLOGY THEN -1 ELSE RoomFor(x.rc).freepos
    IN  [x EXCEPT !.s.k = bdd_addref(@, r),
                  !.slot[u] = [root |-> r, clause_id |-> id, rc_index |-> index],
                  !.rc = IF id = TAUTOLOGY THEN @ ELSE rc_new_entry(@),
                  !.created = IF id = TAUTOLOGY THEN @ ELSE Append(@, id),
                  !.gone = <<>>]

\* Fault: the node's reference is not counted.
tbdd_addref_loose(x, u, v) ==
    [x EXCEPT !.slot[u] = x.slot[v], !.rc = rc_increment(@, x.slot[v].rc_index), !.gone = <<>>]

\* tbdd_addref, and so tbdd_duplicate.
tbdd_addref(x, u, v) ==
    [x EXCEPT !.s.k = bdd_addref(@, x.slot[v].root),
              !.slot[u] = x.slot[v],
              !.rc = rc_increment(@, x.slot[v].rc_index),
              !.gone = <<>>]

tbdd_delref(x, v) ==
    LET h == x.slot[v]
        last == LastCopy(x.rc, h.rc_index)
        deletes == last /\ h.root # 0
    IN  [x EXCEPT !.s.k = bdd_delref(@, h.root),
                  !.s.p = IF deletes THEN DeleteClauses(@, <<h.clause_id>>) ELSE @,
                  !.slot[v] = NoTbdd,
                  !.rc = rc_release(@, h.rc_index),
                  !.dead = IF last THEN Append(@, h.clause_id) ELSE @,
                  !.gone = IF deletes THEN <<h.clause_id>> ELSE <<>>]

----------------------------------------------------------------------------
(* Clauses.                                                                *)

\* The literals of a clause from the lowest level of the diagram up.
LiteralsUpward(k, clause) ==
    LET of(level) == {l \in clause : l \in {k.level2var[level], -k.level2var[level]}}
        upward == [i \in 1..k.varnum |-> k.varnum - i]
        met == SelectSeq(upward, LAMBDA level : level > 0 /\ of(level) # {})
    IN  [i \in DOMAIN met |-> CHOOSE l \in clause : l \in of(met[i])]

LevelOf(k, literal) ==
    CHOOSE level \in 1..(k.varnum - 1) : k.level2var[level] \in {literal, -literal}

\* The node below is referenced during the call.
ClauseNode(made, literal) ==
    LET r == made.root
        low  == IF literal < 0 THEN 1 ELSE r
        high == IF literal < 0 THEN r ELSE 1
        release(next) == [next EXCEPT !.s.k = bdd_delref(@, r)]
    IN  release(Makenode([made.s EXCEPT !.k = bdd_addref(@, r)],
                         LevelOf(made.s.k, literal), low, high))

BDD_build_clause(s, clause) ==
    IF clause = TautologyClause THEN [s |-> s, root |-> 1]
    ELSE FoldLeft(ClauseNode, [s |-> s, root |-> 0], LiteralsUpward(s.k, clause))

\* The defining clauses met on the way down the diagram of a clause.
ClausePath(k, root, literals) ==
    LET down(c, l) ==
          [node |-> IF l < 0 THEN HIGH(k, c.node) ELSE LOW(k, c.node),
           ids  |-> c.ids \o (IF l < 0
                              THEN <<bdd_dclause(k, c.node, "LU"), bdd_dclause(k, c.node, "HU")>>
                              ELSE <<bdd_dclause(k, c.node, "HU"), bdd_dclause(k, c.node, "LU")>>)]
    IN  FoldLeft(down, [node |-> root, ids |-> <<>>], Reverse(literals)).ids

\* Generate the unit clause of a root.
ProveUnit(x, u, r, hints) ==
    LET p == x.s.p
        unit == {XVAR(x.s.k, r)}
    IN  tbdd_create([x EXCEPT !.s.p = GenerateClause(p, unit, hints)],
                    u, r, GeneratedId(p, unit))

\* tbdd_from_clause_with_id, the whole of tbdd_from_clause_id.
tbdd_from_clause_id(x, u, id, literals) ==
    LET clause == CleanClause(literals)
        path(k, root) == IF clause = TautologyClause THEN <<>>
                         ELSE ClausePath(k, root, LiteralsUpward(k, clause))
        prove(built) == ProveUnit([x EXCEPT !.s = built.s], u, built.root,
                                  path(built.s.k, built.root) \o <<id>>)
    IN  prove(BDD_build_clause(x.s, clause))

\* Fault: the asserted clause is deleted before it is cited.
tbdd_from_clause_early(x, u, literals) ==
    LET p == x.s.p
        id == GeneratedId(p, literals)
    IN  tbdd_from_clause_id(
          [x EXCEPT !.s.p = DeleteClauses(GenerateClause(p, literals, <<>>), <<id>>)],
          u, id, literals)

\* tbdd_from_clause.  assert_clause adds the clause without hints.
tbdd_from_clause(x, u, literals) ==
    LET p == x.s.p
        id == GeneratedId(p, literals)
        asserted == [x EXCEPT !.s.p = GenerateClause(p, literals, <<>>)]
    IN  [tbdd_from_clause_id(asserted, u, id, literals)
           EXCEPT !.s.p = DeleteClauses(@, <<id>>)]

----------------------------------------------------------------------------
(* Conjunction and validation.                                             *)

\* The clause j.cid that justifies the result is among the hints of the unit clause;
\* then what was evicted on the way is deleted.
ConcludeWith(x, u, r, j, hints) ==
    LET done == [x EXCEPT !.s = j.s]
    IN  IF j.s.error # "" THEN done
        ELSE [ProveUnit(done, u, r, hints)
                EXCEPT !.s.p = ProcessDeferredDeletions(@)]

tbdd_and(x, u, v, w) ==
    LET a == x.slot[v]
        b == x.slot[w]
        conclude(j) == ConcludeWith(x, u, j.root, j, <<a.clause_id, b.clause_id, j.cid>>)
    IN  IF a.root = 1 THEN tbdd_addref(x, u, w)
        ELSE IF b.root = 1 THEN tbdd_addref(x, u, v)
        ELSE conclude(bdd_applyj(x.s, a.root, b.root, bddop_andj))

\* When the implication fails the code exits.
Verified(j) ==
    IF j.s.error = "" /\ j.root # 1 THEN [j EXCEPT !.s.error = "exit"] ELSE j

tbdd_validate(x, u, r, v) ==
    LET a == x.slot[v]
        conclude(j) == ConcludeWith(x, u, r, j, <<j.cid, a.clause_id>>)
    IN  IF r = a.root THEN tbdd_addref(x, u, v)
        ELSE conclude(Verified(bdd_applyj(x.s, a.root, r, bddop_imptstj)))

tbdd_validate_with_and(x, u, r, v, w) ==
    LET a == x.slot[v]
        b == x.slot[w]
        conclude(j) == ConcludeWith(x, u, r, j, <<a.clause_id, b.clause_id, j.cid>>)
    IN  IF 1 \in {a.root, b.root}
        THEN tbdd_validate(x, u, r, IF a.root = 1 THEN w ELSE v)
        ELSE conclude(Verified(bdd_apply_aij(x.s, a.root, b.root, r)))

----------------------------------------------------------------------------
(* Validation of a clause.                                                 *)

\* test_validation_path: the literals, made false from the top level down, lead
\* to the false node.
test_validation_path(k, root, literals) ==
    LET down(c, l) ==
          IF ~c.open \/ LEVEL(k, c.node) > LevelOf(k, l) THEN c
          ELSE IF LEVEL(k, c.node) < LevelOf(k, l) THEN [c EXCEPT !.open = FALSE]
          ELSE [c EXCEPT !.node = IF l < 0 THEN HIGH(k, @) ELSE LOW(k, @)]
        end == FoldLeft(down, [node |-> root, open |-> TRUE], Reverse(literals))
    IN  end.open /\ end.node = 0

\* tbdd_validate_clause_path compares the level of a node with the number of the
\* variable.  A result of -1 is failure.
tbdd_validate_clause_path(s, clause, root, unit) ==
    LET k == s.k
        down(c, l) ==
          LET var == Line!Magnitude(l)
          IN  IF ~c.open \/ LEVEL(k, c.node) > var THEN c
              ELSE IF LEVEL(k, c.node) < var THEN [c EXCEPT !.open = FALSE]
              ELSE IF l < 0
                   THEN [c EXCEPT !.node = HIGH(k, @),
                                  !.ids = Append(@, bdd_dclause(k, c.node, "HD"))]
                   ELSE [c EXCEPT !.node = LOW(k, @),
                                  !.ids = Append(@, bdd_dclause(k, c.node, "LD"))]
        end == FoldLeft(down, [node |-> root, open |-> TRUE, ids |-> <<unit>>],
                        Reverse(LiteralsUpward(k, clause)))
    IN  IF ~end.open THEN [s |-> s, id |-> -1]
        ELSE [s |-> [s EXCEPT !.p = GenerateClause(@, clause, end.ids)],
              id |-> GeneratedId(s.p, clause)]

\* Field id is the identifier of the clause, TAUTOLOGY for a tautology.  A diagram
\* with no such path needs that of the clause first, in the spare slot u.
PathOf(x, clause, v) ==
    tbdd_validate_clause_path(x.s, clause, x.slot[v].root, x.slot[v].clause_id)

ThenDrop(x, u, path) == [x |-> tbdd_delref([x EXCEPT !.s = path.s], u), id |-> path.id]

ByDiagramOf(x, u, clause, root, v) ==
    LET release(y) ==
          IF y.s.error # "" THEN y ELSE [y EXCEPT !.s.k = bdd_delref(@, root)]
        conclude(y) == IF y.s.error # "" THEN [x |-> y, id |-> TAUTOLOGY]
                       ELSE ThenDrop(y, u, PathOf(y, clause, u))
    IN  conclude(release(tbdd_validate([x EXCEPT !.s.k = bdd_addref(@, root)], u, root, v)))

tbdd_validate_clause(x, u, literals, v) ==
    LET clause == CleanClause(literals)
        direct(path) == [x |-> [x EXCEPT !.s = path.s], id |-> path.id]
        indirect(built) == ByDiagramOf([x EXCEPT !.s = built.s], u, clause, built.root, v)
    IN  IF test_validation_path(x.s.k, x.slot[v].root, LiteralsUpward(x.s.k, clause))
        THEN direct(PathOf(x, clause, v))
        ELSE indirect(BDD_build_clause(x.s, clause))

----------------------------------------------------------------------------
(* Start and end.                                                          *)

\* tbdd_init, with the variables of the CNF file in the order given.
tbdd_init(type, varcount, inputs, initnodes, level2var, slots) ==
    LET start(c) ==
          [s |-> [k |-> c.k, p |-> c.p, stack |-> <<>>, error |-> c.error,
                  cache |-> BddCache_init(bdd_prime_gte(initnodes) \div CacheRatio)],
           slot |-> [u \in slots |-> NoTbdd],
           rc |-> rc_init, created |-> <<>>, dead |-> <<>>, gone |-> <<>>]
    IN  start(bdd_setvarnum(bdd_init(initnodes, level2var),
                            ProverInit(type, varcount, inputs), varcount + 1))

\* tbdd_done: the unit clauses left, then the nodes, then what was deferred.
tbdd_done(x) ==
    LET live == live_unit_clauses(x.created, x.dead)
        units == IF live = <<>> THEN x.s.p ELSE DeleteClauses(x.s.p, live)
        end(s) == [x EXCEPT !.s = [s EXCEPT !.p = ProverDone(@)], !.gone = live]
    IN  end(bdd_operator_done([x.s EXCEPT !.p = DeleteAllNodes(x.s.k, units)]))
============================================================================
