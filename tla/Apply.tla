------------------------------- MODULE Apply -------------------------------
(***************************************************************************)
(* The recursive operators of bddop.c that the trusted BDDs use: bdd_not   *)
(* and bdd_apply, and the three that prove their results, the conjunction, *)
(* the implication test and the test that a conjunction implies a third    *)
(* BDD.                                                                    *)
(*                                                                         *)
(* Each takes the record of OpCache and returns it with the result: a root *)
(* and, from a proving operator, the clause that justifies it.             *)
(***************************************************************************)
EXTENDS OpCache

bddop_and == 0
bddop_xor == 1
bddop_or == 2
bddop_nand == 3
bddop_nor == 4
bddop_imp == 5
bddop_biimp == 6
bddop_diff == 7
bddop_less == 8
bddop_invimp == 9
bddop_not == 11

Result(s, root, cid) == [s |-> s, root |-> root, cid |-> cid]

Failed(s, code) == Result([s EXCEPT !.error = code], 0, TAUTOLOGY)

\* Fault: the operator is not compared.
Cached_anyOp(s, i, a, b, op) == s.cache[i].a = a /\ s.cache[i].b = b

Cached(s, i, a, b, op) ==
    s.cache[i].a = a /\ s.cache[i].b = b /\ s.cache[i].op = op

Entry(a, b, c, op, root, cid) ==
    [a |-> a, b |-> b, c |-> c, op |-> op, res |-> root, jclause |-> cid]

SplitLevel(k, nodes) == Min({LEVEL(k, n) : n \in nodes})

----------------------------------------------------------------------------
(* bdd_not and bdd_apply.                                                  *)

\* oprres: the columns are 00, 01, 10, 11.
oprres(op, a, b) ==
    LET table == << <<0, 0, 0, 1>>, <<0, 1, 1, 0>>, <<0, 1, 1, 1>>, <<1, 1, 1, 0>>,
                    <<1, 0, 0, 0>>, <<1, 1, 0, 1>>, <<1, 0, 0, 1>>, <<0, 0, 1, 0>>,
                    <<0, 1, 0, 0>>, <<1, 0, 1, 1>> >>
    IN  table[op + 1][2 * a + b + 1]

None == -1

AndShortcut(l, r) ==
    IF l = r THEN l ELSE IF 0 \in {l, r} THEN 0
    ELSE IF l = 1 THEN r ELSE IF r = 1 THEN l ELSE None

\* The cases decided without looking further, for each operator.
ApplyShortcut(op, l, r) ==
    CASE op = bddop_and -> AndShortcut(l, r)
      [] op = bddop_or -> IF l = r THEN l ELSE IF 1 \in {l, r} THEN 1
                          ELSE IF l = 0 THEN r ELSE IF r = 0 THEN l ELSE None
      [] op = bddop_xor -> IF l = r THEN 0 ELSE IF l = 0 THEN r
                           ELSE IF r = 0 THEN l ELSE None
      [] op = bddop_nand /\ 0 \in {l, r} -> 1
      [] op = bddop_nor /\ 1 \in {l, r} -> 0
      [] op = bddop_imp -> IF l = 0 THEN 1 ELSE IF l = 1 THEN r
                           ELSE IF r = 1 THEN 1 ELSE None
      [] OTHER -> IF {l, r} \subseteq Terminals THEN oprres(op, l, r) ELSE None

RECURSIVE not_rec(_, _)
not_rec(s, r) ==
    LET i == BddCache_lookup(s.cache, r)
        remember(made) ==
            Result(Store(POPREF(made.s, 2), i,
                         Entry(r, -1, -1, bddop_not, made.root, TAUTOLOGY)),
                   made.root, TAUTOLOGY)
        combine(low, high) ==
            remember(Makenode(PUSHREF(high.s, high.root), LEVEL(s.k, r), low.root, high.root))
        afterLow(low) == combine(low, not_rec(PUSHREF(low.s, low.root), HIGH(s.k, r)))
    IN  IF s.error # "" THEN Failed(s, s.error)
        ELSE IF r \in Terminals THEN Result(s, 1 - r, TAUTOLOGY)
        ELSE IF s.cache[i].a = r /\ s.cache[i].op = bddop_not
             THEN Result(s, s.cache[i].res, TAUTOLOGY)
        ELSE afterLow(not_rec(s, LOW(s.k, r)))

RECURSIVE apply_rec(_, _, _, _)
apply_rec(s, op, l, r) ==
    LET i == BddCache_lookup(s.cache, APPLYHASH(l, r, op))
        level == SplitLevel(s.k, {l, r})
        remember(made) ==
            Result(Store(POPREF(made.s, 2), i, Entry(l, r, -1, op, made.root, TAUTOLOGY)),
                   made.root, TAUTOLOGY)
        combine(low, high) ==
            remember(Makenode(PUSHREF(high.s, high.root), level, low.root, high.root))
        afterLow(low) ==
            combine(low, apply_rec(PUSHREF(low.s, low.root), op,
                                   HighAt(s.k, l, level), HighAt(s.k, r, level)))
    IN  IF s.error # "" THEN Failed(s, s.error)
        ELSE IF ApplyShortcut(op, l, r) # None
             THEN Result(s, ApplyShortcut(op, l, r), TAUTOLOGY)
        ELSE IF Cached(s, i, l, r, op) THEN Result(s, s.cache[i].res, TAUTOLOGY)
        ELSE afterLow(apply_rec(s, op, LowAt(s.k, l, level), LowAt(s.k, r, level)))

----------------------------------------------------------------------------
(* The proving operators.                                                  *)

Both(low, high) == IF low.root = 1 /\ high.root = 1 THEN 1 ELSE 0

\* The end of a proving operator: justify the result and remember it.
Remember(s, i, op, c, l, r, root, just) ==
    IF ~just.ok THEN Failed(s, "TBDD_PROOF")
    ELSE Result(Store(POPREF([s EXCEPT !.p = just.p], 2), i,
                      Entry(l, r, c, op, root, just.id)), root, just.id)

Justified(s, i, op, c, jop, l, r, level, low, high, root, res) ==
    IF s.error # "" THEN Failed(s, s.error)
    ELSE Remember(s, i, op, c, l, r, root,
                  justify_apply(s.k, s.p, jop, l, r, level, low.cid, high.cid, res))

\* An implication from true, or to false, cannot be proved.
ImptstShortcut(l, r) ==
    IF l = r \/ l = 0 \/ r = 1 THEN 1 ELSE IF l = 1 \/ r = 0 THEN 0 ELSE None

RECURSIVE applyj_rec(_, _, _, _)
applyj_rec(s, op, l, r) ==
    LET short == IF op = bddop_andj THEN AndShortcut(l, r) ELSE ImptstShortcut(l, r)
        i == BddCache_lookup(s.cache, APPLYHASH(l, r, op))
        level == SplitLevel(s.k, {l, r})
        justify(low, high, made) ==
            Justified(made.s, i, op, -1, op, l, r, level, low, high, made.root, made.root)
        resultOf(low, high, ready) ==
            IF op = bddop_andj THEN Makenode(ready, level, low.root, high.root)
            ELSE [s |-> ready, root |-> Both(low, high)]
        combine(low, high) ==
            justify(low, high, resultOf(low, high, PUSHREF(high.s, high.root)))
        afterLow(low) ==
            combine(low, applyj_rec(PUSHREF(low.s, low.root), op,
                                    HighAt(s.k, l, level), HighAt(s.k, r, level)))
    IN  IF s.error # "" THEN Failed(s, s.error)
        ELSE IF short = 0 /\ op = bddop_imptstj THEN Failed(s, "TBDD_PROOF")
        ELSE IF short # None THEN Result(s, short, TAUTOLOGY)
        ELSE IF Cached(s, i, l, r, op)
             THEN Result(s, s.cache[i].res, s.cache[i].jclause)
        ELSE afterLow(applyj_rec(s, op, LowAt(s.k, l, level), LowAt(s.k, r, level)))

RECURSIVE apply_aij_rec(_, _, _, _)
apply_aij_rec(s, l, r, t) ==
    LET i == BddCache_lookup(s.cache, APPLYHASH(l, r, t))
        level == SplitLevel(s.k, {l, r, t})
        combine(low, high) ==
            Justified(PUSHREF(high.s, high.root), i, bddop_andimptstj, t, bddop_andj,
                      l, r, level, low, high, Both(low, high), t)
        afterLow(low) ==
            combine(low, apply_aij_rec(PUSHREF(low.s, low.root), HighAt(s.k, l, level),
                                       HighAt(s.k, r, level), HighAt(s.k, t, level)))
    IN  IF s.error # "" THEN Failed(s, s.error)
        ELSE IF 0 \in {l, r} THEN Result(s, 1, TAUTOLOGY)
        ELSE IF 1 \in {l, r} \/ l = r
             THEN applyj_rec(s, bddop_imptstj, IF l = 1 THEN r ELSE l, t)
        ELSE IF t = 1 THEN Result(s, 1, TAUTOLOGY)
        ELSE IF Cached(s, i, l, r, bddop_andimptstj) /\ s.cache[i].c = t
             THEN Result(s, s.cache[i].res, s.cache[i].jclause)
        ELSE afterLow(apply_aij_rec(s, LowAt(s.k, l, level), LowAt(s.k, r, level),
                                    LowAt(s.k, t, level)))

----------------------------------------------------------------------------
(* The operations.  The reference stack is empty between them (INITREF).   *)

\* One that is given up leaves the cache as it is.
Operate(result) ==
    IF result.s.error # "" THEN result ELSE [result EXCEPT !.s = checkresize(@)]

bdd_not(s, r)             == Operate(not_rec(s, r))
bdd_apply(s, l, r, op)    == Operate(apply_rec(s, op, l, r))
bdd_applyj(s, l, r, op)   == Operate(applyj_rec(s, op, l, r))
bdd_apply_aij(s, l, r, t) == Operate(apply_aij_rec(s, l, r, t))
============================================================================
