----------------------------- MODULE Operators -----------------------------
(***************************************************************************)
(* The other operators of bddop.c: if-then-else, cofactors, renaming and   *)
(* composition, quantification, satisfying assignments, and what can be    *)
(* asked of a diagram.                                                     *)
(*                                                                         *)
(* Each takes the record s of OpCache and returns it with the result, as   *)
(* those of Apply do.  The globals that an operation sets up for its       *)
(* recursion (quantvarset, quantid, applyop, replacepair ...) are a record *)
(* that the recursion is given.  The generation counter of quantvarset     *)
(* makes that table the set of the levels of the latest cube.              *)
(***************************************************************************)
EXTENDS Apply

bddop_simplify == 12
bddop_ite == 13
bddop_misc == 14
bddop_replace == 15
bddop_quant == 16
bddop_appex == 17

CACHEID_CONSTRAIN == 0
CACHEID_RESTRICT == 1
CACHEID_SATCOU == 2
CACHEID_PATHCOU == 4
CACHEID_REPLACE == 0
CACHEID_COMPOSE == 1
CACHEID_VECCOMPOSE == 2
CACHEID_EXIST == 0
CACHEID_FORALL == 1
CACHEID_UNIQUE == 2
CACHEID_APPEX == 3
CACHEID_APPAL == 4
CACHEID_APPUN == 5

----------------------------------------------------------------------------
(* What the recursive functions share.                                     *)

Plainly(s, root) == Result(s, root, TAUTOLOGY)

Node(s, level, low, high) ==
    LET finished(made) == Plainly(made.s, made.root)
    IN  finished(Makenode(s, level, low, high))

\* Two recursive calls, their results on the stack while finish combines them.
Both2(s, first(_), second(_), finish(_, _, _)) ==
    LET popped(r) == Plainly(POPREF(r.s, 2), r.root)
        end(low, high) == popped(finish(PUSHREF(high.s, high.root), low.root, high.root))
        then(low) == end(low, second(PUSHREF(low.s, low.root)))
    IN  then(first(s))

\* An entry and the fields of it that are compared.
Key(a, b, c, op) == Entry(a, b, c, op, 0, TAUTOLOGY)

\* Fault: a result is found whatever variable set or pair it was computed for.
Found_anySet(entry, key, fields) == \A f \in fields \ {"c"} : entry[f] = key[f]

Found(entry, key, fields) == \A f \in fields : entry[f] = key[f]

\* Look the result up, or compute and store it.
Memo(s, hash, key, fields, compute(_)) ==
    LET i == BddCache_lookup(s.cache, hash)
        keep(r) == Plainly(Store(r.s, i, [key EXCEPT !.res = r.root]), r.root)
    IN  IF Found(s.cache[i], key, fields) THEN Plainly(s, s.cache[i].res)
        ELSE keep(compute(s))

RESTRHASH(r, id) == PAIR(r, id)
CONSTRAINHASH(f, c) == PAIR(f, c)
COMPOSEHASH(f, g) == PAIR(f, g)
APPEXHASH(l, r, op) == PAIR(l, r)

----------------------------------------------------------------------------
(* If-then-else.                                                           *)

RECURSIVE ite_rec(_, _, _, _)
ite_rec(s, f, g, h) ==
    LET level == SplitLevel(s.k, {f, g, h})
        compute(t) ==
            Both2(t, LAMBDA u : ite_rec(u, LowAt(u.k, f, level), LowAt(u.k, g, level),
                                        LowAt(u.k, h, level)),
                     LAMBDA u : ite_rec(u, HighAt(u.k, f, level), HighAt(u.k, g, level),
                                        HighAt(u.k, h, level)),
                     LAMBDA u, low, high : Node(u, level, low, high))
    IN  IF s.error # "" THEN Failed(s, s.error)
        ELSE IF f = 1 THEN Plainly(s, g)
        ELSE IF f = 0 THEN Plainly(s, h)
        ELSE IF g = h THEN Plainly(s, g)
        ELSE IF g = 1 /\ h = 0 THEN Plainly(s, f)
        ELSE IF g = 0 /\ h = 1 THEN not_rec(s, f)
        ELSE Memo(s, TRIPLE(f, g, h), Key(f, g, h, bddop_ite), {"a", "b", "c", "op"}, compute)

----------------------------------------------------------------------------
(* Cofactors.                                                              *)

\* varset2svartable: the levels of a cube by the sign of the literal.
RECURSIVE CubeLevels(_, _)
CubeLevels(k, n) ==
    IF n \in Terminals THEN [pos |-> {}, neg |-> {}]
    ELSE IF LOW(k, n) = 0
    THEN LET below == CubeLevels(k, HIGH(k, n))
         IN  [below EXCEPT !.pos = @ \cup {LEVEL(k, n)}]
    ELSE LET below == CubeLevels(k, LOW(k, n))
         IN  [below EXCEPT !.neg = @ \cup {LEVEL(k, n)}]

RECURSIVE restrict_rec(_, _, _)
restrict_rec(s, q, r) ==
    LET level == LEVEL(s.k, r)
        compute(t) ==
            IF level \in q.pos THEN restrict_rec(t, q, HIGH(t.k, r))
            ELSE IF level \in q.neg THEN restrict_rec(t, q, LOW(t.k, r))
            ELSE Both2(t, LAMBDA u : restrict_rec(u, q, LOW(u.k, r)),
                          LAMBDA u : restrict_rec(u, q, HIGH(u.k, r)),
                          LAMBDA u, low, high : Node(u, LEVEL(u.k, r), low, high))
    IN  IF s.error # "" THEN Failed(s, s.error)
        ELSE IF r \in Terminals THEN Plainly(s, r)
        ELSE Memo(s, RESTRHASH(r, q.miscid), Key(r, -1, q.miscid, bddop_misc),
                  {"a", "c", "op"}, compute)

\* The last level in the table is that of the terminal below the cube.
bdd_restrict(s, r, cube) ==
    IF cube \in Terminals THEN Plainly(s, r)
    ELSE Operate(restrict_rec(s, [pos |-> CubeLevels(s.k, cube).pos,
                                  neg |-> CubeLevels(s.k, cube).neg,
                                  miscid |-> 8 * cube + CACHEID_RESTRICT], r))

\* constrain_rec and simplify_rec agree but where the domain tests a variable that
\* the function does not: below is what they do there.
Narrowed(s, f, d, hash, key, fields, rec(_, _, _), below(_)) ==
    LET level == SplitLevel(s.k, {f, d})
        meets == LEVEL(s.k, d) = level
        split(t) == Both2(t, LAMBDA u : rec(u, LowAt(u.k, f, level), LowAt(u.k, d, level)),
                             LAMBDA u : rec(u, HighAt(u.k, f, level), HighAt(u.k, d, level)),
                             LAMBDA u, low, high : Node(u, level, low, high))
        compute(t) ==
            IF LEVEL(t.k, f) # level THEN below(t)
            ELSE IF meets /\ LOW(t.k, d) = 0 THEN rec(t, HIGH(t.k, f), HIGH(t.k, d))
            ELSE IF meets /\ HIGH(t.k, d) = 0 THEN rec(t, LOW(t.k, f), LOW(t.k, d))
            ELSE split(t)
    IN  IF s.error # "" THEN Failed(s, s.error)
        ELSE IF d = 1 \/ f \in Terminals THEN Plainly(s, f)
        ELSE IF d = f THEN Plainly(s, 1)
        ELSE IF d = 0 THEN Plainly(s, 0)
        ELSE Memo(s, hash, key, fields, compute)

RECURSIVE constrain_rec(_, _, _)
constrain_rec(s, f, c) ==
    LET below(t) ==
            IF LOW(t.k, c) = 0 THEN constrain_rec(t, f, HIGH(t.k, c))
            ELSE IF HIGH(t.k, c) = 0 THEN constrain_rec(t, f, LOW(t.k, c))
            ELSE Both2(t, LAMBDA u : constrain_rec(u, f, LOW(u.k, c)),
                          LAMBDA u : constrain_rec(u, f, HIGH(u.k, c)),
                          LAMBDA u, low, high : Node(u, LEVEL(u.k, c), low, high))
    IN  Narrowed(s, f, c, CONSTRAINHASH(f, c), Key(f, c, CACHEID_CONSTRAIN, bddop_misc),
                 {"a", "b", "c", "op"}, constrain_rec, below)

ExistStep(t, d) == apply_rec(t, bddop_or, LOW(t.k, d), HIGH(t.k, d))

RECURSIVE simplify_rec(_, _, _)
simplify_rec(s, f, d) ==
    LET popped(r) == Plainly(POPREF(r.s, 1), r.root)
        wider(e) == popped(simplify_rec(PUSHREF(e.s, e.root), f, e.root))
        below(t) == wider(ExistStep(t, d))
    IN  Narrowed(s, f, d, APPLYHASH(f, d, bddop_simplify), Key(f, d, -1, bddop_simplify),
                 {"a", "b", "op"}, simplify_rec, below)

----------------------------------------------------------------------------
(* Renaming and composition.  A pair table q has the BDD that replaces the *)
(* variable of each level (result), the last level it changes (last) and   *)
(* its identifier (id).                                                    *)

\* Put a variable on top of l and r, wherever its level is.
RECURSIVE bdd_correctify(_, _, _, _)
bdd_correctify(s, level, l, r) ==
    LET top == SplitLevel(s.k, {l, r})
    IN  IF s.error # "" THEN Failed(s, s.error)
        ELSE IF level < top THEN Node(s, level, l, r)
        ELSE IF level \in {LEVEL(s.k, l), LEVEL(s.k, r)} THEN Failed(s, "BDD_REPLACE")
        ELSE Both2(s, LAMBDA u : bdd_correctify(u, level, LowAt(u.k, l, top), LowAt(u.k, r, top)),
                      LAMBDA u : bdd_correctify(u, level, HighAt(u.k, l, top), HighAt(u.k, r, top)),
                      LAMBDA u, low, high : Node(u, top, low, high))

RECURSIVE replace_rec(_, _, _)
replace_rec(s, q, r) ==
    LET compute(t) ==
            Both2(t, LAMBDA u : replace_rec(u, q, LOW(u.k, r)),
                     LAMBDA u : replace_rec(u, q, HIGH(u.k, r)),
                     LAMBDA u, low, high :
                        bdd_correctify(u, LEVEL(u.k, q.result[LEVEL(u.k, r)]), low, high))
    IN  IF s.error # "" THEN Failed(s, s.error)
        ELSE IF r \in Terminals \/ LEVEL(s.k, r) > q.last THEN Plainly(s, r)
        ELSE Memo(s, r, Key(r, -1, 4 * q.id + CACHEID_REPLACE, bddop_replace),
                  {"a", "c", "op"}, compute)

RECURSIVE compose_rec(_, _, _, _)
compose_rec(s, composelevel, f, g) ==
    LET level == SplitLevel(s.k, {f, g})
        compute(t) ==
            IF LEVEL(t.k, f) = composelevel THEN ite_rec(t, g, HIGH(t.k, f), LOW(t.k, f))
            ELSE Both2(t, LAMBDA u : compose_rec(u, composelevel, LowAt(u.k, f, level),
                                                 LowAt(u.k, g, level)),
                          LAMBDA u : compose_rec(u, composelevel, HighAt(u.k, f, level),
                                                 HighAt(u.k, g, level)),
                          LAMBDA u, low, high : Node(u, level, low, high))
    IN  IF s.error # "" THEN Failed(s, s.error)
        ELSE IF LEVEL(s.k, f) > composelevel THEN Plainly(s, f)
        ELSE Memo(s, COMPOSEHASH(f, g),
                  Key(f, g, 4 * composelevel + CACHEID_COMPOSE, bddop_replace),
                  {"a", "b", "c", "op"}, compute)

RECURSIVE veccompose_rec(_, _, _)
veccompose_rec(s, q, f) ==
    LET compute(t) ==
            Both2(t, LAMBDA u : veccompose_rec(u, q, LOW(u.k, f)),
                     LAMBDA u : veccompose_rec(u, q, HIGH(u.k, f)),
                     LAMBDA u, low, high : ite_rec(u, q.result[LEVEL(u.k, f)], high, low))
    IN  IF s.error # "" THEN Failed(s, s.error)
        ELSE IF LEVEL(s.k, f) > q.last THEN Plainly(s, f)
        ELSE Memo(s, f, Key(f, -1, 4 * q.id + CACHEID_VECCOMPOSE, bddop_replace),
                  {"a", "c", "op"}, compute)

bddvar2level(k, v) == CHOOSE level \in 0..(k.varnum - 1) : k.level2var[level] = v

bdd_ite(s, f, g, h)     == Operate(ite_rec(s, f, g, h))
bdd_constrain(s, f, c)  == Operate(constrain_rec(s, f, c))
bdd_simplify(s, f, d)   == Operate(simplify_rec(s, f, d))
bdd_replace(s, r, q)    == Operate(replace_rec(s, q, r))
bdd_compose(s, f, g, v) == Operate(compose_rec(s, bddvar2level(s.k, v), f, g))
bdd_veccompose(s, f, q) == Operate(veccompose_rec(s, q, f))

----------------------------------------------------------------------------
(* Quantification, alone and under an operation.                           *)

\* varset2vartable: the levels of a variable set.
RECURSIVE SetLevels(_, _)
SetLevels(k, n) ==
    IF n \in Terminals THEN {} ELSE {LEVEL(k, n)} \cup SetLevels(k, HIGH(k, n))

\* The results for the two cofactors of a node: quantified or put back.
Joined(u, q, level, low, high) ==
    IF level \in q.levels THEN apply_rec(u, q.applyop, low, high)
    ELSE Node(u, level, low, high)

RECURSIVE quant_rec(_, _, _)
quant_rec(s, q, r) ==
    LET compute(t) ==
            Both2(t, LAMBDA u : quant_rec(u, q, LOW(u.k, r)),
                     LAMBDA u : quant_rec(u, q, HIGH(u.k, r)),
                     LAMBDA u, low, high : Joined(u, q, LEVEL(u.k, r), low, high))
    IN  IF s.error # "" THEN Failed(s, s.error)
        ELSE IF r \in Terminals \/ LEVEL(s.k, r) > Max(q.levels) THEN Plainly(s, r)
        ELSE Memo(s, r, Key(r, -1, q.quantid, bddop_quant), {"a", "c", "op"}, compute)

QuantifierId(op) ==
    CASE op = bddop_or -> CACHEID_EXIST
      [] op = bddop_and -> CACHEID_FORALL
      [] op = bddop_xor -> CACHEID_UNIQUE

\* Join the cofactors of each variable of the set with op.
QuantifyOver(s, r, set, op) ==
    IF set \in Terminals THEN Plainly(s, r)
    ELSE Operate(quant_rec(s, [levels |-> SetLevels(s.k, set), applyop |-> op,
                               quantid |-> 8 * set + QuantifierId(op)], r))

bdd_exist(s, r, set)  == QuantifyOver(s, r, set, bddop_or)
bdd_forall(s, r, set) == QuantifyOver(s, r, set, bddop_and)
bdd_unique(s, r, set) == QuantifyOver(s, r, set, bddop_xor)

\* The cases in which one operand decides.
AppShortcut(op, l, r) ==
    CASE op = bddop_and /\ 0 \in {l, r} -> 0
      [] op = bddop_or /\ 1 \in {l, r} -> 1
      [] op = bddop_xor /\ l = r -> 0
      [] op = bddop_nand /\ 0 \in {l, r} -> 1
      [] op = bddop_nor /\ 1 \in {l, r} -> 0
      [] {l, r} \subseteq Terminals -> oprres(op, l, r)
      [] OTHER -> None

Neutral(op) == IF op = bddop_and THEN 1 ELSE IF op \in {bddop_or, bddop_xor} THEN 0 ELSE None

\* The operand to be quantified by itself.
AppSingle(op, l, r) ==
    CASE op \in {bddop_and, bddop_or} /\ l = r -> l
      [] l = Neutral(op) -> r
      [] r = Neutral(op) -> l
      [] OTHER -> None

RECURSIVE appquant_rec(_, _, _, _)
appquant_rec(s, q, l, r) ==
    LET level == SplitLevel(s.k, {l, r})
        short == AppShortcut(q.appexop, l, r)
        single == AppSingle(q.appexop, l, r)
        compute(t) ==
            Both2(t, LAMBDA u : appquant_rec(u, q, LowAt(u.k, l, level), LowAt(u.k, r, level)),
                     LAMBDA u : appquant_rec(u, q, HighAt(u.k, l, level), HighAt(u.k, r, level)),
                     LAMBDA u, low, high : Joined(u, q, level, low, high))
    IN  IF s.error # "" THEN Failed(s, s.error)
        ELSE IF short # None THEN Plainly(s, short)
        ELSE IF single # None THEN quant_rec(s, q, single)
        ELSE IF level > Max(q.levels) THEN apply_rec(s, q.appexop, l, r)
        ELSE Memo(s, APPEXHASH(l, r, q.appexop), Key(l, r, q.appexid, bddop_appex),
                  {"a", "b", "c", "op"}, compute)

AppexId(set, appexop, op) ==
    32 * set + 2 * appexop + (IF op = bddop_or THEN 0 ELSE 1)

AppQuantifierId(op) ==
    CASE op = bddop_or -> CACHEID_APPEX
      [] op = bddop_and -> CACHEID_APPAL
      [] op = bddop_xor -> CACHEID_APPUN

AppQuantify(s, l, r, appexop, set, op) ==
    IF set \in Terminals THEN bdd_apply(s, l, r, appexop)
    ELSE LET appexid == AppexId(set, appexop, op)
         IN  Operate(appquant_rec(s, [levels |-> SetLevels(s.k, set), applyop |-> op,
                                      appexop |-> appexop, appexid |-> appexid,
                                      quantid |-> 8 * appexid + AppQuantifierId(op)], l, r))

bdd_appex(s, l, r, opr, set)  == AppQuantify(s, l, r, opr, set, bddop_or)
bdd_appall(s, l, r, opr, set) == AppQuantify(s, l, r, opr, set, bddop_and)
bdd_appuni(s, l, r, opr, set) == AppQuantify(s, l, r, opr, set, bddop_xor)
============================================================================
