------------------------------ MODULE Queries ------------------------------
(***************************************************************************)
(* What bddop.c and kernel.c tell about a diagram, and the cubes they      *)
(* build: satisfying assignments, support, counts, profiles, variable      *)
(* sets.  The marks that a traversal leaves and takes away again are the   *)
(* set of the nodes it visits.                                             *)
(***************************************************************************)
EXTENDS Operators

INITREF(s) == [s EXCEPT !.stack = <<>>]

ithvar(k, v)  == k.varset[2 * v + 1]
nithvar(k, v) == k.varset[2 * v + 2]

----------------------------------------------------------------------------
(* Satisfying assignments.                                                 *)

\* A node with one child 0, left on the stack: value is the sign of its variable.
PushLiteral(s, level, value, below) ==
    LET pushed(r) == Plainly(PUSHREF(r.s, r.root), r.root)
    IN  pushed(IF value THEN Node(s, level, 0, below) ELSE Node(s, level, below, 0))

\* The child that a satisfying assignment follows.
Followed(k, r) == IF LOW(k, r) = 0 THEN HIGH(k, r) ELSE LOW(k, r)

RECURSIVE satone_rec(_, _)
satone_rec(s, r) ==
    LET above(below) == PushLiteral(below.s, LEVEL(s.k, r), LOW(s.k, r) = 0, below.root)
    IN  IF s.error # "" THEN Failed(s, s.error)
        ELSE IF r \in Terminals THEN Plainly(s, r)
        ELSE above(satone_rec(s, Followed(s.k, r)))

\* pol is the sign of the variables of the set that r does not mention.
RECURSIVE satoneset_rec(_, _, _, _)
satoneset_rec(s, r, set, pol) ==
    LET level == SplitLevel(s.k, {r, set})
        inR == LEVEL(s.k, r) = level
        rest == IF LEVEL(s.k, set) = level THEN HIGH(s.k, set) ELSE set
        above(below) ==
            PushLiteral(below.s, level, IF inR THEN LOW(s.k, r) = 0 ELSE pol = 1, below.root)
    IN  IF s.error # "" THEN Failed(s, s.error)
        ELSE IF {r, set} \subseteq Terminals THEN Plainly(s, r)
        ELSE above(satoneset_rec(s, IF inR THEN Followed(s.k, r) ELSE r, rest, pol))

\* Negative literals at the levels from - 1 down to to + 1.
FillUp(r, from, to) ==
    LET levels == [i \in 1..(from - to - 1) |-> from - i]
    IN  FoldLeft(LAMBDA below, level : PushLiteral(below.s, level, FALSE, below.root), r, levels)

RECURSIVE fullsatone_rec(_, _)
fullsatone_rec(s, r) ==
    LET child == Followed(s.k, r)
        level == LEVEL(s.k, r)
        above(below) == PushLiteral(below.s, level, LOW(s.k, r) = 0, below.root)
    IN  IF s.error # "" THEN Failed(s, s.error)
        ELSE IF r \in Terminals THEN Plainly(s, r)
        ELSE above(FillUp(fullsatone_rec(s, child), LEVEL(s.k, child), level))

bdd_satone(s, r) == Operate(satone_rec(INITREF(s), r))
bdd_satoneset(s, r, set, pol) ==
    IF r = 0 THEN Plainly(s, r) ELSE Operate(satoneset_rec(INITREF(s), r, set, pol))
bdd_fullsatone(s, r) ==
    IF r = 0 THEN Plainly(s, r)
    ELSE Operate(FillUp(fullsatone_rec(INITREF(s), r), LEVEL(s.k, r), -1))

DontCare == -1

\* The variables of the levels strictly between two are open again.
Opened(profile, k, from, to) ==
    [v \in DOMAIN profile |->
       IF bddvar2level(k, v) \in (from + 1)..(to - 1) THEN DontCare ELSE profile[v]]

\* The profiles handed to the handler, in order, and the profile left behind.
RECURSIVE allsat_rec(_, _, _)
allsat_rec(k, r, c) ==
    LET along(d, value, child) ==
            LET here == [d.profile EXCEPT ![k.level2var[LEVEL(k, r)]] = value]
            IN  IF child = 0 THEN d
                ELSE allsat_rec(k, child,
                        [d EXCEPT !.profile = Opened(here, k, LEVEL(k, r), LEVEL(k, child))])
    IN  CASE r = 1 -> [c EXCEPT !.given = Append(@, c.profile)]
          [] r = 0 -> c
          [] OTHER -> along(along(c, 0, LOW(k, r)), 1, HIGH(k, r))

\* The profile is not initialised below the root: junk is what malloc returned.
bdd_allsat(k, r, junk) ==
    allsat_rec(k, r, [given |-> <<>>,
                      profile |-> Opened([v \in 0..(k.varnum - 1) |-> junk],
                                         k, -1, LEVEL(k, r))]).given

----------------------------------------------------------------------------
(* Support, cubes and variable sets.                                       *)

\* One more literal under a cube that is referenced meanwhile.
WithReference(s, root, next(_)) ==
    LET released(r) == [r EXCEPT !.s.k = bdd_delref(@, root)]
    IN  released(next([s EXCEPT !.k = bdd_addref(@, root)]))

\* bdd_support: the cube of the levels below r, from the last one up.
bdd_support(s, r) ==
    LET levels == {LEVEL(s.k, n) : n \in Reachable(s.k, {r})}
        upward == Reverse(SetToSortSeq(levels, <))
        add(c, level) == WithReference(c.s, c.root, LAMBDA t : Node(t, level, 0, c.root))
    IN  IF r \in Terminals THEN Plainly(s, 0)
        ELSE FoldLeft(add, Plainly(s, 1), upward)

\* bdd_ibuildcube and BDD_makeset: the conjunction of literals, the last one first.
Conjunction(s, literals) ==
    LET add(c, n) == WithReference(c.s, c.root,
                        LAMBDA t : bdd_apply(INITREF(t), c.root, n, bddop_and))
    IN  FoldLeft(add, Plainly(s, 1), Reverse(literals))

\* The bits of value, the first variable for the highest of them.
bdd_ibuildcube(s, value, width, variables) ==
    LET bit(z) == (value \div 2^z) % 2
    IN  Conjunction(s, [i \in 1..width |->
            IF bit(width - i) = 1 THEN ithvar(s.k, variables[i]) ELSE nithvar(s.k, variables[i])])

BDD_makeset(s, variables) ==
    Conjunction(s, [i \in DOMAIN variables |-> ithvar(s.k, variables[i])])

\* bdd_scanset, in the order of the diagram.
RECURSIVE bdd_scanset(_, _)
bdd_scanset(k, r) ==
    IF r \in Terminals THEN <<>>
    ELSE <<k.level2var[LEVEL(k, r)]>> \o bdd_scanset(k, HIGH(k, r))

----------------------------------------------------------------------------
(* Counts.                                                                 *)

\* The assignments to the levels between a node and its child.
Doubled(k, count, level, child) == count * 2^(LEVEL(k, child) - level - 1)

\* Results are numbers here; they share the cache with the nodes.
RECURSIVE satcount_rec(_, _)
satcount_rec(s, r) ==
    LET total(low, high) ==
            Plainly(high.s, Doubled(s.k, low.root, LEVEL(s.k, r), LOW(s.k, r))
                              + Doubled(s.k, high.root, LEVEL(s.k, r), HIGH(s.k, r)))
        then(low) == total(low, satcount_rec(low.s, HIGH(s.k, r)))
    IN  IF r \in Terminals THEN Plainly(s, r)
        ELSE Memo(s, r, Key(r, -1, CACHEID_SATCOU, bddop_misc), {"a", "c", "op"},
                  LAMBDA t : then(satcount_rec(t, LOW(t.k, r))))

bdd_satcount(s, r) ==
    LET counted == satcount_rec(s, r)
    IN  [counted EXCEPT !.root = Doubled(s.k, @, -1, r)]

bdd_satcountset(s, r, set) ==
    LET unused == s.k.varnum - Cardinality(SetLevels(s.k, set))
        counted == bdd_satcount(s, r)
    IN  IF set \in Terminals \/ r = 0 THEN Plainly(s, 0)
        ELSE [counted EXCEPT !.root = Max({1, @ \div 2^unused})]

RECURSIVE bdd_pathcount_rec(_, _)
bdd_pathcount_rec(s, r) ==
    LET total(low, high) == Plainly(high.s, low.root + high.root)
        then(low) == total(low, bdd_pathcount_rec(low.s, HIGH(s.k, r)))
    IN  IF r \in Terminals THEN Plainly(s, r)
        ELSE Memo(s, r, Key(r, -1, CACHEID_PATHCOU, bddop_misc), {"a", "c", "op"},
                  LAMBDA t : then(bdd_pathcount_rec(t, LOW(t.k, r))))

bdd_pathcount(s, r) == bdd_pathcount_rec(s, r)

bdd_anodecount(k, roots) == Cardinality(Reachable(k, roots))

bdd_varprofile(k, r) ==
    [v \in 0..(k.varnum - 1) |->
       Cardinality({n \in Reachable(k, {r}) : k.level2var[LEVEL(k, n)] = v})]
============================================================================
