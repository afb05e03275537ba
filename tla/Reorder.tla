------------------------------ MODULE Reorder ------------------------------
(***************************************************************************)
(* Variable reordering (reorder.c): the node table between reorder_init    *)
(* and reorder_done, and the exchange of two neighbouring variables in it. *)
(*                                                                         *)
(* There the field level of a node holds its variable, each variable has a *)
(* range of buckets of its own, and every count includes the references    *)
(* from parents.  The record w has the node table k, the tables of pairs   *)
(* (pair), the ranges (levels), the pairs of variables that may meet in a  *)
(* diagram (iactmtx), the nodes referenced from outside (extroots),        *)
(* whether the table grew (resized) and the code given to bdd_error.       *)
(***************************************************************************)
EXTENDS Diagrams

----------------------------------------------------------------------------
(* The hash tables.                                                        *)

\* reorder_setLevellookup.
reorder_setLevellookup(w) ==
    LET maxsize == w.k.size \div w.k.varnum
        size == IF maxsize >= 4 THEN bdd_prime_lte(maxsize) ELSE maxsize
    IN  [w EXCEPT !.levels = [v \in DOMAIN @ |->
                                [@[v] EXCEPT !.start = v * maxsize, !.size = size]]]

Bucket(w, n) ==
    LET place == w.levels[LEVEL(w.k, n)]
    IN  place.start + (PAIR(LOW(w.k, n), HIGH(w.k, n)) % place.size)

Enter(w, n) ==
    LET b == Bucket(w, n)
    IN  [w EXCEPT !.k.node[n].next = w.k.node[b].hash, !.k.node[b].hash = n]

Vacate(w, n) == [w EXCEPT !.k.node[n].next = w.k.freepos, !.k.freepos = n]

\* The entries from the last one down.
Descending(k, nodes) ==
    SelectSeq([i \in 1..k.size |-> k.size - i], LAMBDA n : n \in nodes)

\* Hash the nodes that are referenced and put the other entries on the free list.
HashAll(w) ==
    LET cleared == [w EXCEPT !.k.freepos = 0,
                             !.k.node = [n \in DOMAIN @ |-> [@[n] EXCEPT !.hash = 0]]]
        place(v, n) == IF v.k.node[n].refcou > 0 THEN Enter(v, n) ELSE Vacate(v, n)
    IN  FoldLeft(place, cleared, Descending(w.k, DOMAIN w.k.node \ Terminals))

reorder_rehashAll(w) == HashAll(reorder_setLevellookup(w))

\* reorder_gbc: what is not referenced now is dead.
reorder_gbc(w) ==
    LET dead == {n \in DOMAIN w.k.node \ Terminals : w.k.node[n].refcou = 0}
    IN  HashAll([w EXCEPT !.k.freenum = Cardinality(dead),
                          !.k.node = [n \in DOMAIN @ |-> IF n \in dead THEN [@[n] EXCEPT !.low = -1]
                                                         ELSE @[n]]])

----------------------------------------------------------------------------
(* reorder_init and reorder_done.                                          *)

\* Count a reference to r; the first one is passed on to the children.  dep has
\* the variables met below a root; below a node that was counted before, those
\* that the matrix has for its variable.
RECURSIVE addref_rec(_, _)
addref_rec(c, r) ==
    LET v == LEVEL(c.k, r)
        counted(d) == [d EXCEPT !.k = bdd_addref(@, r)]
    IN  IF r \in Terminals THEN c
        ELSE IF c.k.node[r].refcou = 0
        THEN counted(addref_rec(addref_rec([c EXCEPT !.dep = @ \cup {v}, !.nodenum[v] = @ + 1],
                                           LOW(c.k, r)), HIGH(c.k, r)))
        ELSE counted([c EXCEPT !.dep = @ \cup {u \in DOMAIN c.nodenum : <<v, u>> \in c.iactmtx}])

MarkRoot(c, n) ==
    LET v == LEVEL(c.k, n)
        start == [c EXCEPT !.dep = {v}, !.nodenum[v] = @ + 1]
        done == addref_rec(addref_rec(start, LOW(c.k, n)), HIGH(c.k, n))
    IN  [done EXCEPT !.iactmtx = @ \cup (done.dep \X done.dep)]

\* From levels to variables.
ByVariable(k) ==
    [k EXCEPT !.node = [n \in DOMAIN @ |->
        IF n \in Terminals THEN @[n] ELSE [@[n] EXCEPT !.level = k.level2var[@]]]]

ByLevel(k) ==
    [k EXCEPT !.node = [n \in DOMAIN @ |->
        IF n \in Terminals THEN @[n] ELSE [@[n] EXCEPT !.level = bddvar2level(k, @)]]]

mark_roots(k, roots) ==
    FoldLeft(MarkRoot, [k |-> ByVariable(k), nodenum |-> [v \in 0..(k.varnum - 1) |-> 0],
                        dep |-> {}, iactmtx |-> {}], roots)

reorder_init(y) ==
    LET roots == Reverse(Descending(y.s.k, Referenced(y.s.k)))
        c == mark_roots(y.s.k, roots)
        levels == [v \in DOMAIN c.nodenum |-> [start |-> -1, size |-> 0, nodenum |-> c.nodenum[v]]]
    IN  reorder_gbc(reorder_setLevellookup(
            [k |-> c.k, pair |-> y.pair, levels |-> levels, iactmtx |-> c.iactmtx,
             extroots |-> Range(roots), resized |-> FALSE, error |-> ""]))

\* The counts of the roots keep the references from parents.  Then a collection,
\* with its reset of the operator cache; the stack has nothing that is not
\* referenced.
reorder_done(y, w) ==
    LET plain == [w.k EXCEPT !.node = [n \in DOMAIN @ |->
                     IF n \in w.extroots \cup Terminals THEN @[n] ELSE [@[n] EXCEPT !.refcou = 0]]]
        adopt(c) == bdd_operator_reset([y.s EXCEPT !.k = c.k, !.p = c.p, !.error = w.error])
    IN  [y EXCEPT !.pair = w.pair, !.s = adopt(bdd_gbc(ByLevel(plain), y.s.p, <<>>))]

reorder_nodenum(w) == w.k.size - w.k.freenum

----------------------------------------------------------------------------
(* Two neighbouring variables.                                             *)

ExtendedTo(k, size) ==
    LET fresh(n) == [UnusedEntry EXCEPT !.next = IF n = size - 1 THEN k.freepos ELSE n + 1]
    IN  [k EXCEPT !.node = [n \in 0..(size - 1) |-> IF n < k.size THEN k.node[n] ELSE fresh(n)],
                  !.size = size, !.freepos = k.size, !.freenum = @ + size - k.size,
                  !.resized = TRUE]

\* bdd_noderesize(0): the old chains stay as they are.
Extended(k) ==
    IF k.maxnodes > 0 /\ k.size >= k.maxnodes THEN k ELSE ExtendedTo(k, GrownSize(k))

\* The node in its bucket, 0 when it is not there: the variable is not compared.
FoundAt(k, b, low, high) ==
    FoldLeft(LAMBDA found, n : IF found = 0 /\ LOW(k, n) = low /\ HIGH(k, n) = high THEN n ELSE found,
             0, Chain(k, k.node[b].hash))

\* Take the first free entry, referenced once, in the bucket b.
TakeFirst(w, b, var, low, high) ==
    LET n == w.k.freepos
        entry == [w.k.node[n] EXCEPT !.level = var, !.low = low, !.high = high,
                                     !.next = w.k.node[b].hash, !.refcou = 1]
        taken == [w EXCEPT !.levels[var].nodenum = @ + 1,
                           !.k.freepos = w.k.node[n].next, !.k.freenum = @ - 1,
                           !.k.produced = @ + 1, !.k.node[n] = entry, !.k.node[b].hash = n]
    IN  [w |-> [taken EXCEPT !.k = bdd_addref(bdd_addref(@, low), high)], n |-> n]

\* A node that is there already is referenced once more.
Shared(w, n) == [w |-> [w EXCEPT !.k = bdd_addref(@, n)], n |-> n]

GrownIfFull(w) == IF w.k.freepos # 0 THEN w ELSE [w EXCEPT !.k = Extended(@), !.resized = TRUE]

TakeIfAny(w, b, var, low, high) ==
    IF w.k.freepos = 0 THEN [w |-> [w EXCEPT !.error = "BDD_NODENUM"], n |-> 0]
    ELSE TakeFirst(w, b, var, low, high)

SharedOrNew(w, b, var, low, high, found) ==
    IF found # 0 THEN Shared(w, found) ELSE TakeIfAny(GrownIfFull(w), b, var, low, high)

reorder_makenode(w, var, low, high) ==
    LET place == w.levels[var]
        b == place.start + (PAIR(low, high) % place.size)
    IN  IF low = high THEN Shared(w, low)
        ELSE SharedOrNew(w, b, var, low, high, FoundAt(w.k, b, low, high))

\* All nodes in the buckets of a variable, in the order of the scan.
NodesOf(w, var) ==
    LET place == w.levels[var]
    IN  FlattenSeq([i \in 1..place.size |-> Chain(w.k, w.k.node[place.start + i - 1].hash)])

\* The buckets of a variable are emptied and the nodes given entered.
Refilled(w, var, nodes) ==
    LET place == w.levels[var]
        buckets == place.start..(place.start + place.size - 1)
        empty == [w EXCEPT !.k.node = [n \in DOMAIN @ |-> IF n \in buckets THEN [@[n] EXCEPT !.hash = 0]
                                                          ELSE @[n]]]
    IN  [FoldLeft(Enter, empty, nodes) EXCEPT !.levels[var].nodenum = Len(nodes)]

\* Fault: only one child is looked at.
DependsOn_low(k, n, var) == LOW(k, n) \notin Terminals /\ LEVEL(k, LOW(k, n)) = var

DependsOn(k, n, var) == \E child \in {LOW(k, n), HIGH(k, n)} \ Terminals : LEVEL(k, child) = var

Divided(w, var0, nodes, leaves(_)) ==
    [w |-> Refilled(w, var0, SelectSeq(nodes, LAMBDA n : ~leaves(n))), left |-> SelectSeq(nodes, leaves)]

\* reorder_downSimple: the nodes of var0 that do not depend on var1 stay; the
\* others (left) are to be processed.
reorder_downSimple(w, var0, var1) ==
    LET depends(n) == DependsOn(w.k, n, var1)
    IN  Divided(w, var0, NodesOf(w, var0), depends)

\* The second of the two new nodes, with the first one.
WithLow(made, var0, low, high) == reorder_makenode(made.w, var0, low, high) @@ [low |-> made.n]

\* The node has its new children, and lets go of those it had.
Turned(made, n, var1, f0, f1) ==
    IF made.w.error # "" THEN made.w
    ELSE Enter([made.w EXCEPT !.k = [bdd_delref(bdd_delref(@, f0), f1) EXCEPT
                                        !.node[n].level = var1, !.node[n].low = made.low,
                                        !.node[n].high = made.n],
                              !.levels[var1].nodenum = @ + 1], n)

\* A node of var0 becomes, in place, one of var1 above two of var0.
Exchanged(w, n, var0, var1) ==
    LET cofactor(f, field) ==
            IF f \notin Terminals /\ LEVEL(w.k, f) = var1 THEN w.k.node[f][field] ELSE f
        f0 == LOW(w.k, n)
        f1 == HIGH(w.k, n)
        low == reorder_makenode(w, var0, cofactor(f0, "low"), cofactor(f1, "low"))
    IN  Turned(WithLow(low, var0, cofactor(f0, "high"), cofactor(f1, "high")), n, var1, f0, f1)

\* The last one found first.
reorder_swap(down, var0, var1) ==
    FoldLeft(LAMBDA v, n : IF v.error # "" THEN v ELSE Exchanged(v, n, var0, var1),
             down.w, Reverse(down.left))

\* A dead node lets go of its children, which live on.
Buried(v, n) ==
    Vacate([v EXCEPT !.k = bdd_delref(bdd_delref(@, LOW(v.k, n)), HIGH(v.k, n)),
                     !.k.freenum = @ + 1, !.k.node[n].low = -1], n)

reorder_localGbc(w, var1) ==
    LET isDead(n) == w.k.node[n].refcou = 0
        bury(parted) == FoldLeft(Buried, parted.w, parted.left)
    IN  bury(Divided(w, var1, NodesOf(w, var1), isDead))

\* Fault: the tables of pairs keep the old order.
bdd_pairs_vardown_not(pair, level) == pair

\* bdd_pairs_vardown.
bdd_pairs_vardown(pair, level) ==
    LET swapped(q) ==
          [q EXCEPT !.result = [@ EXCEPT ![level] = q.result[level + 1], ![level + 1] = q.result[level]],
                    !.last = IF @ = level THEN level + 1 ELSE @]
    IN  [u \in DOMAIN pair |-> IF pair[u] = NoPair THEN NoPair ELSE swapped(pair[u])]

Renamed(w, level) ==
    [w EXCEPT !.k.level2var[level] = w.k.level2var[level + 1],
              !.k.level2var[level + 1] = w.k.level2var[level],
              !.pair = bdd_pairs_vardown(@, level)]

RehashedIfGrown(w) ==
    IF w.resized THEN [reorder_rehashAll(w) EXCEPT !.resized = FALSE] ELSE w

Swapped(w, level) == IF w.error # "" THEN w ELSE RehashedIfGrown(Renamed(w, level))

\* The nodes of a variable that depend on the one below are turned over, and those
\* of the one below that nothing refers to any more are freed.
TurnedOver(w, var, below) ==
    IF <<var, below>> \notin w.iactmtx THEN w
    ELSE reorder_localGbc(reorder_swap(reorder_downSimple(w, var, below), var, below), below)

\* Exchange a variable with the one below it.
reorder_vardown(w, var) ==
    LET level == bddvar2level(w.k, var)
    IN  IF level >= w.k.varnum - 1 \/ w.error # "" THEN w
        ELSE Swapped(TurnedOver(w, var, w.k.level2var[level + 1]), level)

reorder_varup(w, var) ==
    LET level == bddvar2level(w.k, var)
    IN  IF level = 0 THEN w ELSE reorder_vardown(w, w.k.level2var[level - 1])

----------------------------------------------------------------------------
(* bdd_swapvar and bdd_setvarorder, which refuse a package with blocks.    *)

RECURSIVE DownTo(_, _, _)
DownTo(w, var, level) ==
    IF bddvar2level(w.k, var) >= level \/ w.error # "" THEN w
    ELSE DownTo(reorder_vardown(w, var), var, level)

RECURSIVE UpTo(_, _, _)
UpTo(w, var, level) ==
    IF bddvar2level(w.k, var) <= level \/ w.error # "" THEN w
    ELSE UpTo(reorder_varup(w, var), var, level)

bdd_swapvar(y, v1, v2) ==
    LET l1 == bddvar2level(y.s.k, v1)
        l2 == bddvar2level(y.s.k, v2)
        between(u, v, top, bottom) ==
            reorder_done(y, UpTo(DownTo(reorder_init(y), u, bottom), v, top))
    IN  IF y.vartree # <<>> THEN [y EXCEPT !.s.error = "BDD_VARBLK"]
        ELSE IF v1 = v2 THEN y
        ELSE IF ~ {v1, v2} \subseteq 0..(y.s.k.varnum - 1) THEN [y EXCEPT !.s.error = "BDD_VAR"]
        ELSE IF l1 < l2 THEN between(v1, v2, l1, l2) ELSE between(v2, v1, l2, l1)

bdd_setvarorder(y, neworder) ==
    LET place(w, i) == UpTo(w, neworder[i], i - 1)
    IN  IF y.vartree # <<>> THEN [y EXCEPT !.s.error = "BDD_VARBLK"]
        ELSE reorder_done(y, FoldLeft(place, reorder_init(y), [i \in DOMAIN neworder |-> i]))
=============================================================================
