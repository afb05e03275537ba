----------------------------- MODULE NodeTable -----------------------------
(***************************************************************************)
(* The unique table of BDD nodes (kernel.c): hash chains, the free list,   *)
(* garbage collection, growth, and the defining clauses each node carries. *)
(*                                                                         *)
(* The table is a record k; each function of kernel.c is an operator from  *)
(* the record before the call, with the proof generator's record p where   *)
(* the function generates or deletes clauses, to the values after it.      *)
(*                                                                         *)
(* Entry n of k.node is a node, or unused (low = -1) and on the free list; *)
(* its field hash is the head of bucket n, whatever entry n itself holds.  *)
(***************************************************************************)
EXTENDS Prover, FiniteSets, FiniteSetsExt

CONSTANTS
    MAXREF,             \* where reference counts stick (0x3FF)
    MaxNodeIncrease     \* bddmaxnodeincrease

ASSUME NodeTableAssumption ==
    /\ MAXREF \in Nat \ {0} /\ MaxNodeIncrease \in Nat

MAXVAR == 2097151
minfreenodes == 20

----------------------------------------------------------------------------
(* Hashing (kernel.h) and table sizes (prime.c).                           *)

\* The tables checked are small enough for 32-bit arithmetic not to wrap.
PAIR(a, b) == ((a + b) * (a + b + 1)) \div 2 + a
TRIPLE(a, b, c) == PAIR(c, PAIR(a, b))
NODEHASH(size, level, low, high) == TRIPLE(level, low, high) % size

IsPrime(n) == \A d \in 2..(n - 1) : n % d # 0

\* Both search the odd numbers only.
bdd_prime_gte(n) == CHOOSE m \in n..(2 * n + 3) :
    /\ m % 2 = 1 /\ IsPrime(m)
    /\ \A l \in n..(m - 1) : ~(l % 2 = 1 /\ IsPrime(l))
bdd_prime_lte(n) == CHOOSE m \in 3..n :
    /\ m % 2 = 1 /\ IsPrime(m)
    /\ \A l \in (m + 1)..n : ~(l % 2 = 1 /\ IsPrime(l))

----------------------------------------------------------------------------
(* Reading the table.                                                      *)

LEVEL(k, n) == k.node[n].level
LOW(k, n)   == k.node[n].low
HIGH(k, n)  == k.node[n].high

Terminals == {0, 1}
InUse(k) == {n \in DOMAIN k.node : n \notin Terminals /\ LOW(k, n) # -1}

XVAR(k, n) ==
    CASE n = 0 -> -TAUTOLOGY [] n = 1 -> TAUTOLOGY [] OTHER -> k.node[n].xvar

DclauseTypes == <<"HU", "LU", "HD", "LD">>

\* bdd_dclause: the identifier of a defining clause, TAUTOLOGY for one that a
\* terminal child makes trivial.
bdd_dclause(k, n, dtype) ==
    LET trivial == CASE dtype = "HU" -> HIGH(k, n) = 0 [] dtype = "LU" -> LOW(k, n) = 0
                     [] dtype = "HD" -> HIGH(k, n) = 1 [] dtype = "LD" -> LOW(k, n) = 1
        place == CHOOSE i \in 1..4 : DclauseTypes[i] = dtype
    IN  IF n \in Terminals \/ trivial THEN TAUTOLOGY
        ELSE k.node[n].dclause + place - 1

DefiningIds(k, n) ==
    CleanHints([i \in 1..4 |-> bdd_dclause(k, n, DclauseTypes[i])])

\* The entries met on the way from one along the next fields, in order.
Chain(k, first) ==
    LET from[w \in (0..k.size) \X DOMAIN k.node] ==
          LET fuel == w[1] n == w[2]
          IN  IF fuel = 0 \/ n = 0 THEN <<>>
              ELSE <<n>> \o from[<<fuel - 1, k.node[n].next>>]
    IN  from[<<k.size, first>>]

\* The children, the children's children ...: bdd_mark visits them all.
Reachable(k, roots) ==
    LET grow[i \in 0..k.varnum] ==
          IF i = 0 THEN roots \ Terminals
          ELSE LET below == grow[i - 1]
               IN  (below \cup {LOW(k, n) : n \in below} \cup {HIGH(k, n) : n \in below})
                     \ Terminals
    IN  grow[k.varnum]

----------------------------------------------------------------------------
(* Garbage collection and growth.                                          *)

UnusedEntry ==
    [level |-> 0, low |-> -1, high |-> 0, hash |-> 0, next |-> 0, refcou |-> 0,
     xvar |-> 0, dclause |-> 0]

\* Put node n in front of the chain of its bucket, or entry n in front of the
\* free list.
Link(k, n) ==
    LET b == NODEHASH(k.size, LEVEL(k, n), LOW(k, n), HIGH(k, n))
    IN  [k EXCEPT !.node[n].next = k.node[b].hash, !.node[b].hash = n]
\* Fault: the free entries are not counted.
Unlink_uncounted(k, n) == [k EXCEPT !.node[n].next = k.freepos, !.freepos = n]

Unlink(k, n) ==
    [k EXCEPT !.node[n].next = k.freepos, !.freepos = n, !.freenum = @ + 1]

\* The function itself; comparing it makes TLC tabulate it, once and for all.
Evaluated(f) == CHOOSE g \in {f} : g = f

\* The sweep of bdd_gbc and of bdd_gbc_rehash, from the last entry down: the nodes
\* that stay are hashed anew, the other entries freed.
Rebuild(k, size, stay) ==
    LET entry(n) == IF n \in stay \cup Terminals THEN [k.node[n] EXCEPT !.hash = 0]
                    ELSE UnusedEntry
        start == [k EXCEPT !.node = Evaluated([n \in 0..(size - 1) |-> entry(n)]),
                           !.size = size, !.freepos = 0, !.freenum = 0]
        swept[n \in 2..size] ==
            IF n = size THEN start
            ELSE LET above == swept[n + 1]
                 IN  IF n \in stay THEN Link(above, n) ELSE Unlink(above, n)
    IN  swept[2]

Referenced(k) == {n \in InUse(k) : k.node[n].refcou > 0}

\* Fault: the operation in progress is not marked.
Collected_unmarked(k, stack) == InUse(k) \ Reachable(k, Referenced(k))

Collected(k, stack) == InUse(k) \ Reachable(k, Range(stack) \cup Referenced(k))

\* Fault: the defining clauses of the nodes that go stay in the file.
bdd_gbc_silent(k, p, stack) ==
    [k |-> Rebuild(k, k.size, InUse(k) \ Collected(k, stack)), p |-> p]

\* The defining clauses of these nodes are deleted, from the last entry down.
DeleteNodes(k, p, nodes) ==
    LET deleted[n \in 2..k.size] ==
          IF n = k.size THEN p
          ELSE LET above == deleted[n + 1]
               IN  IF n \in nodes THEN DeleteClauses(above, DefiningIds(k, n)) ELSE above
    IN  IF p.type = "NONE" THEN p ELSE deleted[2]

\* bdd_gbc, apart from resetting the operator caches: the defining clauses of
\* the nodes that go are deleted at once.
bdd_gbc(k, p, stack) ==
    LET dead == Collected(k, stack)
    IN  [k |-> Rebuild(k, k.size, InUse(k) \ dead), p |-> DeleteNodes(k, p, dead)]

GrownSize(k) ==
    LET grown == Min({2 * k.size, k.size + MaxNodeIncrease})
    IN  bdd_prime_lte(IF k.maxnodes > 0 THEN Min({grown, k.maxnodes}) ELSE grown)

\* bdd_noderesize(1).  The new entries are linked and then everything is rehashed.
bdd_noderesize(k) ==
    IF k.maxnodes > 0 /\ k.size >= k.maxnodes THEN k
    ELSE [Rebuild(k, GrownSize(k), InUse(k)) EXCEPT !.resized = TRUE]

----------------------------------------------------------------------------
(* bdd_makenode.                                                           *)

Matches(k, n, level, low, high) ==
    LEVEL(k, n) = level /\ LOW(k, n) = low /\ HIGH(k, n) = high

\* Fault: only the head of the chain is compared.
Lookup_head(k, level, low, high) ==
    LET n == k.node[NODEHASH(k.size, level, low, high)].hash
    IN  IF n # 0 /\ Matches(k, n, level, low, high) THEN n ELSE 0

\* The first node of its bucket's chain that is like this, 0 when there is none.
Lookup(k, level, low, high) ==
    LET chain == Chain(k, k.node[NODEHASH(k.size, level, low, high)].hash)
        place == SelectInSeq(chain, LAMBDA n : Matches(k, n, level, low, high))
    IN  IF place = 0 THEN 0 ELSE chain[place]

\* A defining clause as a hint of another, in case it is not trivial.
AsHint(id) == IF id = TAUTOLOGY THEN TAUTOLOGY ELSE -id

\* The downward clauses name the upward ones.
DefineDown(p, clause(_), hints) ==
    GenerateClause(GenerateClause(p, clause("HD"), hints), clause("LD"), hints)

\* What follows the HU clause, whose identifier is huid.
DefineAfterHU(p, clause(_), huid) ==
    DefineDown(GenerateClause(p, clause("LU"), <<>>), clause,
               <<AsHint(huid), AsHint(GeneratedId(p, clause("LU")))>>)

\* The four clauses, in order.
DefineClauses(p, clause(_)) ==
    DefineAfterHU(GenerateClause(p, clause("HU"), <<>>), clause,
                  GeneratedId(p, clause("HU")))

\* The extension variable and the clauses of a new node.
DefineNode(k, p, level, low, high) ==
    LET nid == p.variable + 1
        clause(dtype) ==
            DefiningClause(dtype, nid, k.level2var[level], XVAR(k, high), XVAR(k, low))
    IN  IF level = 0 \/ p.type = "NONE" THEN p
        ELSE DefineClauses([p EXCEPT !.variable = nid], clause)

\* Take the first free entry for a new node.
NewNode(k, p, level, low, high) ==
    LET n == k.freepos
        defined == p.type # "NONE" /\ level # 0
        entry == [k.node[n] EXCEPT
                    !.level = level, !.low = low, !.high = high,
                    !.xvar = IF level = 0 THEN 0 ELSE IF defined THEN p.variable + 1 ELSE n,
                    !.dclause = IF defined THEN p.counter + 1 ELSE 0]
    IN  [k |-> Link([k EXCEPT !.node[n] = entry, !.freepos = k.node[n].next,
                              !.freenum = @ - 1, !.produced = @ + 1], n),
         p |-> DefineNode(k, p, level, low, high),
         n |-> n, error |-> ""]

\* What an exhausted table does before it gives up: collect, then grow unless
\* more than minfreenodes percent are free.
GrowWhenScarce(c) ==
    IF (c.k.freenum * 100) \div c.k.size <= minfreenodes
    THEN [c EXCEPT !.k = bdd_noderesize(@)] ELSE c

\* Take an entry, if there is one now.
TakeEntry(c, level, low, high) ==
    IF c.k.freepos = 0 THEN [k |-> c.k, p |-> c.p, n |-> 0, error |-> "BDD_NODENUM"]
    ELSE NewNode(c.k, c.p, level, low, high)

\* Fault: no collection is tried.
MakeNew_hasty(k, p, level, low, high, stack) ==
    TakeEntry(IF k.freepos # 0 THEN [k |-> k, p |-> p]
              ELSE GrowWhenScarce([k |-> k, p |-> p]), level, low, high)

\* When enough of the table is in use after a collection, and variables may be
\* reordered now (ready), the operation in progress is given up by a long jump:
\* error is "reorder".
AfterSweep(c, level, low, high) ==
    IF c.k.ready /\ c.k.size - c.k.freenum >= c.k.nextreorder
    THEN [k |-> c.k, p |-> c.p, n |-> 0, error |-> "reorder"]
    ELSE TakeEntry(GrowWhenScarce(c), level, low, high)

MakeNew(k, p, level, low, high, stack) ==
    IF k.freepos # 0 THEN TakeEntry([k |-> k, p |-> p], level, low, high)
    ELSE AfterSweep(bdd_gbc(k, p, stack), level, low, high)

\* Otherwise error holds the code passed to bdd_error; the default handler exits.
MakeUnlessFound(k, p, level, low, high, stack, found) ==
    LET unchanged(n, error) == [k |-> k, p |-> p, n |-> n, error |-> error]
    IN  IF low = high THEN unchanged(low, "")
        ELSE IF found # 0 THEN unchanged(found, "")
        ELSE IF level >= LEVEL(k, low) \/ level >= LEVEL(k, high)
             THEN unchanged(0, "BDD_ILLBDD")
        ELSE MakeNew(k, p, level, low, high, stack)

bdd_makenode(k, p, level, low, high, stack) ==
    MakeUnlessFound(k, p, level, low, high, stack, Lookup(k, level, low, high))

\* Whether a call that returned k2 collected: it produced a node with no entry free.
Swept(k, k2) == k.freepos = 0 /\ k2.produced # k.produced

----------------------------------------------------------------------------
(* Start, variables, references.                                           *)

\* bdd_init.
bdd_init(initnodesize, level2var) ==
    LET size == bdd_prime_gte(initnodesize)
        terminal == [UnusedEntry EXCEPT !.level = MAXVAR, !.refcou = MAXREF]
        entry(n) == IF n \in Terminals THEN [terminal EXCEPT !.low = n, !.high = n]
                    ELSE [UnusedEntry EXCEPT !.next = IF n = size - 1 THEN 0 ELSE n + 1]
    IN  [node |-> [n \in 0..(size - 1) |-> entry(n)],
         size |-> size, freepos |-> 2, freenum |-> size - 2, produced |-> 0, resized |-> FALSE,
         maxnodes |-> 0, varnum |-> 0, varset |-> <<>>, level2var |-> level2var,
         ready |-> FALSE, nextreorder |-> size]

\* bdd_setmaxnodenum: a limit on the size, 0 for none.
bdd_setmaxnodenum(k, size) ==
    IF size > k.size \/ size = 0 THEN [k EXCEPT !.maxnodes = size] ELSE k

\* The two nodes of one more variable, which are never released.  (The code keeps
\* the first on the stack while it makes the second and then fixes both counts;
\* the first is protected either way.)
AddLiteral(c, level, low, high) ==
    LET add(r) == [k |-> IF r.error # "" THEN r.k
                         ELSE [r.k EXCEPT !.node[r.n].refcou = MAXREF,
                                          !.varset = Append(@, r.n)],
                   p |-> r.p, error |-> r.error]
    IN  IF c.error # "" THEN c ELSE add(bdd_makenode(c.k, c.p, level, low, high, <<>>))

AddVariable(c, level) == AddLiteral(AddLiteral(c, level, 0, 1), level, 1, 0)

\* bdd_setvarnum_ordered: the variables come in the order of their numbers.
bdd_setvarnum(k, p, num) ==
    LET level(v) == CHOOSE l \in 0..(num - 1) : k.level2var[l] = v
        added[v \in k.varnum..num] ==
            IF v = k.varnum THEN [k |-> [k EXCEPT !.varnum = num], p |-> p, error |-> ""]
            ELSE AddVariable(added[v - 1], level(v - 1))
        place(c) == IF c.error # "" THEN c
                    ELSE [c EXCEPT !.k.node[0].level = num, !.k.node[1].level = num]
    IN  place(added[num])

bdd_addref(k, n) ==
    IF n \in Terminals \/ k.node[n].refcou >= MAXREF THEN k
    ELSE [k EXCEPT !.node[n].refcou = @ + 1]

\* A node that has no reference is the end of the program (BDD_BREAK): the callers that
\* could come with one go through Vectors!Freed.
bdd_delref(k, n) ==
    IF n \in Terminals \/ k.node[n].refcou \in {0, MAXREF} THEN k
    ELSE [k EXCEPT !.node[n].refcou = @ - 1]

\* bdd_done: the clauses of the remaining nodes go, except those of level 0,
\* which has none.
DeleteAllNodes(k, p) ==
    DeleteNodes(k, p, {n \in InUse(k) : LEVEL(k, n) > 0})
============================================================================
