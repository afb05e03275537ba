--------------------------- MODULE ReorderSession ---------------------------
(***************************************************************************)
(* Variable reordering under a client that keeps some functions, combines  *)
(* them, drops them, puts the variables into blocks and has them           *)
(* reordered, by its own calls or in the middle of an operation that finds *)
(* the node table full.                                                    *)
(***************************************************************************)
EXTENDS Heuristics

CONSTANTS
    CacheSize,     \* initial size of the operator cache
    Menus,         \* what a client does, records of the order of the variables
                   \* (order), the initial size of the table (nodes), its functions (functions), its blocks as triples of
                   \* the first and the last variable and fixed (blocks), the
                   \* methods it uses (methods), the other operations (calls), how
                   \* many calls it makes (bound), and whether it reorders only
                   \* when the interaction matrix will be complete (careful)
    Draws,         \* sequences of results of rand()
    Orders         \* orders given to bdd_setvarorder

VARIABLES
    y,             \* the package, with the tables of pairs and of blocks
    menu,          \* what this client does
    held,          \* the nodes it references, the latest result last; 0 for none
    meant,         \* the function that each of them should stand for
    composed,      \* the function that its table of pairs has for each variable
    blocks,        \* the blocks it has added, as in the menu
    calls,         \* calls so far
    status         \* "running", or the code given to bdd_error

vars == <<y, menu, held, meant, composed, blocks, calls, status>>

Init ==
    \E chosen \in Menus :
    LET c == bdd_setvarnum(bdd_init(chosen.nodes, chosen.order), ProverInit("NONE", 1, <<>>), VarCount)
        s == [k |-> c.k, p |-> c.p, cache |-> BddCache_init(CacheSize), stack |-> <<>>, error |-> ""]
        f == AllMade(s, chosen.functions, LAMBDA t, m : Diagram(t, m, 0))
        z == [s |-> f.s, pair |-> [u \in {1} |-> NoPair], pairs |-> <<>>, pairsid |-> 0]
    IN  /\ y = bdd_reorder_init(IF "replace" \in chosen.calls THEN bdd_newpair(z, 1) ELSE z)
        /\ menu = chosen
        /\ held = Append(f.roots, 0)
        /\ meant = Append(chosen.functions, {})
        /\ composed = [v \in 0..(VarCount - 1) |-> {a \in M!Assignments : v \in a}]
        /\ blocks = <<>>
        /\ calls = 0
        /\ status = "running"

Mean(n) == Models(y.s.k, n)

\* Whether the matrix will have every two variables that meet below a root.
Complete(w) ==
    \A r \in w.extroots : \A m, n \in Reachable(w.k, {r}) :
        <<LEVEL(w.k, m), LEVEL(w.k, n)>> \in w.iactmtx

\* Only the random method draws.
DrawsFor(method) == IF method = BDD_REORDER_RANDOM THEN Draws ELSE {<<>>}

Careful == menu.careful => Complete(reorder_init(y))

Calling(name) ==
    /\ status = "running" /\ name \in menu.calls /\ calls < menu.bound
    /\ calls' = calls + 1
    /\ UNCHANGED menu

\* The call leaves the client with z and the same functions.
Becomes(z) ==
    \E done \in {z} :
        /\ y' = done
        /\ status' = IF done.s.error = "" THEN "running" ELSE done.s.error
        /\ UNCHANGED <<held, meant, composed>>

----------------------------------------------------------------------------
(* Operations on the functions.                                            *)

Keeps(r, want) ==
    LET kept == bdd_addref(r.y.s.k, r.root)
    IN  /\ y' = [r.y EXCEPT !.s.k = bdd_delref(kept, Last(held))]
        /\ held' = [held EXCEPT ![Len(held)] = r.root]
        /\ meant' = [meant EXCEPT ![Len(held)] = want]
        /\ status' = IF r.y.s.error = "" THEN "running" ELSE r.y.s.error
        /\ UNCHANGED blocks

Operands == DOMAIN held

Meant(name, f, g, h) ==
    CASE name = "xor" -> (meant[f] \cup meant[g]) \ (meant[f] \cap meant[g])
      [] name = "and" -> meant[f] \cap meant[g]
      [] name = "ite" -> M!ITE(meant[f], meant[g], meant[h])

\* An operation, which may reorder the variables on the way.
ComputeWith(apply(_, _, _, _), ite(_, _, _, _)) ==
    \E name \in {"xor", "and", "ite"}, f, g, h \in Operands :
        LET operation(s) ==
                CASE name = "xor" -> apply(s, held[f], held[g], bddop_xor)
                  [] name = "and" -> apply(s, held[f], held[g], bddop_and)
                  [] name = "ite" -> ite(s, held[f], held[g], held[h])
        IN  /\ Calling(name)
            /\ name # "ite" => h = f
            /\ bdd_reorder_ready(y) => Careful
            /\ \E draws \in DrawsFor(y.reordermethod) :
                  \E r \in {Retried(y, operation, draws)} : Keeps(r, Meant(name, f, g, h))
            /\ UNCHANGED composed

\* One more function put into the table of pairs, and the table applied.
ReplaceWith(setbddpair(_, _, _, _), veccompose(_, _, _)) ==
    \E f, g \in Operands, v \in 0..(VarCount - 1) :
        /\ Calling("replace")
        /\ held[g] \notin Terminals
        /\ composed' = [composed EXCEPT ![v] = meant[g]]
        /\ \E z \in {setbddpair(y, 1, v, held[g])} :
              \E r \in {veccompose(INITREF(z.s), held[f], z.pair[1])} :
                  Keeps([y |-> [z EXCEPT !.s = r.s], root |-> r.root],
                        M!Substitution(meant[f], composed'))

Release(f) ==
    /\ Calling("release")
    /\ held[f] # 0
    /\ y' = [y EXCEPT !.s.k = bdd_delref(@, held[f])]
    /\ held' = [held EXCEPT ![f] = 0]
    /\ meant' = [meant EXCEPT ![f] = {}]
    /\ UNCHANGED <<composed, blocks, status>>

----------------------------------------------------------------------------
(* The order of the variables.                                             *)

SwapvarWith(swapvar(_, _, _)) ==
    /\ Calling("swapvar") /\ Careful
    /\ \E v1, v2 \in 0..VarCount : Becomes(swapvar(y, v1, v2))
    /\ UNCHANGED blocks

SetvarorderWith(setvarorder(_, _)) ==
    /\ Calling("setvarorder") /\ Careful
    /\ \E order \in Orders : Becomes(setvarorder(y, order))
    /\ UNCHANGED blocks

ReorderWith(reorder(_, _, _)) ==
    /\ Calling("reorder") /\ Careful
    /\ \E method \in menu.methods : \E draws \in DrawsFor(method) :
          Becomes(reorder(y, method, draws))
    /\ UNCHANGED blocks

Autoreorder(method, num) ==
    /\ Calling("autoreorder")
    /\ Becomes(IF num < 0 THEN bdd_autoreorder(y, method) ELSE bdd_autoreorder_times(y, method, num))
    /\ UNCHANGED blocks

\* Blocks do not cut each other, and the client adds them while the variables are in
\* the order of their numbers: see the README for what happens when it does not.
Placeable(b) ==
    /\ \A level \in 0..(VarCount - 1) : y.s.k.level2var[level] = level
    /\ \A i \in DOMAIN blocks :
          LET c == blocks[i]
          IN  \/ b.last < c.first \/ c.last < b.first
              \/ (b.first <= c.first /\ c.last <= b.last /\ b # c)
              \/ (c.first <= b.first /\ b.last <= c.last /\ b # c)

\* Given as a set of variables, or by the first one and the last.
Addvarblock(b, asSet) ==
    LET cube == BDD_makeset(INITREF(y.s), [i \in 1..(b.last - b.first + 1) |-> b.first + i - 1])
        z == IF asSet THEN bdd_addvarblock([y EXCEPT !.s = cube.s], cube.root, b.fixed)
             ELSE bdd_intaddvarblock(y, b.first, b.last, b.fixed)
    IN  /\ Calling("block") /\ Placeable(b)
        /\ Becomes(z)
        /\ blocks' = Append(blocks, b)

Varblockall ==
    /\ Calling("block") /\ blocks = <<>>
    /\ \A level \in 0..(VarCount - 1) : y.s.k.level2var[level] = level
    /\ Becomes(bdd_varblockall(y))
    /\ blocks' = [i \in 1..VarCount |-> [first |-> i - 1, last |-> i - 1, fixed |-> BDD_REORDER_FIXED]]

Clrvarblocks ==
    /\ Calling("clear")
    /\ Becomes(bdd_clrvarblocks(y))
    /\ blocks' = <<>>

----------------------------------------------------------------------------
(* The actions, each with the function that the client calls.              *)

Compute     == ComputeWith(bdd_apply, bdd_ite)
Replace     == ReplaceWith(bdd_setbddpair, bdd_veccompose)
Swapvar     == SwapvarWith(bdd_swapvar)
Setvarorder == SetvarorderWith(bdd_setvarorder)
Reorder     == ReorderWith(bdd_reorder)

Next ==
    \/ Compute
    \/ Replace
    \/ \E f \in Operands : Release(f)
    \/ Swapvar
    \/ Setvarorder
    \/ Reorder
    \/ \E method \in menu.methods, num \in {-1, 1} : Autoreorder(method, num)
    \/ \E b \in menu.blocks, asSet \in BOOLEAN : Addvarblock(b, asSet)
    \/ Varblockall
    \/ Clrvarblocks

Spec == Init /\ [][Next]_vars

----------------------------------------------------------------------------
(* Properties.                                                             *)

\* A node keeps its function whatever is done to the order, an operation that is
\* given up for a reordering and tried again included (reorder_swap works in place,
\* mark_roots keeps what the client references).
MeaningsKept ==
    status = "running" => \A f \in DOMAIN held : Mean(held[f]) = meant[f]

\* Levels grow along the edges (sanitycheck of reorder.c asserts it).
Ordered ==
    status = "running" => \A n \in InUse(y.s.k) :
        LEVEL(y.s.k, n) < Min({LEVEL(y.s.k, LOW(y.s.k, n)), LEVEL(y.s.k, HIGH(y.s.k, n))})

\* After every call the table is one that bdd_makenode can work with: levels grow
\* along the edges, no two nodes are equal, each is found in its bucket and the rest
\* of the entries are free (reorder_swap, reorder_localGbc, reorder_done).
TableSound ==
    LET k == y.s.k
        triple(n) == <<LEVEL(k, n), LOW(k, n), HIGH(k, n)>>
    IN  status = "running" =>
          /\ Ordered
          /\ \A n \in InUse(k) :
                /\ LOW(k, n) # HIGH(k, n)
                /\ Lookup(k, LEVEL(k, n), LOW(k, n), HIGH(k, n)) = n
          /\ Cardinality({triple(n) : n \in InUse(k)}) = Cardinality(InUse(k))
          /\ Range(Chain(k, k.freepos)) \ {0} = (DOMAIN k.node) \ (InUse(k) \cup Terminals)
          /\ Len(Chain(k, k.freepos)) = k.freenum

\* All blocks of a list and below.
RECURSIVE BlocksOf(_)
BlocksOf(list) ==
    UNION {{list[i]} \cup BlocksOf(list[i].sub) : i \in DOMAIN list}

Level(v) == bddvar2level(y.s.k, v)

InOrder(list) ==
    \A i \in 1..(Len(list) - 1) :
        \A u \in Range(list[i].seq), v \in Range(list[i + 1].seq) : Level(u) < Level(v)

\* The tree has the blocks that were added; the variables of a block stay together,
\* the lists follow the order of the variables, and the blocks inside a fixed one
\* keep their order (blockdown and the methods, bddtree_addrange, reorder_block).
BlocksKept ==
    LET all == BlocksOf(y.vartree)
    IN  status = "running" =>
          /\ {[first |-> b.first, last |-> b.last, fixed |-> b.fixed] : b \in all} = Range(blocks)
          /\ InOrder(y.vartree)
          /\ \A b \in all :
                /\ InOrder(b.sub)
                /\ \A u, v \in b.first..b.last : Level(u) - Level(v) <= b.last - b.first
                /\ \A i \in 1..Len(b.seq) : Level(b.seq[i]) = Level(b.seq[1]) + i - 1
                /\ b.fixed = BDD_REORDER_FIXED =>
                      \A i, j \in DOMAIN b.sub : i < j => b.sub[i].first < b.sub[j].first

\* No method but the random one leaves more nodes in use than there were
\* (the best place found is the one returned to).
NeverLarger ==
    BDD_REORDER_RANDOM \notin menu.methods => y.usednum.after <= y.usednum.before
=============================================================================
