----------------------------- MODULE Heuristics -----------------------------
(***************************************************************************)
(* The reordering methods of reorder.c over the tree of blocks, and the    *)
(* client's calls that use them.                                           *)
(*                                                                         *)
(* A method works on one list of neighbouring blocks: the record h has the *)
(* table w of Reorder, the list in its present order, and the identifier   *)
(* of the block that the method takes for the first one (first).           *)
(***************************************************************************)
EXTENDS Reorder

BDD_REORDER_FREE == 0
BDD_REORDER_FIXED == 1

BDD_REORDER_NONE == 0
BDD_REORDER_WIN2 == 1
BDD_REORDER_WIN2ITE == 2
BDD_REORDER_SIFT == 3
BDD_REORDER_SIFTITE == 4
BDD_REORDER_WIN3 == 5
BDD_REORDER_WIN3ITE == 6
BDD_REORDER_RANDOM == 7

Size(h) == reorder_nodenum(h.w)
Position(h, id) == CHOOSE i \in DOMAIN h.list : h.list[i].id = id

----------------------------------------------------------------------------
(* The tree of variable blocks (tree.c).  A list of blocks is a sequence;  *)
(* the null pointer is the empty one.  A block covers the variables first  *)
(* .. last; seq has them in the order of their levels; sub is the list of  *)
(* the blocks inside.                                                      *)

\* bddtree_new and update_seq, for variables at neighbouring levels.
NewBlock(k, first, last, fixed, id) ==
    [first |-> first, last |-> last, fixed |-> fixed, id |-> id, sub |-> <<>>,
     seq |-> SetToSortSeq(first..last, LAMBDA u, v : bddvar2level(k, u) < bddvar2level(k, v))]

\* A block over the first blocks of the list, unless it cuts one of them.
Covering(list, b) ==
    LET inside == CHOOSE n \in DOMAIN list :
                    /\ n = Len(list) \/ b.last < list[n + 1].first
                    /\ \A i \in 1..(n - 1) : b.last >= list[i + 1].first
        cut == \E i \in 1..inside : list[i].first <= b.last /\ b.last < list[i].last
    IN  IF cut THEN <<>>
        ELSE <<[b EXCEPT !.sub = SubSeq(list, 1, inside)]>> \o SubSeq(list, inside + 1, Len(list))

\* bddtree_addrange_rec: the empty list is the failure, and what a call further
\* down the list gives is made the rest of the list, whatever it is.
RECURSIVE bddtree_addrange(_, _)
bddtree_addrange(list, b) ==
    LET t == Head(list)
    IN  IF b.last < b.first THEN <<>>
        ELSE IF list = <<>> THEN <<b>>
        ELSE IF b.first = t.first /\ b.last = t.last THEN list
        ELSE IF b.last < t.first THEN <<b>> \o list
        ELSE IF b.first > t.last THEN <<t>> \o bddtree_addrange(Tail(list), b)
        ELSE IF b.first >= t.first /\ b.last <= t.last
        THEN <<[t EXCEPT !.sub = bddtree_addrange(@, b)]>> \o Tail(list)
        ELSE IF b.first <= t.first THEN Covering(list, b)
        ELSE <<>>

----------------------------------------------------------------------------
(* Two neighbouring blocks change places.                                  *)

\* Each variable of the left block, from the top one on, moves down until it
\* meets the next one of its own block; the last one as far as the right block.
RECURSIVE LeftPastRight(_, _, _)
LeftPastRight(w, lseq, rseq) ==
    LET level(v, x) == bddvar2level(v.k, x)
        above(v, x) == level(v, x) < level(v, Last(rseq))
        step(v, n) == IF /\ n = Len(lseq) \/ level(v, lseq[n]) + 1 # level(v, lseq[n + 1])
                         /\ above(v, lseq[n])
                      THEN reorder_vardown(v, lseq[n]) ELSE v
    IN  IF ~above(w, lseq[1]) \/ w.error # "" THEN w
        ELSE LeftPastRight(FoldLeft(step, w, [n \in DOMAIN lseq |-> n]), lseq, rseq)

RECURSIVE RightUpTo(_, _, _)
RightUpTo(w, rseq, leftstart) ==
    LET level(v, x) == bddvar2level(v.k, x)
        step(v, n) == IF /\ n = 1 \/ level(v, rseq[n]) - 1 # level(v, rseq[n - 1])
                         /\ level(v, rseq[n]) > leftstart
                      THEN reorder_varup(v, rseq[n]) ELSE v
    IN  IF level(w, rseq[1]) <= leftstart \/ w.error # "" THEN w
        ELSE RightUpTo(FoldLeft(step, w, Reverse([n \in DOMAIN rseq |-> n])), rseq, leftstart)

\* blockdown, of the block at a position.
blockdown(h, i) ==
    LET left == h.list[i]
        right == h.list[i + 1]
        leftstart == bddvar2level(h.w.k, left.seq[1])
    IN  [h EXCEPT !.w = RightUpTo(LeftPastRight(@, left.seq, right.seq), right.seq, leftstart),
                  !.list = [@ EXCEPT ![i] = right, ![i + 1] = left]]

----------------------------------------------------------------------------
(* Sliding windows.                                                        *)

\* Fault: the block that comes first now is not noted.
Kept_notFirst(h, d, i) == d

\* The exchange at i stays: the block that was first may not be any more.
Kept(h, d, i) == IF h.first = h.list[i].id THEN [d EXCEPT !.first = d.list[i].id] ELSE d

UndoneOrKept(h, down, i) ==
    IF Size(h) < Size(down) THEN blockdown(down, i) ELSE Kept(h, down, i)

\* Swap two blocks and, when that costs nodes, swap them back.
SwapTwo(h, i) == UndoneOrKept(h, blockdown(h, i), i)

RECURSIVE Win2From(_, _)
Win2From(h, i) == IF i >= Len(h.list) THEN h ELSE Win2From(SwapTwo(h, i), i + 1)

\* Fault: an exchange that costs nodes is not undone.
reorder_win2_eager(h, t) ==
    FoldLeft(LAMBDA d, i : Kept(d, blockdown(d, i), i), h, [i \in 1..(Len(h.list) - 1) |-> i])

reorder_win2(h, t) == Win2From(h, Position(h, t))

\* All six orders of three blocks, one exchange after another.
Window(i) == <<i, i + 1, i, i + 1, i>>

\* The best order so far, and the steps after it.
Look(c, down) ==
    IF c.best > Size(down) THEN [h |-> down, best |-> Size(down), pos |-> 0]
    ELSE [c EXCEPT !.h = down, !.pos = @ + 1]

\* On to the best one, pos steps after it was left; the list and the position to go on
\* from.
ToBestOfThree(seen, i) ==
    LET best == FoldLeft(blockdown, seen.h, SubSeq(Window(i), 1, seen.pos))
    IN  IF seen.pos = 0 THEN [h |-> best, next |-> i]
        ELSE [h |-> IF i = 1 THEN [best EXCEPT !.first = best.list[1].id] ELSE best, next |-> i + 1]

reorder_swapwin3(h, i) ==
    LET look(c, j) == Look(c, blockdown(c.h, j))
    IN  IF i + 1 = Len(h.list) THEN [h |-> SwapTwo(h, i), next |-> i + 1]
        ELSE ToBestOfThree(FoldLeft(look, [h |-> h, best |-> Size(h), pos |-> 0], Window(i)), i)

\* x has the list and a position, room is how many blocks there must be after that.
RECURSIVE Win3Loop(_, _)
Win3Loop(x, room) ==
    IF x.next + room > Len(x.h.list) THEN x.h ELSE Win3Loop(reorder_swapwin3(x.h, x.next), room)

reorder_win3(h, room) == Win3Loop([h |-> h, next |-> Position(h, h.first)], room)

----------------------------------------------------------------------------
(* Sifting.                                                                *)

MaxAllowed(w, best) ==
    LET more == (best \div 5) + best
    IN  IF w.k.maxnodes > 0 THEN Min({more, w.k.maxnodes - MaxNodeIncrease - 2}) ELSE more

SweptTo(c, moved, isUp) ==
    IF Size(moved) < c.best
    THEN [h |-> moved, best |-> Size(moved), bestpos |-> 0, max |-> MaxAllowed(moved.w, Size(moved))]
    ELSE [c EXCEPT !.h = moved, !.bestpos = @ + (IF isUp THEN -1 ELSE 1)]

\* Move a block one way, as far as the list or the size allows; bestpos says where
\* the best place is from here.
RECURSIVE Sweep(_, _, _, _)
Sweep(c, id, isUp, isFirst) ==
    LET i == Position(c.h, id)
    IN  IF (IF isUp THEN i = 1 ELSE i = Len(c.h.list)) \/ (Size(c.h) > c.max /\ ~isFirst)
        THEN c
        ELSE Sweep(SweptTo(c, blockdown(c.h, IF isUp THEN i - 1 ELSE i), isUp), id, isUp, FALSE)

RECURSIVE BackTo(_, _, _)
BackTo(h, id, bestpos) ==
    LET i == Position(h, id)
    IN  IF bestpos < 0 THEN BackTo(blockdown(h, i), id, bestpos + 1)
        ELSE IF bestpos > 0 THEN BackTo(blockdown(h, i - 1), id, bestpos - 1)
        ELSE h

reorder_sift_bestpos(h, id, middlePos) ==
    LET isUp == Position(h, id) - 1 <= middlePos
        start == [h |-> h, best |-> Size(h), bestpos |-> 0, max |-> MaxAllowed(h.w, Size(h))]
        settle(end) == BackTo(end.h, id, end.bestpos)
    IN  settle(Sweep(Sweep(start, id, isUp, TRUE), id, ~isUp, TRUE))

\* The block with most nodes first; qsort leaves blocks with as many in order.
SiftOrder(h) ==
    LET nodes(i) == FoldLeft(+, 0, [j \in DOMAIN h.list[i].seq |->
                                      h.w.levels[h.list[i].seq[j]].nodenum])
        before(i, j) == nodes(i) > nodes(j) \/ (nodes(i) = nodes(j) /\ i < j)
        order == SetToSortSeq(DOMAIN h.list, before)
    IN  [n \in DOMAIN order |-> h.list[order[n]].id]

FromHead(h) == [h EXCEPT !.first = h.list[1].id]

reorder_sift(h) ==
    LET sift(g, id) == reorder_sift_bestpos(g, id, Len(h.list) \div 2)
    IN  FromHead(FoldLeft(sift, h, SiftOrder(h)))

\* draws are the results of rand(), four for each block of the list.
reorder_random(h, draws) ==
    LET num == Len(h.list)
        move(g, draw) ==
            LET i == Position(g, h.list[1 + (draw % num)].id)
            IN  IF i < num THEN blockdown(g, i) ELSE g
    IN  FromHead(FoldLeft(move, h, SubSeq(draws, 1, 4 * num)))

----------------------------------------------------------------------------
(* The iterated methods.                                                   *)

Iterated == {BDD_REORDER_WIN2ITE, BDD_REORDER_WIN3ITE, BDD_REORDER_SIFTITE}

\* One pass.  The iterated window of two starts at the block t that was first at the
\* beginning, wherever it is now, and the iterated one of three needs three blocks.
Pass(h, method, t) ==
    CASE method \in {BDD_REORDER_WIN2, BDD_REORDER_WIN2ITE} -> reorder_win2(h, t)
      [] method \in {BDD_REORDER_WIN3, BDD_REORDER_WIN3ITE} ->
            reorder_win3(h, IF method \in Iterated THEN 2 ELSE 1)
      [] method \in {BDD_REORDER_SIFT, BDD_REORDER_SIFTITE} -> reorder_sift(h)

\* An iterated method goes on as long as the size changes.
RECURSIVE Repeated(_, _, _)
Repeated(h, method, t) ==
    LET next(done) == IF method \notin Iterated \/ Size(done) = Size(h) THEN done
                      ELSE Repeated(done, method, t)
    IN  next(Pass(h, method, t))

----------------------------------------------------------------------------
(* Over the tree.                                                          *)

Heuristic(h, method, draws) ==
    CASE method = BDD_REORDER_NONE -> h
      [] method = BDD_REORDER_RANDOM -> reorder_random(h, draws)
      [] OTHER -> Repeated(h, method, h.first)

\* The list from the block that the method left as the first one.
FromFirst(h) == [w |-> h.w, list |-> SubSeq(h.list, Position(h, h.first), Len(h.list))]

\* The blocks inside change places, unless the block is fixed.
Arranged(w, t, method, draws) ==
    IF t.sub = <<>> \/ t.fixed # BDD_REORDER_FREE THEN [w |-> w, list |-> t.sub]
    ELSE FromFirst(Heuristic([w |-> w, list |-> t.sub, first |-> Head(t.sub).id], method, draws))

Resorted(c, t) ==
    LET above(u, v) == bddvar2level(c.w.k, u) < bddvar2level(c.w.k, v)
    IN  [w |-> c.w, t |-> [t EXCEPT !.sub = c.list, !.seq = SetToSortSeq(Range(@), above)]]

\* Then those inside each of them; then the block has its variables in their order.
RECURSIVE reorder_block(_, _, _, _)
reorder_block(w, t, method, draws) ==
    LET done(c, below) == [w |-> below.w, list |-> Append(c.list, below.t)]
        visit(c, b) == done(c, reorder_block(c.w, b, method, draws))
        within(h) == FoldLeft(visit, [w |-> h.w, list |-> <<>>], h.list)
    IN  Resorted(within(Arranged(w, t, method, draws)), t)

----------------------------------------------------------------------------
(* The client's calls.  The record y of Pairs has, besides, the tree of    *)
(* blocks (vartree, blockid), the method and the number of automatic       *)
(* reorderings (reordermethod, reordertimes), whether they are suspended   *)
(* (reorderdisabled), and the nodes in use at the start and at the end of  *)
(* the latest reordering (usednum).                                        *)

bdd_reorder_init(y) ==
    y @@ [vartree |-> <<>>, blockid |-> 0, reordermethod |-> BDD_REORDER_NONE, reordertimes |-> 0,
          reorderdisabled |-> FALSE, usednum |-> [before |-> 0, after |-> 0]]

Finished(y, before, done) ==
    [reorder_done(y, done.w) EXCEPT
        !.vartree = done.t.sub,
        !.usednum = [before |-> before, after |-> reorder_nodenum(done.w)]]

bdd_reorder(y, method, draws) ==
    LET top == [first |-> 0, last |-> y.s.k.varnum - 1, fixed |-> BDD_REORDER_FREE, id |-> -1,
                seq |-> <<>>, sub |-> y.vartree]
        from(w) == Finished(y, reorder_nodenum(w), reorder_block(w, top, method, draws))
    IN  from(reorder_init(y))

bdd_autoreorder_times(y, method, num) == [y EXCEPT !.reordermethod = method, !.reordertimes = num]
bdd_autoreorder(y, method) == bdd_autoreorder_times(y, method, -1)

bdd_disable_reorder(y) == [y EXCEPT !.reorderdisabled = TRUE]
bdd_enable_reorder(y)  == [y EXCEPT !.reorderdisabled = FALSE]

bdd_reorder_ready(y) ==
    /\ y.reordermethod # BDD_REORDER_NONE /\ y.vartree # <<>>
    /\ y.reordertimes # 0 /\ ~y.reorderdisabled

bdd_reorder_auto(y, draws) ==
    IF ~bdd_reorder_ready(y) THEN y
    ELSE [bdd_reorder(y, y.reordermethod, draws) EXCEPT !.reordertimes = @ - 1]

\* Division in C.
Quotient(a, b) == IF a >= 0 THEN a \div b ELSE -((-a) \div b)

bdd_reorder_gain(y) ==
    IF y.usednum.before = 0 THEN 0
    ELSE Quotient(100 * (y.usednum.before - y.usednum.after), y.usednum.before)

\* When to reorder next: later, if the latest reordering gained little.
NextReorder(y) ==
    LET twice == 2 * (y.s.k.size - y.s.k.freenum)
        gain == bdd_reorder_gain(y)
    IN  IF gain < 20 THEN twice + (twice * (20 - gain)) \div 20 ELSE twice

Rescheduled(y) == [y EXCEPT !.s.k.nextreorder = NextReorder(y)]

bdd_checkreorder(y, draws) == Rescheduled(bdd_reorder_auto(y, draws))

\* The operation is given up by the long jump, and variables are reordered.
Interrupted(y, s, draws) ==
    bdd_disable_reorder(bdd_checkreorder([y EXCEPT !.s = [s EXCEPT !.error = "", !.stack = <<>>]],
                                         draws))

Attempt(y, operation(_)) == operation([INITREF(y.s) EXCEPT !.k.ready = bdd_reorder_ready(y)])

Concluded(y, r) == [y |-> [y EXCEPT !.s = r.s], root |-> r.root]

Again(y, operation(_)) == Concluded(bdd_enable_reorder(y), Attempt(y, operation))

\* Every operator of bddop.c: given up once, for a reordering, it starts again with
\* automatic reordering suspended, and enables it at the end.
Retried(y, operation(_), draws) ==
    LET first == Attempt(y, operation)
    IN  IF first.s.error # "reorder" THEN Concluded(y, first)
        ELSE Again(Interrupted(y, first.s, draws), operation)

----------------------------------------------------------------------------
(* Blocks.                                                                 *)

\* bdd_intaddvarblock; the identifier is used up when the block is there already.
bdd_intaddvarblock(y, first, last, fixed) ==
    LET block == NewBlock(y.s.k, first, last, fixed, y.blockid)
        tree == bddtree_addrange(y.vartree, block)
    IN  IF ~ {first, last} \subseteq 0..(y.s.k.varnum - 1) THEN [y EXCEPT !.s.error = "BDD_VAR"]
        ELSE IF tree = <<>> THEN [y EXCEPT !.s.error = "BDD_VARBLK"]
        ELSE [y EXCEPT !.vartree = tree, !.blockid = @ + 1]

bdd_addvarblock(y, set, fixed) ==
    LET v == Range(bdd_scanset(y.s.k, set))
    IN  IF v = {} THEN [y EXCEPT !.s.error = "BDD_VARBLK"]
        ELSE bdd_intaddvarblock(y, Min(v), Max(v), fixed)

bdd_varblockall(y) ==
    FoldLeft(LAMBDA z, v : bdd_intaddvarblock(z, v, v, BDD_REORDER_FIXED), y,
             [i \in 1..y.s.k.varnum |-> i - 1])

bdd_clrvarblocks(y) == [y EXCEPT !.vartree = <<>>, !.blockid = 0]
=============================================================================
