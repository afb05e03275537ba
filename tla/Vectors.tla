------------------------------ MODULE Vectors ------------------------------
(***************************************************************************)
(* Vectors of BDDs as numbers (bvec.c), the least significant bit first.   *)
(*                                                                         *)
(* The functions of this layer are clients of the operators: a result that *)
(* is needed after the next call is referenced until then, and a vector    *)
(* that is returned has its elements referenced for the caller, while a    *)
(* BDD that is returned has not.  Each function takes the record s of      *)
(* OpCache and returns it with a vector (vec) or a root.                   *)
(***************************************************************************)
EXTENDS Queries

Vector(s, vec) == [s |-> s, vec |-> vec]

Kept(r) == [r EXCEPT !.s.k = bdd_addref(@, r.root)]

\* bdd_delref, which stops the program at a node that has no reference.
Freed(s, n) ==
    IF s.error = "" /\ n \notin Terminals /\ s.k.node[n].refcou = 0
    THEN [s EXCEPT !.error = "BDD_BREAK"]
    ELSE [s EXCEPT !.k = bdd_delref(@, n)]

bvec_delref(s, vec) == FoldLeft(Freed, s, vec)
bvec_addref(s, vec) == [s EXCEPT !.k = FoldLeft(bdd_addref, @, vec)]

Bits(width) == [i \in 1..width |-> i]

\* A loop over a sequence, which ends when the program does.
Loop(step(_, _), start, seq) ==
    FoldLeft(LAMBDA x, i : IF x.s.error # "" THEN x ELSE step(x, i), start, seq)

\* A vector whose elements are computed one after the other.
Built(s, width, bit(_, _)) ==
    LET next(x, i) == LET r == Kept(bit(x.s, i)) IN Vector(r.s, Append(x.vec, r.root))
    IN  Loop(next, Vector(s, <<>>), Bits(width))

----------------------------------------------------------------------------
(* Constants, copies and the functions applied to each element.            *)

bvec_build(bitnum, bit) == [i \in 1..bitnum |-> bit]
bvec_con(bitnum, val)   == [i \in 1..bitnum |-> (val \div 2^(i - 1)) % 2]

bvec_var(k, bitnum, offset, step) ==
    [i \in 1..bitnum |-> ithvar(k, offset + (i - 1) * step)]

bvec_isconst(vec) == Range(vec) \subseteq Terminals
bvec_val(vec) ==
    IF bvec_isconst(vec) THEN FoldLeft(LAMBDA sum, i : sum + vec[i] * 2^(i - 1), 0, Bits(Len(vec)))
    ELSE 0

bvec_copy(s, vec) == Vector(bvec_addref(s, vec), vec)

bvec_coerce(s, bitnum, vec) ==
    LET res == [i \in 1..bitnum |-> IF i <= Len(vec) THEN vec[i] ELSE 0]
    IN  Vector(bvec_addref(s, res), res)

bvec_map1(s, a, fun(_, _)) == Built(s, Len(a), LAMBDA t, i : fun(t, a[i]))
bvec_map2(s, a, b, fun(_, _, _)) == Built(s, Len(a), LAMBDA t, i : fun(t, a[i], b[i]))
bvec_ite(s, a, b, c) == Built(s, Len(b), LAMBDA t, i : bdd_ite(t, a, b[i], c[i]))

bvec_shlfixed(s, e, pos, c) ==
    LET res == [i \in 1..Len(e) |-> IF i <= pos THEN c ELSE e[i - pos]]
    IN  Vector(bvec_addref(s, res), res)

bvec_shrfixed(s, e, pos, c) ==
    LET res == [i \in 1..Len(e) |-> IF i + pos > Len(e) THEN c ELSE e[i + pos]]
    IN  Vector(bvec_addref(s, res), res)

----------------------------------------------------------------------------
(* Comparisons, from the least significant bit.                            *)

\* One bit more: the right one is greater, or they agree and p decides.
LessBit(x, l, r) ==
    LET less == Kept(bdd_apply(x.s, l, r, bddop_less))
        same == Kept(bdd_apply(less.s, l, r, bddop_biimp))
        both == Kept(bdd_apply(same.s, same.root, x.root, bddop_and))
        p    == Kept(bdd_apply(both.s, less.root, both.root, bddop_or))
    IN  Plainly(bvec_delref(p.s, <<less.root, same.root, both.root, x.root>>), p.root)

EqualBit(x, l, r) ==
    LET same == Kept(bdd_apply(x.s, l, r, bddop_biimp))
        p    == Kept(bdd_apply(same.s, same.root, x.root, bddop_and))
    IN  Plainly(bvec_delref(p.s, <<same.root, x.root>>), p.root)

Compared(s, l, r, bit(_, _, _), start) ==
    LET step(x, i) == bit(x, l[i], r[i])
        p == Loop(step, Plainly(s, start), Bits(Len(l)))
    IN  IF <<>> \in {l, r} THEN Plainly(s, 0) ELSE Plainly(Freed(p.s, p.root), p.root)

bvec_lth(s, l, r) == Compared(s, l, r, LessBit, 0)
bvec_lte(s, l, r) == Compared(s, l, r, LessBit, 1)
bvec_equ(s, l, r) == Compared(s, l, r, EqualBit, 1)

\* The opposite of a test whose result is not referenced yet.
Opposite(test) ==
    LET tmp == Kept(test)
        p == bdd_not(tmp.s, tmp.root)
    IN  Plainly(Freed(p.s, tmp.root), p.root)

bvec_gth(s, l, r) == Opposite(bvec_lte(s, l, r))
bvec_gte(s, l, r) == Opposite(bvec_lth(s, l, r))
bvec_neq(s, l, r) == Opposite(bvec_equ(s, l, r))

----------------------------------------------------------------------------
(* Sums and differences: x has the bits so far and the carry.              *)

SumBit(x, l, r) ==
    LET one == Kept(bdd_apply(x.s, l, r, bddop_xor))
        bit == Kept(bdd_apply(one.s, one.root, x.carry, bddop_xor))
    IN  Plainly(Freed(bit.s, one.root), bit.root)

AddCarry(s, c, l, r) ==
    LET some == Kept(bdd_apply(s, l, r, bddop_or))
        on   == Kept(bdd_apply(some.s, c, some.root, bddop_and))
        both == Kept(bdd_apply(Freed(on.s, some.root), l, r, bddop_and))
        next == Kept(bdd_apply(both.s, both.root, on.root, bddop_or))
    IN  Plainly(bvec_delref(next.s, <<both.root, on.root, c>>), next.root)

SubCarry(s, c, l, r) ==
    LET some == Kept(bdd_apply(s, r, c, bddop_or))
        less == Kept(bdd_apply(some.s, l, some.root, bddop_less))
        both == Kept(bdd_apply(Freed(less.s, some.root), l, r, bddop_and))
        all  == Kept(bdd_apply(both.s, both.root, c, bddop_and))
        next == Kept(bdd_apply(Freed(all.s, both.root), all.root, less.root, bddop_or))
    IN  Plainly(bvec_delref(next.s, <<less.root, all.root, c>>), next.root)

Carried(s, l, r, carry(_, _, _, _)) ==
    LET step(x, i) ==
            LET bit == SumBit(x, l[i], r[i])
                next == carry(bit.s, x.carry, l[i], r[i])
            IN  [s |-> next.s, vec |-> Append(x.vec, bit.root), carry |-> next.root]
        end == Loop(step, [s |-> s, vec |-> <<>>, carry |-> 0], Bits(Len(l)))
    IN  Vector(Freed(end.s, end.carry), end.vec)

\* Vectors of different sizes are refused (BVEC_SIZE) before anything is done.
bvec_add(s, l, r) == Carried(s, l, r, AddCarry)
bvec_sub(s, l, r) == Carried(s, l, r, SubCarry)

----------------------------------------------------------------------------
(* Products and quotients.                                                 *)

ShiftedUp(vec)   == <<0>> \o Front(vec)
ShiftedDown(vec) == Append(Tail(vec), 0)

\* The shifted vector is not referenced, but freed.
RECURSIVE bvec_mulfixed(_, _, _)
bvec_mulfixed(s, e, c) ==
    LET next == ShiftedUp(e)
        rest == bvec_mulfixed(s, next, c \div 2)
        sum  == bvec_add(rest.s, e, rest.vec)
        res  == IF c % 2 = 1 THEN Vector(bvec_delref(sum.s, rest.vec), sum.vec) ELSE rest
    IN  IF c = 0 THEN Vector(s, bvec_build(Len(e), 0))
        ELSE Vector(bvec_delref(res.s, next), res.vec)

\* Each element of one vector or the other, the other let go of.
Chosen(s, test, yes, no) ==
    LET choose(x, i) ==
            LET r == Kept(bdd_ite(x.s, test, yes[i], no[i]))
            IN  Vector(Freed(r.s, no[i]), Append(x.vec, r.root))
    IN  Loop(choose, Vector(s, <<>>), Bits(Len(no)))

bvec_mul(s, left, right) ==
    LET bitnum == Len(left) + Len(right)
        copy == bvec_copy(s, left)
        wide == bvec_coerce(copy.s, bitnum, copy.vec)
        step(x, bit) ==
            LET added == bvec_add(x.s, x.res, x.shifted)
                res == Chosen(added.s, bit, added.vec, x.res)
            IN  [s |-> bvec_delref(Freed(res.s, Last(x.shifted)), added.vec),
                 res |-> res.vec, shifted |-> ShiftedUp(x.shifted)]
        end == Loop(step, [s |-> bvec_delref(wide.s, copy.vec), res |-> bvec_build(bitnum, 0),
                               shifted |-> wide.vec], right)
    IN  IF <<>> \in {left, right} THEN Vector(s, <<>>)
        ELSE Vector(bvec_delref(end.s, end.shifted), end.res)

\* x has the quotient and the remainder.  The first of the tests is not part of the
\* quotient, and stays referenced.
bvec_div(s, left, right, result, remainder) ==
    LET bitnum == Len(left) + Len(right)
        rem == bvec_coerce(s, bitnum, left)
        tmp == bvec_coerce(rem.s, bitnum, right)
        div == bvec_shlfixed(tmp.s, tmp.vec, Len(left), 0)
        step(x, n) ==
            LET fits == Kept(bvec_lte(x.s, x.div, x.rem))
                less == bvec_sub(fits.s, x.rem, x.div)
                left2 == Chosen(less.s, fits.root, less.vec, x.rem)
            IN  [s |-> bvec_delref(Freed(left2.s, Head(x.div)), less.vec),
                 rem |-> left2.vec, div |-> ShiftedDown(x.div),
                 res |-> IF n = 0 THEN x.res ELSE <<fits.root>> \o x.res]
        end == Loop(step, [s |-> bvec_delref(div.s, tmp.vec), rem |-> rem.vec,
                               div |-> div.vec, res |-> <<>>], [n \in 1..(Len(right) + 1) |-> n - 1])
        freed == bvec_delref(bvec_delref(end.s, result), remainder)
        kept == bvec_coerce(freed, Len(right), end.rem)
    IN  [s |-> bvec_delref(kept.s, end.rem), result |-> end.res, remainder |-> kept.vec]

\* The vector to subtract is not referenced, but freed.
RECURSIVE bvec_div_rec(_, _, _, _, _)
bvec_div_rec(s, divisor, remainder, result, step) ==
    LET smaller == Kept(bvec_lte(s, divisor, remainder))
        newResult == bvec_shlfixed(smaller.s, result, 1, smaller.root)
        each(x, i) ==
            LET r == bdd_ite(x.s, smaller.root, divisor[i], 0)
            IN  Vector(r.s, Append(x.vec, r.root))
        sub == Loop(each, Vector(newResult.s, <<>>), Bits(Len(divisor)))
        tmp == bvec_sub(sub.s, remainder, sub.vec)
        newRemainder == bvec_shlfixed(tmp.s, tmp.vec, 1, result[Len(divisor)])
        below == IF step > 1
                 THEN bvec_div_rec(newRemainder.s, divisor, newRemainder.vec, newResult.vec, step - 1)
                 ELSE [s |-> newRemainder.s, remainder |-> newRemainder.vec, result |-> newResult.vec]
    IN  [below EXCEPT !.s = bvec_delref(@, tmp.vec \o sub.vec \o <<smaller.root>>
                                           \o remainder \o result)]

bvec_divfixed(s, e, c) ==
    LET zero == bvec_build(Len(e), 0)
        over == bvec_shlfixed(s, zero, 1, Last(e))
        rest == bvec_shlfixed(over.s, e, 1, 0)
        end == bvec_div_rec(rest.s, bvec_con(Len(e), c), over.vec, rest.vec, Len(e))
        rem == bvec_shrfixed(end.s, end.remainder, 1, 0)
    IN  [s |-> bvec_delref(rem.s, end.remainder), result |-> end.result, remainder |-> rem.vec]

----------------------------------------------------------------------------
(* Shifts by a vector: every number up to the width in turn, then c for    *)
(* those that are greater.                                                 *)

\* Add to each element what it is if the test holds.
Including(s, res, test, from(_)) ==
    LET step(x, m) ==
            LET part == Kept(bdd_apply(x.s, test, from(m), bddop_and))
                bit == Kept(bdd_apply(part.s, res[m], part.root, bddop_or))
            IN  Vector(bvec_delref(bit.s, <<part.root, res[m]>>), Append(x.vec, bit.root))
    IN  Loop(step, Vector(s, <<>>), Bits(Len(res)))

\* The last test is not referenced, but let go of.
ShiftedBy(s, l, r, c, at(_, _)) ==
    LET each(x, n) ==
            LET test == Kept(bvec_equ(x.s, r, bvec_con(Len(r), n)))
                more == Including(test.s, x.vec, test.root, LAMBDA m : at(m, n))
            IN  Vector(Freed(more.s, test.root), more.vec)
        all == Loop(each, Vector(s, bvec_build(Len(l), 0)), [i \in 1..(Len(l) + 1) |-> i - 1])
        test == bvec_gth(all.s, r, bvec_con(Len(r), Len(l)))
        part == Kept(bdd_apply(test.s, test.root, c, bddop_and))
        step(x, m) ==
            LET bit == Kept(bdd_apply(x.s, all.vec[m], part.root, bddop_or))
            IN  Vector(Freed(bit.s, all.vec[m]), Append(x.vec, bit.root))
        end == Loop(step, Vector(part.s, <<>>), Bits(Len(l)))
    IN  IF <<>> \in {l, r} THEN Vector(s, <<>>)
        ELSE Vector(bvec_delref(end.s, <<part.root, test.root>>), end.vec)

bvec_shl(s, l, r, c) == ShiftedBy(s, l, r, c, LAMBDA m, n : IF m > n THEN l[m - n] ELSE c)

\* Right for three bits: fewer are read beyond their end, of more the last are lost.
bvec_shr(s, l, r, c) == ShiftedBy(s, l, r, c, LAMBDA m, n : IF m + n <= 3 THEN l[m + n] ELSE c)
============================================================================
