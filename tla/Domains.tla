------------------------------ MODULE Domains ------------------------------
(***************************************************************************)
(* Finite domains (fdd.c): blocks of variables that encode the numbers     *)
(* below a bound, the least significant bit first.  The blocks of one call *)
(* of fdd_extdomain are interleaved.                                       *)
(*                                                                         *)
(* y is the record of Pairs with the table of domains (domain) and the     *)
(* first variable that no block has (firstbddvar).  A domain owns a        *)
(* reference of the cube of its variables (var).                           *)
(***************************************************************************)
EXTENDS Pairs

bdd_fdd_init(y) == [y EXCEPT !.domain = <<>>, !.firstbddvar = 0]

bdd_fdd_done(y) ==
    LET drop(k, d) == bdd_delref(k, d.var)
    IN  [y EXCEPT !.s.k = FoldLeft(drop, @, y.domain)]

fdd_clearall(y) == bdd_fdd_init(bdd_fdd_done(y))

\* Domain_allocate: at least one bit.
BinSize(size) == Min({b \in 1..size : 2^b >= size})

\* Add a domain over some variables and reference their cube.
NewDomain(y, realsize, ivar) ==
    LET set == BDD_makeset(INITREF(y.s), ivar)
    IN  [y EXCEPT !.s = [set.s EXCEPT !.k = bdd_addref(@, set.root)],
                  !.domain = Append(@, [realsize |-> realsize, binsize |-> Len(ivar),
                                        ivar |-> ivar, var |-> set.root])]

\* The variables of domain n when bits of all of them alternate, those that have run
\* out of bits left aside.
Interleaved(sizes, first, n) ==
    LET before(bit) == {<<m, b>> \in (DOMAIN sizes) \X (1..Max(Range(sizes))) :
                          b <= sizes[m] /\ (b < bit \/ (b = bit /\ m < n))}
    IN  [bit \in 1..sizes[n] |-> first + Cardinality(before(bit))]

SumOf(sizes) == FoldLeft(+, 0, sizes)

\* The variables are there already.
fdd_extdomain(y, dom) ==
    LET sizes == [n \in DOMAIN dom |-> BinSize(dom[n])]
        add(z, n) == NewDomain(z, dom[n], Interleaved(sizes, y.firstbddvar, n))
        all == FoldLeft(add, y, [n \in DOMAIN dom |-> n])
    IN  [all EXCEPT !.firstbddvar = @ + SumOf(sizes)]

fdd_overlapdomain(y, v1, v2) ==
    NewDomain(y, y.domain[v1].realsize * y.domain[v2].realsize,
              y.domain[v1].ivar \o y.domain[v2].ivar)

----------------------------------------------------------------------------
(* Diagrams about the values of domains.                                   *)

\* One literal after the other, joined by op[n] with what was there.
Literals(s, literals, op) ==
    LET join(r, n) ==
            LET kept == [r.s EXCEPT !.k = bdd_addref(@, r.root)]
                next == bdd_apply(kept, literals[n], r.root, op[n])
            IN  Plainly([next.s EXCEPT !.k = bdd_delref(@, r.root)], next.root)
    IN  FoldLeft(join, Plainly(s, 1), [n \in DOMAIN literals |-> n])

Bit(val, n) == (val \div 2^(n - 1)) % 2

fdd_ithvar(y, v, val) ==
    LET ivar == y.domain[v].ivar
    IN  Literals(INITREF(y.s), [n \in DOMAIN ivar |-> IF Bit(val, n) = 1 THEN ithvar(y.s.k, ivar[n])
                                             ELSE nithvar(y.s.k, ivar[n])],
                 [n \in DOMAIN ivar |-> bddop_and])

\* The result comes with a reference.
fdd_domain(y, v) ==
    LET d == y.domain[v]
        r == Literals(INITREF(y.s), [n \in DOMAIN d.ivar |-> nithvar(y.s.k, d.ivar[n])],
                      [n \in DOMAIN d.ivar |->
                         IF Bit(d.realsize - 1, n) = 1 THEN bddop_or ELSE bddop_and])
    IN  [r EXCEPT !.s.k = bdd_addref(@, r.root)]

\* Domains of different sizes are refused (BDD_RANGE).
fdd_equals(y, left, right) ==
    LET same(r, n) ==
            LET bit == bdd_apply(r.s, ithvar(r.s.k, y.domain[left].ivar[n]),
                                 ithvar(r.s.k, y.domain[right].ivar[n]), bddop_biimp)
                kept == [bit.s EXCEPT !.k = bdd_addref(@, bit.root)]
                both == bdd_apply(kept, r.root, bit.root, bddop_and)
                k == bdd_delref(bdd_addref(both.s.k, both.root), bit.root)
            IN  Plainly([both.s EXCEPT !.k = bdd_delref(k, r.root)], both.root)
        all == FoldLeft(same, Plainly(INITREF(y.s), 1), [n \in 1..y.domain[left].binsize |-> n])
    IN  [all EXCEPT !.s.k = bdd_delref(@, all.root)]

fdd_makeset(y, varset) ==
    Literals(INITREF(y.s), [n \in DOMAIN varset |-> y.domain[varset[n]].var],
             [n \in DOMAIN varset |-> bddop_and])

----------------------------------------------------------------------------
(* What can be read from a diagram.                                        *)

\* The variables that the first path to true sets.
RECURSIVE SetOnPath(_, _)
SetOnPath(k, n) ==
    IF n \in Terminals THEN {}
    ELSE IF LOW(k, n) # 0 THEN SetOnPath(k, LOW(k, n))
    ELSE {k.level2var[LEVEL(k, n)]} \cup SetOnPath(k, HIGH(k, n))

Valued(d, set) ==
    FoldLeft(LAMBDA val, n : val + (IF d.ivar[n] \in set THEN 2^(n - 1) ELSE 0), 0,
             [n \in DOMAIN d.ivar |-> n])

fdd_scanallvar(y, r) ==
    [n \in DOMAIN y.domain |-> Valued(y.domain[n], SetOnPath(y.s.k, r))]

fdd_scanset(y, r) ==
    LET found == Range(bdd_scanset(y.s.k, r))
    IN  SelectSeq([n \in DOMAIN y.domain |-> n], LAMBDA n : Range(y.domain[n].ivar) \cap found # {})

\* Blocks of different numbers of variables are refused (BDD_VARNUM).
fdd_setpair(y, u, p1, p2) ==
    LET set(z, n) == bdd_setpair(z, u, y.domain[p1].ivar[n], y.domain[p2].ivar[n])
    IN  FoldLeft(set, y, [n \in DOMAIN y.domain[p1].ivar |-> n])
============================================================================
