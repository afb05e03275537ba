--------------------------- MODULE DomainSession ---------------------------
(***************************************************************************)
(* The client of OperatorSession with vectors and finite domains.  The     *)
(* operands of the calls on vectors are made of its functions, or are the  *)
(* vector the latest call gave.  It adds blocks of variables, asks for the *)
(* diagrams and the values they encode, and takes the blocks away.         *)
(***************************************************************************)
EXTENDS OperatorSession, Vectors, Domains

\* The number that a vector is under each assignment.
Value(k, vec) ==
    LET bits == [i \in DOMAIN vec |-> Models(k, vec[i])]
    IN  [a \in All |-> FoldLeft(LAMBDA sum, i : sum + (IF a \in bits[i] THEN 2^(i - 1) ELSE 0),
                                0, Bits(Len(vec)))]

\* menu.vectors names the elements of the operands by their places in held.
Vecs ==
    {[i \in DOMAIN v |-> held[v[i]]] : v \in menu.vectors}
        \cup {vec \in {latest} : \E v \in menu.vectors : Len(v) = Len(vec) /\ Len(v) > 1}

Pairs2 == {<<l, r>> \in Vecs \X Vecs : Len(l) = Len(r)}

\* A call whose result is a number under each assignment.
GivesNumber(name, result, want(_)) ==
    /\ Calling(name)
    /\ \E r \in {result} :
          /\ Holds(r.s, IF r.s.error = "" THEN r.vec ELSE <<>>)
          /\ answer' = IF r.s.error # "" THEN answer
                       ELSE [got |-> Value(r.s.k, r.vec), want |-> [a \in All |-> want(a)]]

NumberOf(name, op(_, _, _), l, r, want(_)) == GivesNumber(name, op(Called, l, r), want)
NumberWith(name, op(_, _, _, _), l, r, c, want(_)) == GivesNumber(name, op(Called, l, r, c), want)

\* The client keeps the quotient with the remainder behind it.
QuotientOf(name, d, want(_)) ==
    \E q \in {d} : GivesNumber(name, Vector(q.s, q.result \o q.remainder), want)

Num(vec) == Value(y.s.k, vec)

\* Nodes whose count never falls: the layer has calls that take a reference away too
\* often, or never, and come out right only on these.
Lasting(vec) == Range(vec) \subseteq Terminals \cup Range(y.s.k.varset)

----------------------------------------------------------------------------
(* What the client asks for.                                               *)

Sum(op(_, _, _), total(_, _, _)) ==
    \E p \in Pairs2 : \E vl \in {Num(p[1])}, vr \in {Num(p[2])} :
        NumberOf("sum", op, p[1], p[2], LAMBDA a : total(vl[a], vr[a], 2^Len(p[1])))

Plus(m, n, size)  == (m + n) % size
Minus(m, n, size) == (m + size - n) % size

Comparison(op(_, _, _), rel(_, _)) ==
    \E p \in Pairs2 : \E vl \in {Num(p[1])}, vr \in {Num(p[2])} :
        Binary("compare", op, p[1], p[2], {a \in All : rel(vl[a], vr[a])}, All)

ProductWith(mul(_, _, _)) ==
    \E p \in Pairs2 : \E vl \in {Num(p[1])}, vr \in {Num(p[2])} :
        NumberOf("mul", mul, p[1], p[2], LAMBDA a : vl[a] * vr[a])

ProductByWith(mul(_, _, _)) ==
    \E e \in Vecs, c \in 0..3 : \E ve \in {Num(e)} :
        /\ Lasting(e)
        /\ NumberOf("mulfixed", mul, e, c, LAMBDA a : (ve[a] * c) % 2^Len(e))

QuotientWith(div(_, _, _, _, _)) ==
    \E p \in Pairs2 :
    \E vl \in {Num(p[1])}, vr \in {Num(p[2])}, zero \in {bvec_build(Len(p[1]), 0)} :
        /\ Lasting(p[2]) /\ \A a \in All : vr[a] # 0
        /\ QuotientOf("div", div(Called, p[1], p[2], zero, zero),
                      LAMBDA a : (vl[a] \div vr[a]) + 2^Len(zero) * (vl[a] % vr[a]))

QuotientByWith(div(_, _, _)) ==
    \E e \in Vecs, c \in 1..3 : \E ve \in {Num(e)} :
        /\ bvec_isconst(e)
        /\ QuotientOf("divfixed", div(Called, e, c),
                      LAMBDA a : (ve[a] \div c) + 2^Len(e) * (ve[a] % c))

ShiftedUpTo(width, v, n, fill) == (v * 2^n + (IF fill THEN 2^n - 1 ELSE 0)) % 2^width
ShiftedDownTo(width, v, n, fill) ==
    v \div 2^n + (IF fill THEN (2^n - 1) * 2^(width - n) ELSE 0)

\* By a vector: bvec_shr is right for three bits only.
Shift(op(_, _, _, _), shifted(_, _, _, _), widths) ==
    \E p \in Pairs2, c \in Range(held) :
    \E vl \in {Num(p[1])}, vr \in {Num(p[2])}, fill \in {Mean(c)}, width \in {Len(p[1])} \cap widths :
        /\ \A a \in All : vr[a] <= width
        /\ NumberWith("shift", op, p[1], p[2], c,
                      LAMBDA a : shifted(width, vl[a], vr[a], a \in fill))

ShiftBy(op(_, _, _, _), shifted(_, _, _, _)) ==
    \E e \in Vecs, n \in 0..3, c \in Range(held) :
    \E ve \in {Num(e)}, fill \in {Mean(c)} :
        NumberWith("fixed", op, e, n, c,
                   LAMBDA a : shifted(Len(e), ve[a], IF n > Len(e) THEN Len(e) ELSE n, a \in fill))

CoerceWith(op(_, _, _)) ==
    \E e \in Vecs, n \in 0..3 : \E ve \in {Num(e)} :
        NumberOf("fixed", op, n, e, LAMBDA a : ve[a] % 2^n)

SelectWith(op(_, _, _, _)) ==
    \E p \in Pairs2, f \in Range(held) : \E vl \in {Num(p[1])}, vr \in {Num(p[2])} :
        NumberWith("map", op, f, p[1], p[2], LAMBDA a : IF a \in Mean(f) THEN vl[a] ELSE vr[a])

Negated(s, vec) == bvec_map1(s, vec, bdd_not)
ComplementWith(op(_, _)) ==
    \E e \in Vecs : \E ve \in {Num(e)} :
        GivesNumber("map", op(Called, e), LAMBDA a : 2^Len(e) - 1 - ve[a])

Xored(s, l, r) == bvec_map2(s, l, r, LAMBDA t, f, g : bdd_apply(t, f, g, bddop_xor))
DifferenceWith(op(_, _, _)) ==
    \E p \in Pairs2 : \E vl \in {Num(p[1])}, vr \in {Num(p[2])} :
        NumberOf("map", op, p[1], p[2], LAMBDA a :
            FoldLeft(LAMBDA sum, i : sum + ((vl[a] \div 2^i + vr[a] \div 2^i) % 2) * 2^i,
                     0, [i \in 1..Len(p[1]) |-> i - 1]))

----------------------------------------------------------------------------
(* The actions, each with the function that the client calls.              *)

Add      == Sum(bvec_add, Plus)
Subtract == Sum(bvec_sub, Minus)

Less           == Comparison(bvec_lth, LAMBDA m, n : m < n)
LessOrEqual    == Comparison(bvec_lte, LAMBDA m, n : m <= n)
Greater        == Comparison(bvec_gth, LAMBDA m, n : m > n)
GreaterOrEqual == Comparison(bvec_gte, LAMBDA m, n : m >= n)
Same           == Comparison(bvec_equ, LAMBDA m, n : m = n)
Different      == Comparison(bvec_neq, LAMBDA m, n : m # n)

ShiftUp     == Shift(bvec_shl, ShiftedUpTo, 1..3)
ShiftDown   == Shift(bvec_shr, ShiftedDownTo, {3})
ShiftUpBy   == ShiftBy(bvec_shlfixed, ShiftedUpTo)
ShiftDownBy == ShiftBy(bvec_shrfixed, ShiftedDownTo)

Product    == ProductWith(bvec_mul)
ProductBy  == ProductByWith(bvec_mulfixed)
Quotient   == QuotientWith(bvec_div)
QuotientBy == QuotientByWith(bvec_divfixed)
Coerce     == CoerceWith(bvec_coerce)
Select     == SelectWith(bvec_ite)
Complement == ComplementWith(Negated)
Difference == DifferenceWith(Xored)

VectorNext ==
    \/ Next
    \/ Add \/ Subtract
    \/ Less \/ LessOrEqual \/ Greater \/ GreaterOrEqual \/ Same \/ Different
    \/ Product \/ ProductBy \/ Quotient \/ QuotientBy
    \/ ShiftUp \/ ShiftDown \/ ShiftUpBy \/ ShiftDownBy
    \/ Coerce \/ Select \/ Complement \/ Difference

----------------------------------------------------------------------------
(* Domains.                                                                *)

Doms == DOMAIN y.domain

\* The value of a domain under an assignment.
Number(d, a) == Valued(y.domain[d], a)

\* As Gives, for a result that comes with a reference.
GivesReferenced(name, result, want) ==
    /\ Calling(name)
    /\ \E r \in {result} :
          /\ Holds(r.s, <<r.root>>)
          /\ answer' = [got |-> Models(r.s.k, r.root), want |-> want]

ChangesDomains(z) ==
    /\ Calling("domains")
    /\ y' = z
    /\ UNCHANGED <<latest, answer, status>>

----------------------------------------------------------------------------
\* The package has enough variables: fdd_extdomain would else go through
\* bdd_setvarnum, which cannot be called again.
ExtendWith(extdomain(_, _)) ==
    \E dom \in menu.domains :
        /\ y.firstbddvar + SumOf([n \in DOMAIN dom |-> BinSize(dom[n])]) <= VarCount
        /\ ChangesDomains(extdomain(y, dom))

OverlapWith(overlapdomain(_, _, _)) ==
    \E v1, v2 \in Doms : v1 # v2 /\ ChangesDomains(overlapdomain(y, v1, v2))

ClearAllWith(clearall(_)) == y.domain # <<>> /\ ChangesDomains(clearall(y))

PairUpWith(setpair(_, _, _, _)) ==
    \E p1, p2 \in Doms :
        /\ y.pair[1] # NoPair /\ p1 # p2 /\ y.domain[p1].binsize = y.domain[p2].binsize
        /\ ChangesDomains(setpair(y, 1, p1, p2))

HasValueWith(value(_, _, _)) ==
    \E v \in Doms : \E val \in 0..(y.domain[v].realsize - 1) :
        Gives("domains", value(y, v, val), {a \in All : Number(v, a) = val}, All)

InDomainWith(within(_, _)) ==
    \E v \in Doms :
        GivesReferenced("domains", within(y, v), {a \in All : Number(v, a) < y.domain[v].realsize})

\* The sizes are compared, the loop is over the bits of the first: these agree here.
EqualWith(equals(_, _, _)) ==
    \E v1, v2 \in Doms :
        /\ y.domain[v1].realsize = y.domain[v2].realsize
        /\ y.domain[v1].binsize = y.domain[v2].binsize
        /\ Gives("domains", equals(y, v1, v2), {a \in All : Number(v1, a) = Number(v2, a)}, All)

SetOfWith(makeset(_, _)) ==
    \E v1, v2 \in Doms :
        Gives("domains", makeset(y, <<v1, v2>>),
              {a \in All : Range(y.domain[v1].ivar) \cup Range(y.domain[v2].ivar) \subseteq a}, All)

\* The values told are those of one assignment that satisfies the diagram.
ScanValues(r) ==
    /\ r # 0
    /\ LET told == fdd_scanallvar(y, r)
       IN  Tells("domains",
                 Plainly(y.s, \E a \in Mean(r) : \A d \in Doms : Number(d, a) = told[d]), TRUE)

ScanSet(set) ==
    Tells("domains", Plainly(y.s, Range(fdd_scanset(y, set))),
          {d \in Doms : Range(y.domain[d].ivar) \cap VariablesOf(set) # {}})

----------------------------------------------------------------------------
(* The actions, each with the function that the client calls.              *)

Extend   == ExtendWith(fdd_extdomain)
Overlap  == OverlapWith(fdd_overlapdomain)
ClearAll == ClearAllWith(fdd_clearall)
PairUp   == PairUpWith(fdd_setpair)
HasValue == HasValueWith(fdd_ithvar)
InDomain == InDomainWith(fdd_domain)
Equal    == EqualWith(fdd_equals)
SetOf    == SetOfWith(fdd_makeset)

DomainNext ==
    \/ VectorNext
    \/ Extend
    \/ Overlap
    \/ ClearAll
    \/ PairUp
    \/ HasValue
    \/ InDomain
    \/ Equal
    \/ SetOf
    \/ \E r \in Operands : ScanValues(r)
    \/ \E set \in Range(cubes) : ScanSet(set)

DomainSpec == Init /\ [][DomainNext]_vars
============================================================================
