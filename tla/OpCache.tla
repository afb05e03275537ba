------------------------------ MODULE OpCache ------------------------------
(***************************************************************************)
(* The operator cache (cache.c): one direct-mapped table for the results   *)
(* of all operators.  An entry of a proving operator also owns the clause  *)
(* that justifies the result.  When such an entry is overwritten, cleared  *)
(* or lost in a resize, the clause may still be cited by the operation in  *)
(* progress, so its deletion is deferred.                                  *)
(***************************************************************************)
EXTENDS Justify

CONSTANT CacheRatio     \* BUDDY_CACHE_RATIO

ASSUME CacheRatioAssumption == CacheRatio \in Nat \ {0}

ProvingOps == {bddop_andj, bddop_imptstj, bddop_andimptstj}

EmptyEntry == [a |-> -1, b |-> -1, c |-> -1, op |-> -1, res |-> 0, jclause |-> TAUTOLOGY]

BddCache_init(size) == [i \in 0..(bdd_prime_gte(size) - 1) |-> EmptyEntry]

APPLYHASH(l, r, op) == TRIPLE(l, r, op)

\* BddCache_lookup: the place of a hash value.
BddCache_lookup(cache, hash) == hash % Cardinality(DOMAIN cache)

OwnsClause(entry) ==
    entry.a # -1 /\ entry.op \in ProvingOps /\ entry.jclause # TAUTOLOGY

\* Fault: the clause is deleted while the operation may still cite it.
BddCache_clause_evict_now(p, entry) ==
    IF OwnsClause(entry) THEN DeleteClauses(p, <<entry.jclause>>) ELSE p

BddCache_clause_evict(p, entry) ==
    IF OwnsClause(entry) THEN DeferDeleteClause(p, entry.jclause) ELSE p

BddCache_clear_clauses(p, cache) ==
    LET places == [i \in 1..Cardinality(DOMAIN cache) |-> i - 1]
    IN  FoldLeft(LAMBDA q, i : BddCache_clause_evict(q, cache[i]), p, places)

BddCache_reset(cache) == [i \in DOMAIN cache |-> EmptyEntry]

----------------------------------------------------------------------------
(* What an operator works on is a record: the node table k, the generator  *)
(* p, the cache, the reference stack, and the code given to bdd_error.     *)

\* Fault: results survive the collection of their nodes.
bdd_operator_reset_kept(s) == s

bdd_operator_reset(s) ==
    [s EXCEPT !.p = BddCache_clear_clauses(@, s.cache),
              !.cache = BddCache_reset(@)]

bdd_operator_noderesize(s) ==
    [s EXCEPT !.p = BddCache_clear_clauses(@, s.cache),
              !.cache = BddCache_init(s.k.size \div CacheRatio)]

\* The end of every operation.
checkresize(s) ==
    IF s.k.resized THEN [bdd_operator_noderesize(s) EXCEPT !.k.resized = FALSE] ELSE s

\* bdd_operator_done.
bdd_operator_done(s) ==
    [s EXCEPT !.p = ProcessDeferredDeletions(BddCache_clear_clauses(@, s.cache))]

\* Fault: the clause of the old entry is forgotten.
Store_over(s, i, entry) == [s EXCEPT !.cache[i] = entry]

\* Overwrite an entry.
Store(s, i, entry) ==
    [s EXCEPT !.p = BddCache_clause_evict(@, s.cache[i]), !.cache[i] = entry]

PUSHREF(s, n) == [s EXCEPT !.stack = Append(@, n)]
POPREF(s, n)  == [s EXCEPT !.stack = SubSeq(@, 1, Len(@) - n)]

\* bdd_makenode, with the part of bdd_gbc that resets the cache.
Adopt(s, r) ==
    LET after == [s EXCEPT !.k = r.k, !.p = r.p, !.error = r.error]
    IN  [s |-> IF Swept(s.k, r.k) THEN bdd_operator_reset(after) ELSE after,
         root |-> r.n]

Makenode(s, level, low, high) ==
    IF s.error # "" THEN [s |-> s, root |-> 0]
    ELSE Adopt(s, bdd_makenode(s.k, s.p, level, low, high, s.stack))
============================================================================
