------------------------------- MODULE Pairs -------------------------------
(***************************************************************************)
(* Tables of variable pairs (pairs.c), for bdd_replace and bdd_veccompose. *)
(* The identifier of a table stands for its contents in the operator       *)
(* cache, so it changes whenever they do.                                  *)
(*                                                                         *)
(* A record y has the record s of OpCache, the tables (pair, by the names  *)
(* the client has for them), the registered names (pairs, the latest       *)
(* first) and the latest identifier (pairsid).                             *)
(***************************************************************************)
EXTENDS Queries

CONSTANT MaxPairsId     \* INT_MAX >> 2, where the identifiers start again

ASSUME PairsAssumption == MaxPairsId \in Nat \ {0}

NoPair == [id |-> -1, last |-> -1, result |-> <<>>]

\* The tables numbered anew, the latest first.
Renumbered(y) ==
    LET place(u) == CHOOSE i \in DOMAIN y.pairs : y.pairs[i] = u
    IN  [y EXCEPT !.pairsid = Len(y.pairs),
                  !.pair = [u \in DOMAIN @ |-> IF u \in Range(y.pairs)
                                               THEN [@[u] EXCEPT !.id = place(u) - 1] ELSE @[u]]]

\* Fault: the results remembered under the old identifiers stay.
update_pairsid_keeping(y) ==
    IF y.pairsid + 1 # MaxPairsId THEN [y EXCEPT !.pairsid = @ + 1] ELSE Renumbered(y)

update_pairsid(y) ==
    IF y.pairsid + 1 # MaxPairsId THEN [y EXCEPT !.pairsid = @ + 1]
    ELSE [Renumbered(y) EXCEPT !.s = bdd_operator_reset(@)]

bdd_newpair(y, u) ==
    LET z == update_pairsid(y)
        k == y.s.k
    IN  [z EXCEPT !.pair[u] = [id |-> z.pairsid, last |-> -1,
                               result |-> [level \in 0..(k.varnum - 1) |-> ithvar(k, k.level2var[level])]],
                  !.pairs = <<u>> \o @]

\* bdd_setbddpair, and with the diagram of a variable bdd_setpair: references to
\* those stay at MAXREF.
bdd_setbddpair(y, u, oldvar, newvar) ==
    LET level == bddvar2level(y.s.k, oldvar)
        old == y.pair[u].result[level]
        z == update_pairsid([y EXCEPT !.s.k = bdd_addref(bdd_delref(@, old), newvar),
                                      !.pair[u].result[level] = newvar])
    IN  [z EXCEPT !.pair[u].id = z.pairsid, !.pair[u].last = Max({@, level})]

bdd_setpair(y, u, oldvar, newvar) == bdd_setbddpair(y, u, oldvar, ithvar(y.s.k, newvar))

\* Fault: the results of a table that is gone stay referenced.
bdd_freepair_keeping(y, u) ==
    [y EXCEPT !.pair[u] = NoPair, !.pairs = SelectSeq(@, LAMBDA v : v # u)]

\* bdd_freepair and, for all tables, bdd_pairs_done.
bdd_freepair(y, u) ==
    LET results == [i \in 1..y.s.k.varnum |-> y.pair[u].result[i - 1]]
    IN  [y EXCEPT !.pair[u] = NoPair, !.pairs = SelectSeq(@, LAMBDA v : v # u),
                  !.s.k = FoldLeft(bdd_delref, @, results)]
============================================================================
