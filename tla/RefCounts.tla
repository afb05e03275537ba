------------------------------ MODULE RefCounts ------------------------------
(***************************************************************************)
(* The table of reference counts of unit clauses (tbdd.c): a growing array *)
(* in which an entry in use holds a count, and a free one the next free    *)
(* entry or -1; and the two lists of unit clauses that tbdd_done merges.   *)
(***************************************************************************)
EXTENDS Integers, FiniteSets, Sequences, Functions

CONSTANT InitSize   \* TABLE_INIT_SIZE

ASSUME InitSizeAssumption == InitSize \in Nat \ {0}
----------------------------------------------------------------------------
Entries(t) == DOMAIN t.table

ChainFrom(first, size) ==
    [i \in first..(size - 1) |-> IF i = size - 1 THEN -1 ELSE i + 1]

rc_init == [table |-> ChainFrom(0, InitSize), freepos |-> 0,
            allocated |-> InitSize]

\* TABLE_SCALE is 2.
rc_grow(t) ==
    LET size == t.allocated * 2
    IN  [table |-> [i \in 0..(size - 1) |->
                      IF i < t.allocated THEN t.table[i]
                      ELSE ChainFrom(t.allocated, size)[i]],
         freepos |-> t.allocated,
         allocated |-> size]

RoomFor(t) == IF t.freepos = -1 THEN rc_grow(t) ELSE t

rc_new_entry(t) ==
    LET room == RoomFor(t)
        i == room.freepos
    IN  [table |-> [room.table EXCEPT ![i] = 1],
         freepos |-> room.table[i],
         allocated |-> room.allocated]

\* Fault: a copy is not counted.
rc_increment_none(t, i) == t

rc_increment(t, i) == IF i = -1 THEN t ELSE [t EXCEPT !.table[i] = @ + 1]

\* Fault: the entry is not put on the free list.
rc_dispose_lost(t, i) ==
    [table |-> [t.table EXCEPT ![i] = t.freepos], freepos |-> t.freepos,
     allocated |-> t.allocated]

rc_dispose(t, i) ==
    [table |-> [t.table EXCEPT ![i] = t.freepos],
     freepos |-> i,
     allocated |-> t.allocated]

\* rc_decrement returns 1 for the index of an unjustified TBDD.
LastCopy(t, i) == i # -1 /\ t.table[i] = 1

rc_release(t, i) ==
    IF i = -1 THEN t
    ELSE IF LastCopy(t, i) THEN rc_dispose(t, i)
    ELSE [t EXCEPT !.table[i] = @ - 1]

----------------------------------------------------------------------------
(* The unit clauses left at the end: tbdd_done's merge of the identifiers  *)
(* created with the dead ones.                                             *)

\* ilist_sort: an entry goes behind the smaller ones and the equal ones before it.
ilist_sort(list) ==
    LET place(i) == Cardinality({j \in DOMAIN list :
                        list[j] < list[i] \/ (list[j] = list[i] /\ j <= i)})
    IN  [n \in DOMAIN list |-> list[CHOOSE i \in DOMAIN list : place(i) = n]]

\* Fault: the clauses behind the last dead one are forgotten.
MergeTurn_noTail(created, dead, c) ==
    IF c.ic > Len(created) \/ c.id > Len(dead) THEN c
    ELSE IF created[c.ic] < dead[c.id]
    THEN [c EXCEPT !.ic = @ + 1, !.live = Append(@, created[c.ic])]
    ELSE IF created[c.ic] = dead[c.id] THEN [c EXCEPT !.ic = @ + 1, !.id = @ + 1]
    ELSE [c EXCEPT !.id = @ + 1]

\* A turn of the loops over two sorted lists, at place ic of the one and id of the
\* other: what is only in the first is still alive; what is only in the second was
\* never created, which is an error message.
MergeTurn(created, dead, c) ==
    LET more == c.ic <= Len(created)
        moreDead == c.id <= Len(dead)
    IN  CASE more /\ (moreDead => created[c.ic] < dead[c.id]) ->
                [c EXCEPT !.ic = @ + 1, !.live = Append(@, created[c.ic])]
          [] more /\ moreDead /\ created[c.ic] = dead[c.id] ->
                [c EXCEPT !.ic = @ + 1, !.id = @ + 1]
          [] moreDead /\ (more => dead[c.id] < created[c.ic]) -> [c EXCEPT !.id = @ + 1]
          [] OTHER -> c

Merge(created, dead) ==
    LET turns == Len(created) + Len(dead)
        at[t \in 0..turns] ==
            IF t = 0 THEN [ic |-> 1, id |-> 1, live |-> <<>>]
            ELSE MergeTurn(created, dead, at[t - 1])
    IN  at[turns].live

\* Fault: the dead clauses are taken in the order they died in.
live_unit_clauses_unsorted(created, dead) == Merge(ilist_sort(created), dead)

live_unit_clauses(created, dead) == Merge(ilist_sort(created), ilist_sort(dead))
==============================================================================
