------------------------------ MODULE RefTable ------------------------------
(***************************************************************************)
(* The life of trusted BDDs (tbdd.c, class trustbdd::tbdd in tbdd.h).      *)
(*                                                                         *)
(* A trusted BDD is a root node with a unit clause proving it.  Copies are *)
(* counted twice: the node in the saturating reference count of the BDD    *)
(* package, the unit clause in a table of counts whose unused entries      *)
(* carry a free list.  The last copy to go takes the unit clause with it.  *)
(*                                                                         *)
(* A slot is a C++ variable of class tbdd, or a C variable whose owner     *)
(* calls tbdd_addref and tbdd_delref by the same rules.                    *)
(***************************************************************************)
EXTENDS RefCounts

CONSTANTS
    Slots,         \* variables of class tbdd
    Nodes,         \* nonterminal BDD nodes
    MaxRef,        \* MAXREF, where a node's reference count sticks
    MaxClauses     \* bound on the unit clauses generated

ASSUME ConstantsAssumption ==
    /\ IsFiniteSet(Slots)
    /\ Nodes \subseteq Nat \ {0, 1}
    /\ MaxRef \in Nat \ {0} /\ MaxClauses \in Nat

VARIABLES
    slot,          \* what each slot holds
    rc,            \* rc_table and rc_freepos
    refcou,        \* reference count of each node
    counter,       \* identifiers given to unit clauses so far
    dead_unit_clauses,
    units,         \* unit clauses generated and not handed to delete_clauses
    deletion,      \* the list the latest step handed to delete_clauses
    running        \* between tbdd_init and tbdd_done

vars == <<slot, rc, refcou, counter, dead_unit_clauses, units, deletion, running>>

\* The false node is 0, the true node 1.
Roots == Nodes \cup {0, 1}

\* No identifier is 0: here it stands for TAUTOLOGY, the absence of a clause.
TAUTOLOGY == 0

Tbdd == [root : Roots, clause_id : Nat, rc_index : Int]
NoTbdd == [root |-> -1, clause_id |-> 0, rc_index |-> -2]

Held == {s \in Slots : slot[s] # NoTbdd}
Holders(i) == {s \in Slots : slot[s].rc_index = i}

\* Every identifier given out, in that order.
created_unit_clauses == [i \in 1..counter |-> i]

created == 1..counter
dead == Range(dead_unit_clauses)
gone == Range(deletion)

----------------------------------------------------------------------------
(* Reference counts of nodes.  The terminals are not counted.              *)

bdd_addref(counts, r) ==
    IF r \in Nodes /\ counts[r] < MaxRef THEN [counts EXCEPT ![r] = @ + 1] ELSE counts

bdd_delref(counts, r) ==
    IF r \in Nodes /\ counts[r] # MaxRef /\ counts[r] > 0
    THEN [counts EXCEPT ![r] = @ - 1] ELSE counts

----------------------------------------------------------------------------
Init ==
    /\ slot = [s \in Slots |-> NoTbdd]
    /\ rc = rc_init
    /\ refcou \in [Nodes -> {0, MaxRef}]   \* the nodes of variables stick from the start
    /\ counter = 0
    /\ dead_unit_clauses = <<>> /\ units = {} /\ deletion = <<>>
    /\ running = TRUE

\* tbdd_create with the clause just generated for root r.  The unit clause of
\* the true node is a tautology and gets no identifier.
CreateProved(s, r) ==
    /\ running /\ slot[s] = NoTbdd
    /\ r # 1 /\ counter < MaxClauses
    /\ slot' = [slot EXCEPT ![s] =
                  [root |-> r, clause_id |-> counter + 1,
                   rc_index |-> RoomFor(rc).freepos]]
    /\ rc' = rc_new_entry(rc)
    /\ refcou' = bdd_addref(refcou, r)
    /\ counter' = counter + 1
    /\ units' = units \cup {counter + 1}
    /\ deletion' = <<>>
    /\ UNCHANGED <<dead_unit_clauses, running>>

\* tbdd_create without a clause: TBDD_tautology, TBDD_null, no proof.
CreateUnproved(s, r) ==
    /\ running /\ slot[s] = NoTbdd
    /\ slot' = [slot EXCEPT ![s] =
                  [root |-> r, clause_id |-> TAUTOLOGY, rc_index |-> -1]]
    /\ refcou' = bdd_addref(refcou, r)
    /\ deletion' = <<>>
    /\ UNCHANGED <<rc, counter, dead_unit_clauses, units, running>>

\* tbdd_addref: the copy constructor.
Copy(s, t) ==
    /\ running /\ slot[s] = NoTbdd /\ t \in Held
    /\ slot' = [slot EXCEPT ![s] = slot[t]]
    /\ rc' = rc_increment(rc, slot[t].rc_index)
    /\ refcou' = bdd_addref(refcou, slot[t].root)
    /\ deletion' = <<>>
    /\ UNCHANGED <<counter, dead_unit_clauses, units, running>>

\* What tbdd_delref does to the unit clause: the empty clause is only marked.
DropClause(h) ==
    IF LastCopy(rc, h.rc_index)
    THEN /\ deletion' = IF h.root = 0 THEN <<>> ELSE <<h.clause_id>>
         /\ units' = units \ gone'
         /\ dead_unit_clauses' = Append(dead_unit_clauses, h.clause_id)
    ELSE deletion' = <<>> /\ UNCHANGED <<units, dead_unit_clauses>>

\* The destructor.
Destroy(s) ==
    /\ running /\ s \in Held
    /\ slot' = [slot EXCEPT ![s] = NoTbdd]
    /\ rc' = rc_release(rc, slot[s].rc_index)
    /\ refcou' = bdd_delref(refcou, slot[s].root)
    /\ DropClause(slot[s])
    /\ UNCHANGED <<counter, running>>

\* A destructor that runs after tbdd_done finds the package gone.
DestroyLate(s) ==
    /\ ~running /\ s \in Held
    /\ slot' = [slot EXCEPT ![s] = NoTbdd]
    /\ deletion' = <<>>
    /\ UNCHANGED <<rc, refcou, counter, dead_unit_clauses, units, running>>

\* operator= returns a copy of its target, which dies at once.
Temporary(counts, r) == bdd_delref(bdd_addref(counts, r), r)

\* operator=, which keeps the target when the two have the same root.
Assign(s, t) ==
    /\ running /\ s \in Held /\ t \in Held
    /\ slot[s].root # slot[t].root
    /\ slot' = [slot EXCEPT ![s] = slot[t]]
    /\ rc' = rc_increment(rc_release(rc, slot[s].rc_index), slot[t].rc_index)
    /\ refcou' = Temporary(bdd_addref(bdd_delref(refcou, slot[s].root), slot[t].root),
                           slot[t].root)
    /\ DropClause(slot[s])
    /\ UNCHANGED <<counter, running>>

AssignSame(s, t) ==
    /\ running /\ s \in Held /\ t \in Held
    /\ slot[s].root = slot[t].root
    /\ refcou' = Temporary(refcou, slot[s].root)
    /\ deletion' = <<>>
    /\ UNCHANGED <<slot, rc, counter, dead_unit_clauses, units, running>>

\* tbdd_done deletes the created unit clauses that are not dead.
Done ==
    /\ running
    /\ running' = FALSE
    /\ deletion' = live_unit_clauses(created_unit_clauses, dead_unit_clauses)
    /\ units' = units \ gone'
    /\ UNCHANGED <<slot, rc, refcou, counter, dead_unit_clauses>>

Next ==
    \/ \E s \in Slots, r \in Roots : CreateProved(s, r) \/ CreateUnproved(s, r)
    \/ \E s, t \in Slots : Copy(s, t) \/ Assign(s, t) \/ AssignSame(s, t)
    \/ \E s \in Slots : Destroy(s) \/ DestroyLate(s)
    \/ Done

Spec == Init /\ [][Next]_vars

----------------------------------------------------------------------------
(* Properties.                                                             *)

TypeOK ==
    /\ slot \in [Slots -> Tbdd \cup {NoTbdd}]
    /\ rc.allocated \in Nat \ {0}
    /\ rc = [table |-> rc.table, freepos |-> rc.freepos, allocated |-> rc.allocated]
    /\ rc.table \in [0..(rc.allocated - 1) -> Int]
    /\ rc.freepos \in -1..(rc.allocated - 1)
    /\ refcou \in [Nodes -> 0..MaxRef]
    /\ counter \in Nat
    /\ dead_unit_clauses \in Seq(created) /\ units \subseteq created /\ deletion \in Seq(created)
    /\ running \in BOOLEAN

\* While any copy of a trusted BDD is left its unit clause has not been handed to
\* delete_clauses, so that tbdd_and and tbdd_validate may cite it (tbdd_delref).
ClauseWhileHeld ==
    running => \A s \in Held : slot[s].clause_id # TAUTOLOGY => slot[s].clause_id \in units

\* The count of an entry in use is the number of slots sharing it, whatever
\* entries were recycled or the table grew in between (rc_table).
CountsExact ==
    running => \A i \in 0..(rc.allocated - 1) :
                  Holders(i) # {} => rc.table[i] = Cardinality(Holders(i))

\* The free list visits every entry no slot uses and then ends: an entry neither
\* gets lost nor is given to two trusted BDDs (rc_new_entry, rc_dispose, rc_grow).  A
\* clause still in the file has a copy, or is the empty clause, and the collector sees
\* a reference to every root held unless its count has stuck at MAXREF (bdd_delref).
TableExact ==
    LET free == {i \in Entries(rc) : Holders(i) = {}}
        after[n \in 0..Cardinality(free)] ==
            IF n = 0 THEN rc.freepos
            ELSE IF after[n - 1] = -1 THEN -1 ELSE rc.table[after[n - 1]]
    IN  running =>
        /\ {after[n] : n \in DOMAIN after} = free \cup {-1}
        /\ after[Cardinality(free)] = -1
        /\ \A id \in units : id \in dead \/ \E s \in Held : slot[s].clause_id = id
        /\ \A n \in Nodes :
              refcou[n] = MaxRef \/ refcou[n] = Cardinality({s \in Slots : slot[s].root = n})

\* No unit clause is handed to delete_clauses twice, neither by two steps nor in one
\* list: whatever the order the copies went in, tbdd_done's merge passes over the dead.
DeletedOnce == [][gone' \subseteq units /\ IsInjective(deletion')]_vars

\* After tbdd_done no unit clause is left except an empty one a slot had let go of: its
\* merge misses none of those alive, however the two lists were interleaved.
NothingLeaks == ~running => units \subseteq dead
==============================================================================
