# TBuDDy in TLA+

A verification development for TBuDDy, the BDD package that proves what it computes, and for the programs in the repository that
use it. Every BDD node, every result of a proving operator and every *trusted* BDD is backed by clauses of a proof file (LRAT, DRAT
or FRAT), and the package must print a file that an independent checker accepts, while nodes are collected, tables grow, cached
results are thrown away, and handles are copied and dropped. Below the proofs it is the BuDDy package: operators with a shared cache,
bit vectors, finite domains, dynamic reordering. Above them are parity constraints with Gauss-Jordan elimination and a SAT solver.
The modules model the code under `src/buddy/src` and `src/tbsat/src`; `PROJECT.json` names the source lines of every definition.

The program is sequential. What makes it hard is not concurrency but *lifetime*: each clause has exactly one owner that must delete
it, never too early (another clause still cites it) and never too late (it leaks); each node is kept by a count, by the reference
stack or by nothing at all; a cached result outlives the call that stored it and is met by another operator; and all tables may be
reorganised in the middle of an operation, the order of the variables included.

## 1. Inventory

| Component | State | Operations | Talks to |
|---|---|---|---|
| Proof generator, `prover.c` | counters, live and deleted counts, `all_clauses`, `deferred_deletion_list`, `empty_clause_id`, `empty_clause_finalized` | `prover_init`, `generate_clause`, `delete_clauses`, `defer_delete_clause`, `process_deferred_deletions`, `prover_done` | writes the proof file |
| Justification, `prover.c` | hints, units known | `justify_apply`, `rup_check` | defining clauses of nodes, generator |
| Node table, `kernel.c`, `prime.c` | nodes with hash heads and chains, free list, sizes, reference counts, reference stack, variable order | `bdd_init`, `bdd_setvarnum_ordered`, `bdd_makenode`, `bdd_gbc`, `bdd_noderesize`, `bdd_addref`, `bdd_delref`, `bdd_done` | generator (defining clauses), cache (reset on collection) |
| Operator cache, `cache.c` | entries with operands, result, justifying clause | lookup, overwrite, reset, resize | generator (deferred deletions) |
| BDD operators, `bddop.c` | globals set up for each recursion, `quantvarset` | apply, ite, restrict, constrain, simplify, replace, compose, quantification, satisfying assignments, counts; `bdd_applyj`, `bdd_apply_aij` | node table, cache, justification |
| Variable pairs, `pairs.c` | tables of pairs, list of tables, `pairsid` | `bdd_newpair`, `bdd_setpair`, `bdd_setbddpair`, `bdd_freepair` | replace, compose, reordering |
| Trusted BDDs, `tbdd.c`, `tbdd.h` | `rc_table` and its free list, unit clause lists | `tbdd_create`, `tbdd_addref`, `tbdd_delref`, `tbdd_from_clause(_id)`, `tbdd_and`, `tbdd_validate(_with_and)`, `tbdd_validate_clause`, `tbdd_init*`, `tbdd_done`, class `tbdd` | operators, generator, node counts |
| Reordering, `reorder.c`, `tree.c`, `imatrix.c` | tree of variable blocks, interaction matrix, the table under different rules for counts | `bdd_swapvar`, `bdd_setvarorder`, `bdd_addvarblock`, `bdd_intaddvarblock`, `bdd_reorder` with its methods, automatic reordering | node table, operators (long jump), pairs |
| Bit vectors, `bvec.c` | none of their own | arithmetic, comparisons, shifts | operators |
| Finite domains, `fdd.c` | `domain[]`, `firstbddvar` | `fdd_extdomain`, `fdd_overlapdomain`, `fdd_clearall`, `fdd_ithvar`, `fdd_domain`, `fdd_equals`, `fdd_makeset`, `fdd_setpair`, scans | operators, pairs |
| Parity constraints, `pseudoboolean.cxx` | `xor_set`, `sum_graph`, `gauss` | sums, Gauss-Jordan elimination | trusted BDDs |
| SAT solver, `tbsat/src/teval.cpp`, `clause.cpp` | terms with counts of dead ones, solver steps | reading, tree reduction, conjunction, quantification, generation of solutions | trusted BDDs |
| Solution checker, `tbsat/src/sat_check.cpp` | counts | lines of a solution file, verdict | files |
| Integer lists, files and printing, C++ wrapper, examples | | see section 7 | |

Behaviours that a test hardly reaches, and what has to hold (`PROJECT.json` lists each at its line):

- a clause cited by an operation in progress survives cache evictions, collections and resizes that the operation itself causes;
- an intermediate node is protected only by the reference stack when `bdd_makenode` collects;
- a cached result must not survive the nodes it names, since their indices are reused, and must not be taken for the result of
  another operator, another quantified set, or another contents of a table of pairs;
- the bucket of a new node is stale after the table has grown, and in a reordering after a swap;
- copies of a trusted BDD are counted in two places with different rules, one of which saturates;
- the free lists of the node table and of the count table share their storage with live data;
- the search for hints must find a proof whichever of the two recursive results came without a clause;
- the empty clause is the one clause that must never go;
- a reordering jumps out of an operation, which is tried again over what the first attempt left behind;
- sifting moves blocks through a list while it walks over it;
- solutions are generated backwards through the quantifications, and an excluded one must be excluded at every step;
- contracting an edge of the sum graph deletes nodes that other edges name; elimination changes equations that were chosen as pivots.

## 2. Modules

| Module | Models | Shape |
|---|---|---|
| `Proof` | what a proof file promises | abstract specification: the lines of each step are ones a checker accepts |
| `Prover` | the generator and `rup_check` | operators from the record of its variables to the record after a call |
| `ProverSession`, `ProverProofs` | the generator under a client that derives, gives up and evicts clauses | state machine, implements `Proof`; proofs |
| `RupLoop`, `RupProofs` | the search of `rup_check` | state machine, proofs |
| `Justify` | `justify_apply` | operators |
| `NodeTable` | the unique table | operators |
| `NodeSession`, `NodeProofs` | the unique table under a recursive operator and a client | state machine, proofs |
| `OpCache` | the operator cache, with what a collection and the end of an operation do to it | operators |
| `Apply` | `bdd_apply`, `bdd_not`, the proving operators | recursive operators |
| `RefCounts`, `RefTable`, `RefTableProofs` | trusted BDD handles, up to `tbdd_done` | operators, state machine (abstract for `TbddSession`), proofs |
| `Tbdd`, `TbddSession` | the trusted BDD package under a client | operators; state machine, implements `Proof` and `RefTable` |
| `Operators`, `Queries`, `Pairs` | the rest of `bddop.c`, sets of variables, `pairs.c` | recursive operators |
| `Meaning`, `Diagrams` | sets of assignments and the operations on them; what a node stands for | reference definitions |
| `OperatorSession` | a client of the operators that calls one after another | state machine |
| `Vectors`, `Domains` | `bvec.c`, `fdd.c` | operators |
| `DomainSession` | the same client with vectors and domains | state machine |
| `Reorder`, `Heuristics` | the swap of two levels; the tree of blocks (`tree.c`) and the methods | operators |
| `ReorderSession` | a client that reorders, or has its operations interrupted for it | state machine |
| `Cnf`, `TbSolver` | formulas and the solution checker; the solver | operators, state machine |
| `Parity`, `SumGraph`, `Gauss`, `ParitySession`, `ParityProofs` | `pseudoboolean.cxx` | operators, two state machines, their composition, proofs |
| `Induction` | induction, iteration and linked lists | lemmas the proofs share |
| `MC...` | small instances | constants for the runs |

How they build on each other:

    Proof                       Meaning
    Prover -> NodeTable -> Justify -> OpCache -> Apply -> Tbdd -> TbddSession        (Prover -> RupLoop, RefCounts -> Tbdd, RefTable)
                                                  |
                                              Operators -> Queries -> Pairs -> Diagrams -> OperatorSession
                                                            |           |-> Domains           |
                                                            |-> Vectors ---------------> DomainSession
                                                                        |-> Reorder -> Heuristics -> ReorderSession
    Cnf -> TbSolver             Parity -> SumGraph, Gauss -> ParitySession

The files of the C program are layers that call each other, so the modules are layers of *operators* on records: a function
with side effects is an operator from the state before the call to the state after it, and a call inside a handler is an application.
The session modules at the top of each layer have the variables and one action for each operation; an action is the whole handler.
So `tbdd_and` in `TbddSession!And` runs the recursion of `Apply`, which calls `bdd_makenode`, which may collect (deleting defining
clauses, deferring the cached ones) or grow, and finally generates the unit clause and works off the deferred list.

Two layers are cut. `TbSolver` and `Parity` take a BDD for the function it stands for: that operators compute the function, whatever the
tables do below them, is what `operators` and `tbdd_validate` show, and solver and elimination never look into a node.

How state and actions correspond to the code:

- `p` (`Prover`): `counter` is `*clause_id_counter`, `empty` is `empty_clause_id`, `stored` is `all_clauses`, `deferred` is
  `deferred_deletion_list`. `out` has the lines printed by the current step. `TAUTOLOGY` is `INT_MAX` as in the code.
- `k` (`NodeTable`): `node` is `bddnodes` with the fields of `BddNode`; `freepos`, `freenum`, `resized`, `varset`, `level2var`,
  `maxnodes` are the variables of the same names. Level 0 is the unused variable 0, as `prover_init` sets it up.
- `s` (`OpCache`): table, generator, cache, reference stack and the code given to `bdd_error`. The default error handler exits, so
  that no handler continues after an error.
- `x` (`Tbdd`): `s` with the handles and the lists of unit clauses. A `Slots` member is a variable of the client.
- `y` (`Pairs`, `Domains`): `s` with the tables of pairs, `pairsid`, and for `fdd.c` `domain` and `firstbddvar`.
- `w` (`Reorder`): `y` with the tree of blocks, the interaction relation, `usednum_after`, the number of variables of each level
  and what `reorder_init` sets up; `h` (`Heuristics`) is `w` with the list of blocks a method works on.
- `ProverSession`: `Derive` is a call of `generate_clause`, `Release` a direct `delete_clauses` (as `tbdd_delref` or `bdd_gbc` does),
  `Evict` a `defer_delete_clause` (the cache), `EndOperation` the `process_deferred_deletions` at the end of `tbdd_and` and the others,
  `Finish` is `tbdd_done`, `Restart` another `prover_init`.
- `RefTable`: `CreateProved`, `CreateUnproved` are `tbdd_create`, `Copy` is the copy constructor, `Assign` and `AssignSame` are
  `operator=` with the temporary it returns, `Destroy` is the destructor, `DestroyLate` the destructor after the session, `Done` is `tbdd_done`.
- `NodeSession`: `Build` is the step of a recursive operator that calls `bdd_makenode` with its operands on the stack, `Return` the
  end of an operation, `Release` a `bdd_delref`, `Done` is `bdd_done`.
- `RupLoop`: `Try` is one round of the loop over candidates.
- `TbddSession`: each action is the function of its name; `Plain` is `bdd_apply` or `bdd_not` with the `bdd_addref` of class `bdd`.
- `OperatorSession` and `DomainSession` on top of it: each action is one call. The client holds two functions and the cubes of its `menu`, which also
  names the calls this client makes. It references the result it keeps and releases the one before, so that nothing but the cache knows of older ones.
- `ReorderSession`: `Compute` and `Replace` are operations of `bddop.c` under automatic reordering, the others the calls of the same names.
- `TbSolver`: `main` up to the answer, with one action for each turn of a loop; then a client of class `Solver` that calls `next_solution` (`NextSolution`)
  and `impose_constraint` (`Exclude`) in any order. The repository has no such client any more: the loop in `solve()` is a comment (section 6).
- `ParitySession`: the client fills a set; each contraction of an edge, and each step of the elimination, is an action with a choice among equal costs.

In `OperatorSession`, `DomainSession` and `ReorderSession` the definition behind an action takes the function that is
called as a parameter (`Sum(op(_, _, _), ..)`, `ReplaceWith(..)`), and the action passes it (`Add == Sum(bvec_add, Plus)`): what is asked of a group of
calls is stated once, and TLC's coverage report is kept per group of calls, not expanded into the recursion below each.

What is abstracted, and why it is faithful:

- A clause is the set of its literals and `clean_clause` is what makes one; proof lines are records, their text and the binary
  encodings are left out, and so are comments, verbosity and the trace file.
- The sort of a clause by level is `LiteralsUpward`; `BDD_build_clause` gets the clause already cleaned (cleaning is idempotent).
- Primality (`prime.c`, a Miller-Rabin test) is exact. The hash arithmetic is that of the code; at the sizes checked it does not reach 32 bits.
- In the DRAT format no identifiers are printed and a deletion names literals; the model keeps the internal identifiers as names of
  copies, and the file starts counting after the input clauses.
- `tbdd_create` happens before `process_deferred_deletions` in the model and after it in the code; the two touch different state.
- `deletion` in `RefTable`, and `gone` in `Tbdd`, is a history: the list that the latest step gave to `delete_clauses`. `ilist_sort` is its
  result, the ascending list of the same elements with their repetitions; the merge in `tbdd_done` that follows it goes turn by turn as in the code (`MergeTurn`).
- The globals that an operator of `bddop.c` sets up for its recursion are a record that the recursion is given; the generation counter
  of `quantvarset` makes that array the set of the levels of the latest cube. The caches of the operators are one table with a tag
  per operator, as `cache.c` has it. `bdd_satcount` and its relatives are exact numbers where the code uses `double`.
- The interaction matrix is a relation. The random numbers of `BDD_REORDER_RANDOM` are a choice of the action. The hooks that report on a reordering are left out.
- The proof checker is external to the repository. `Proof` models what it must accept: an added clause has a new identifier and follows by unit
  propagation through its hints in their order, or defines an extension variable with all earlier clauses on the pivot named by
  negative hints, or repeats a clause; a deletion names clauses the checker holds.
- The last step of `TbSolver` takes the variables that were not eliminated, where `solve()` adds all: the same there, because `solve()` eliminates none.

## 3. Runs

| Run | Instance | Question |
|---|---|---|
| `ref_table` | 3 slots, 2 nodes, counts that stick at 2, a table of 1 entry, 3 clauses | handles, counts and unit clauses stay in step up to `tbdd_done`, whose merge deletes what is left |
| `prover_session` | 4 clauses over 3 variables, 3 derivations, 2 sessions, three formats, past the empty clause | the printed lines are acceptable, nothing is lost or deleted twice |
| `rup_loop` | 4 candidates from 6 clauses of 3 variables or missing, 3 orders, all targets | a conflict is a proof in the order printed |
| `node_table` | 3 variables, 3 free entries, 4 more nodes, counts that stick at 2; with defining clauses and the reverse order, or with a limit | table, free list and definitions through collections and growth |
| `tbdd_session` | 3 clauses over 2 variables that refute each other, LRAT and DRAT, 3 slots, 4 calls | acceptable file, the refutation stays, refinement of `RefTable` |
| `tbdd_validate` | 4 clauses over 3 variables, 3 lemmas, plain disjunction and negation, 4 calls, 3 cache entries, 1 count entry | results mean what they should, true claims are proved, every clause is owned once |
| `operators` | 3 variables, 15 entries, 3 cache entries, table identifiers up to 3, 14 menus, vectors of 2 and 3 bits | answers do not depend on what was called before, references come out even |
| `reorder` | 4 variables, 3 cache entries, 5 menus, all methods | functions, table and blocks survive every reordering |
| `tbsat` | 8 files of up to 4 variables, collections from 3 dead nodes on | the answer, the solutions given and those left after any exclusions, and the checker's verdict |
| `parity` | 5 variables, 6 lists to sum, 4 systems, 4 sets of internal variables | sums are sums, elimination keeps the solutions and solves for its pivots |
| `reorder_order`, `parity_sum` | | show the disagreements of section 6 |

### Properties

- `Proof!Next` as `FileAccepted`: in every session, each line printed is one a checker accepts at that point; of a FRAT proof, until its client goes on after the empty clause.
- `ProverSession`: `NothingLeaks` (at the end whatever was given up at once, deferred or still held has been deleted, and before that `live_clause_count` is the number of
  clauses a checker holds), `RefutationKept` (no empty clause leaves the file, unless a second one in a FRAT proof takes its place, section 6).
- `RefTable`: `ClauseWhileHeld` (a clause outlives its copies), `CountsExact`, `TableExact` (each entry is in use or on the free list, once; no clause without a copy is left, and the counts of the roots are those of the copies unless they stick),
  `DeletedOnce` (no step hands `delete_clauses` a clause twice, or one that has gone), `NothingLeaks` (after `tbdd_done` each unit clause has been handed over, but for an empty one whose handles are gone).
- `NodeSession`: `Canonical` (one node for a function, and it is found through its bucket), `FreeListExact`, `ReachableUntouched`, `LiveNodesDefined`
  (defining clauses are in the file exactly for the nodes there are), `GivesUpOnlyWhenFull`.
- `RupLoop`: `UnitsFollow`, `ConflictSound`, `AntecedentsSuffice`.
- `TbddSession`: `RootsTrusted` (a trusted BDD is entailed by the formula and its unit clause is in the file), `MeaningKept` (against sets of assignments),
  `CacheSound`, `EveryClauseOwned` (each clause in the file has exactly one owner, and none is left after `tbdd_done`), `ProofsSucceed` (also of lemmas), `RefutationStays`,
  `KeepsRefTable` (each call is a step of `RefTable` under the mapping of handles and counts, or none).
- `OperatorSession`: `AnswersRight` (the answer of a call is that of `Meaning`, for diagrams, numbers, sets, vectors and domains alike), `CacheSound` (every entry that a
  lookup could still match has the result of its operator on its operands), `ReferencesExact` (the counts are those of the client, the vectors, the domains and the tables of pairs).
- `ReorderSession`: `MeaningsKept` (held functions, tables of pairs and retried operations are untouched by any change of the order), `TableSound` (unique, found, ordered, free list and counts),
  `BlocksKept` (the variables of a block stay neighbours, and in their order if it is fixed), `NeverLarger` (no method but the random one leaves more nodes in use than there were).
- `TbSolver`: `SolutionsRight` (the answer is right, and what `next_solution` can return satisfies the file and was not excluded), `NoneMissed` (excluding some solutions loses no other),
  `CheckerRight` (the checker verifies the answer with the solutions given, and a single assignment exactly when it satisfies the file, at each verbosity).
- `ParitySession`: `SumRight` (whatever is contracted first, the nodes left have the sum of the set, any two can be added with a proof, and the result is the sum, in its validation too), `EdgesKept` (the edges are those of the
  nodes that share a variable, with the present cost, unless constraints cancel), `EquationsKept` (no step loses or adds a solution, the map from variables to equations and the preferred pivots are up to date),
  `AnswerRight` (the sets given back have the solutions of the set given, and are said to have none just when there are none), `SolvedForm` (the external equations have no internal variable and each of
  their pivots once; the internal ones are triangular).

### Fairness and liveness

The package is a library: it moves only when a client calls it, nothing in the code obliges a client to call again, and each call ends by itself (a recursion on
levels, or a loop that an operator of the model computes). There is no fairness to assume for the session modules and no liveness to state.
`tbsat` is a program, but its loops are bounded by the terms and variables they work off, and each turn is one of these calls; nothing in it waits for anything.

Deadlock is not checked, because each session ends.

### Why the bounds are enough

- The sizes are chosen so that every table overflows within a few steps: a count table of one entry grows at the second
  trusted BDD and again at the third; node tables start with few free entries, so the second or third new node collects, and a
  live table grows; three cache entries collide at once. Reference counts stick at 2, within reach of three copies. With
  a small `MaxNodeIncrease` the table grows by one prime at a time. The limit of 14 in `node_table` makes `bdd_noderesize` "grow" 13 entries to 13,
  since the new size is rounded down to a prime. `NodeBound` 31 is the table size the session reaches at most.
- Three variables suffice for a recursion that has a recursive result with a clause on each side, so that the split proof with its temporary clause occurs; for
  quantifying one of two variables below a third; for composing against the order. The clients of `operators` and `reorder` make two to four calls
  in any order, as their menu says (`bound`): one call leaves its entries in the cache, the next one takes references away and collects, a third meets what is left. `calls` counts them.
  `MaxPairsId` 3 is where the identifiers of tables start again, the one place in which the code renumbers and resets the cache.
- In `operators`, what `bdd_unique` and `bdd_appuni` return is compared with the sum over the set only when every path of the first operand to true tests all variables of the set (`PathsTest`), and for
  `bdd_appuni` when the operator is conjunction: a variable that a path does not test is left alone by the code, where the sum would cancel. Their other calls are in the run for what they leave behind.
- Two bits of a vector have a carry, a borrow and a shift that leaves something; three bits are needed for `bvec_shr` (section 6).
- Four variables allow two blocks of two, nested blocks, and a window of three with one outside of it. The functions of the menus are ones whose size depends on the order.
- `prover_session` derives up to three clauses from four, `{1}`, `{-1, 2}`, `{-2}` and `{-2, 1, 3}`: enough for the empty clause and for another after it, for clauses given up after the
  refutation, and for a tautology. A second session begins with what the first one left in the file-level variables.
- `tbdd_validate` has no `KeepsRefTable`: `tbdd_validate_clause` makes and drops a trusted BDD within one call, which is two steps of `RefTable`.
- Five variables are what five constraints need to have a cycle in the graph of shared variables, and a system with a dependent, a contradictory and an independent equation.

Definitions named `<definition>_<word>` with a comment starting "Fault" are plausible mistakes. They are not used by the specifications; substituted for
the definition they each violate one of the properties, which shows that the property says something about the code.

## 4. Proofs

`RefTableProofs` proves of `RefTable`, for any finite set of slots, any nodes, table size, saturation point and number of clauses:

- `TypeCorrect`, `ClauseOutlivesCopies` (`[]ClauseWhileHeld`), `CountsAreExact` (`[]CountsExact`), `NothingIsLeaked` (`[]NothingLeaks`),
  `NothingIsDeletedTwice` (`DeletedOnce`), `TableIsExact` (`[]TableExact`).

None of these is inductive. An entry of the table carries no mark that says whether it is in use: it holds a count or a link of the free list, and
only the holders' indices tell which. The invariant `IInv` therefore has two parts besides types: `WellFormed`, by which the free list
starts at an unused entry, links lead from unused entries to unused ones or end, and no two links meet or lead back to the head;
and `Shared`, by which slots with the same index have the same clause and root, different clauses have different indices, each used entry's count is the number of its
holders and each held clause is still among `units`. Lemmas state what `rc_grow`, `rc_new_entry`, `rc_increment`, `rc_dispose` preserve of
`WellFormed`, then what creation, copy and release preserve of `Shared`, and one lemma for each action assembles `IInv'`. `WellFormed` does not say that the list
reaches every unused entry: a cycle would satisfy it. For `TableExact` the invariant `FullInv` adds an enumeration of the list (`FreeList`), that
a clause in the file is dead or held (`Kept`), and the references to each node (`Counted`). `NothingIsLeaked` and the last step of `NothingIsDeletedTwice` rest on the end of the session: the result of `ilist_sort` is the list in
ascending order, strictly if nothing is repeated (`SortRight`); a turn of the merge passes at least one element and leaves each one passed in the right place (`MergeTurnRight`), so that after as many turns as there
are elements the list has what was created and is not dead, once (`MergeRight`, `LiveUnitClauses`); the dead clauses come in the order they died in, and `IInv` has every clause created dead or among `units`. The assumptions are
`InitSizeAssumption` and `ConstantsAssumption`: the table has an entry, the slots are finitely many, 0 and 1 are not ordinary nodes.

`RupProofs` proves of `RupLoop`, for any set of literals closed under negation, any clauses, candidates and orders that try no candidate twice: `TypeCorrect`,
`UnitsAreSound` (`[]UnitsFollow`), `ConflictIsSound` (`[]ConflictSound`) and `AntecedentsAreProof` (`[]AntecedentsSuffice`). `TypeOK /\ UnitsFollow /\ ConflictSound` is inductive: a clause all of whose literals are false
under what follows from the candidates used and the negated target contradicts them, so the target follows. For the antecedents, `FullInv` adds what a checker that
has read the hints found so far would know (`CheckerFollows`): as long as the search is open that is the same units. Two inductions over the order then connect it with the
fold that lists the antecedents and with the recursive function by which `Proof` checks a line.

`ProverProofs` proves of `ProverSession`, for any input clauses, formats, number of derivations and of sessions: `InvariantHolds` (`[]IInv`), `FileAcceptedHolds` (`FileAccepted`, the refinement of `Proof`, step by step),
`RefutationKeptHolds` (`RefutationKept`) and `NothingLeaksHolds` (`[]NothingLeaks`). The invariant relates what the client still owes a deletion for, `deferred_deletion_list`, `all_clauses` and
the checker's clauses: no identifier is owed two deletions (`OwedOnce`), each clause stored has the text derived (`TextRight`), and generator and checker agree (`Agreement`). It is needed because
`delete_clauses` prints whatever it is given: that each identifier names a clause still in the file follows only from who owns it.
They hold for clients that go on after the refutation, in any format. What generator and checker agree on is weaker then: with LRAT and DRAT nothing is printed any more, and a FRAT proof whose client goes on (`GoesOn`) prints deletions of
clauses it did not print, which is the fault described in section 6. So `Consistent` has the clauses stored be those of the file (`Exact`) only before that, and keeps after it what the other theorems need: that a clause in a FRAT file is owed a deletion or empty
(`NothingLeaksHolds`), and that the empty clause in the file is `empty_clause_id`, unless that one was never printed (`Unprinted`), which is the exception in `RefutationKept`. `RangeAssumption` says that the literals and identifiers stay below `TAUTOLOGY`.

`NodeProofs` proves of `NodeSession`, for any number of variables and order of them, any initial size, limit on the nodes, growth and bounds: `CanonicalHolds` (`[]Canonical`), `FreeListExactHolds` (`[]FreeListExact`),
`GivesUpOnlyWhenFullHolds` (`[]GivesUpOnlyWhenFull`) and `ReachableUntouchedHolds` (`ReachableUntouched`). The invariant is `Table`: the chain of each bucket has every node in use that hashes there, and the free list every unused entry,
each exactly once (`Linked`), the nodes are reduced, ordered and unique, and the variables are pinned. None of the properties is inductive: one array of links serves the chains and
the free list, and nothing in an entry says which of them it is on but `low`, so that writing a link for one of them could cut another. The argument goes through the helpers: a link put in front of a chain keeps all other lists
(`LinkRight`, `UnlinkRight`); the sweep of a collection and of a resize rebuilds them all, by induction over the entries still to be visited (`RebuildRight`); a collection keeps what the roots
reach, which is closed under `low` and `high` and the least such set (`ReachableRight`, `CollectRight`), and a growth keeps everything (`GrowRight`); the walk along the links meets each element of a list once (`ChainRight`), so that the loop along
a bucket finds the node if there is one (`LookupRight`); then `bdd_makenode` in all its cases (`MakenodeRight`), `bdd_setvarnum` by induction over the levels (`SetvarnumRight`), and the actions. The hash
function enters only through its range. The assumptions are `NodeTableAssumption` and `SessionAssumption`; of the latter, that there is a prime between the size asked for and twice that is Bertrand's postulate, needed because `bdd_prime_gte` searches upwards
for one, and it is stated for the one size the session starts with; a resize searches downwards and ends at a prime it has had. A start that ends with an error has no session (the conjunct on `c.error` in `Init`; TLC never meets one). `Linked` quantifies over sequences, so TLC
checks `Table` by its consequences `Canonical` and `FreeListExact`.

Its second half proves `LiveNodesDefinedHolds` (`[]LiveNodesDefined`), for each proof format, order of the variables and setup as above. The property is not inductive: it says nothing of the identifiers to come, and nothing that forbids
two nodes to have one, in which case the end of the first would take a clause of the second. The invariant is `DInv`, whose core is `Tidy`: what a checker knows after the lines of the step (`Seen`) is the clauses of the nodes in use, at identifiers that no two of them share
and that the counters have passed (`Defined`, `Numbered`); no clause has fewer than two literals (`NoUnits`), since `delete_clauses` leaves those of a DRAT proof in the file; with DRAT and FRAT, `all_clauses` has the clauses the checker has (`Shown`), as a deletion
looks them up there; the counters grow with the nodes produced (`Sized`); and nodes of level 0, which have no clauses to delete, are never collected (`Anchored`). The lines are read one by one (`ReplayRight`): deleting the nodes of a set,
by induction over the entries from the last one down, takes their clauses and no others (`DeleteNodesRight`), and the four calls of `generate_clause` for a new node add those that are no tautologies, each of the text
`defining_clause` gives it and under the identifier `bdd_dclause` computes later, without having kept it (`FourTold`, `DefineRight`). Then come a collection, a growth and the new node (`CollectRecorded`, `GrowRecorded`, `NewNodeRecorded`), `bdd_makenode` as
their composition (`MakenodeTidy`), `bdd_setvarnum` (`SetvarnumTidy`) and the actions. The run `node_table` has LRAT and no proof; DRAT and FRAT are the theorem's alone. `SessionAssumption` has three conjuncts for this: the identifiers of all clauses stay below INT_MAX, which stands for the tautology (four for each node
produced; the code does not check it), the proof format is one of `ProofTypes`, and the order is a permutation that leaves variable 0 on level 0 (`prover.c:194`).

`Induction` holds what these proofs share. The library's induction theorems have the predicate as an operator parameter, which no prover installed can instantiate; here the predicate is a set, and
`NatSetInduction` follows from the pigeonhole principle. With it, recursive functions and the folds of `SequencesExt` are shown to exist for the arguments the model gives them. It also has the lists linked through an
array, for the chains and free lists of `NodeTable` and the free list of `RefTable`: what leaves the links of a list's elements alone leaves the list alone, and an element is put in front or taken off.

`ParityProofs` proves of `ParitySession`, for any number of variables, any sets of constraints and of internal variables: `SumRightHolds` (`[]SumRight`), `EquationsKeptHolds` (`[]EquationsKept`), `AnswerRightHolds` (`[]AnswerRight`) and
`SolvedFormHolds` (`[]SolvedForm`). First come the parity of finite sets (`OddSum`: of a symmetric difference) and the operators of `Parity`: the loops of `coefficient_sum` merge two ascending lists into the ascending list of what is in
just one of them (`CoefficientSumRight`, with what is passed below what is ahead), `BDD_build_xor` and `TBDD_from_xor` give the function of the constraint (`BuildXorRight`, `FromXorRight`), and so a sum is right and implied by any two right constraints
(`XorPlusRight`, `ProvedRight`). The folds of the model are shown to be runs of their steps, over which one can argue by induction.
The invariant of the sums is `SumInv`: the nodes left have, variable by variable, the parity of the set (`SumCarried`); contracting an edge takes two away and adds their sum, or nothing (`Contracted`).
The invariant of the elimination is `GaussInv`. It says more than the properties, which are not inductive: remaining equations have variables (`Reduced`), no pivot used is left in any of them (`ExternalLast`), the saved ones are triangular
(`Triangular`), external ones are saved only when no internal variable is left anywhere, which rests on the penalty in the cost of a pivot (`CostRight`), and whenever what remains has a solution, so have all together (`SolutionsKept`). The last holds because an assignment can be changed
in the pivot, which the others do not have (`Flipped`); with no equation left it gives that a system which did not end as infeasible has a solution. Then `StepRight` has a step in both its cases and `JordanRight` the last loop, as a run from the last
equation up (`UpwardRight`). The assumptions are `ParityAssumption` and `GaussAssumption`, by which `NULL` is nothing else; and `SessionAssumption`: the client's lists are ascending, as the constructor of `xor_constraint` gets them; no equation is the contradiction without variables, for which `gauss_step` has
no pivot (section 6); and the number of equations times that of variables is below the penalty of 2^30, without which an internal variable could cost more than an external one.

The two `TypeOK` are proved and in no run: their content that could be wrong, the bounds of the free list and which candidates are used, is in `TableExact` and `AntecedentsSuffice`.

Only model-checked: `Apply`, `Operators` and the modules above them (`TbddSession`, `OperatorSession`, `ReorderSession`, `TbSolver`) declare or reach `RECURSIVE` operators, which is out of the prover's reach.
`EdgesKept` holds for the constraints of the run, but not for all: when some of them repeat, the code deletes nodes and leaves their edges (section 6).

## 5. What is modelled of each part

`PROJECT.json` has the lines. Modelled as whole handlers: all of `cache.c` and of the reordering methods; `bddop.c` but for the logarithmic and printing variants; the handles and
operations of `tbdd.c` and `tbdd.h`; in `prover.c` everything but output formats; in `kernel.c` the table with its start and end; `bvec.c` but for printing;
`fdd.c` but for what repeats a call for several domains; the sums and the elimination of `pseudoboolean.cxx`; the reader, solver and checker of `tbsat`.

Preconditions of the clients, each one the documentation's or what the callers in the repository do: the number of variables is set once; reordering without
proofs only (`prover_init` disables it); results are referenced before the next call; nothing but destructors after `tbdd_done`; `bdd_addvarblock` with blocks that nest or are apart; vectors of
equal length; and, because of section 6, operands on which a reference taken back too often does no harm, and in `operators` not `bdd_appall` together with `bdd_appuni`.

## 6. Disagreements found

With a run:

1. `parity_sum`: the comment at `pseudoboolean.cxx:353-354` has an edge between remaining arguments. When two arguments sum to nothing,
   `get_sum` deletes both (503-511) but leaves their other edges, and a later turn reads a deleted node.
2. `reorder_order`: `addref_rec` (`reorder.c:829`) counts a root met below another one with the row of the interaction matrix it has at that moment, so that `reorder_vardown` (1462) takes two variables
   for independent that are not, and skips the swap. The check that a level lies above its children is in `sanitycheck` (1441), which is not compiled.

Met while modelling, without a run of their own; the sessions keep away from them, as section 5 says:

- Proofs. In FRAT mode deletions go on after the empty clause. A second empty clause takes over `empty_clause_id` (`prover.c:491`) and is not printed; `delete_clauses` spares that one, and deletes the first, the only one in the file, although
  its comment says "Empty clause should not be deleted" (578), and `prover_done` finalizes the one the file lacks. In general, what is derived after the refutation is not printed, but its deletion is.
  `empty_clause_finalized` is not reset by `prover_init` (67), so a second FRAT session does not finalize its empty clause.
  `tbdd_validate_clause_path` compares a level with a variable number (`tbdd.c:750`, 708-710): with an order other than the identity implied clauses are not validated.
- Variables. `bdd_setvarnum` may be called again according to its documentation (`kernel.c:411`), but the level of the terminals is raised after the new nodes are made, and
  `bdd_makenode` rejects them (1620); without `prover_init` it reads a null counter. `fdd_extdomain` goes through it when it runs out of variables (`fdd.c:160`).
- Operators. `bdd_appall` and `bdd_appuni` use the same identifier in the cache for the same operator and set (`bddop.c:2573`): a client that calls both gets the result of the other one.
  `bdd_resetpair` takes a level for a variable and keeps the table's identifier (`pairs.c:324`). `bdd_scanset` promises ascending order and gives that of the diagram.
- Vectors. `bvec_shl` and `bvec_shr` release the result of a comparison that nobody referenced (`bvec.c:1049`), `bvec_mulfixed` a vector (681), `bvec_div` a difference (765), which stops the program
  unless these are constants or held elsewhere. `bvec_shr` compares positions with 2 whatever the width (1131). `bvec_div` keeps references of its first comparison (868).
- Domains. `fdd_equals` compares the ranges and loops over the bits (`fdd.c:622`); the result of `fdd_domain` comes with a reference that no other call's does; `fdd_intaddvarblock` releases an unreferenced cube.
- Reordering. `reorder_done` leaves the counts of external roots that are inner nodes too high (`reorder.c:1679`); a block that cuts one later sibling and covers an earlier one is dropped silently (`tree.c:149`).
- Parity. `xor_set::clear` deletes only null pointers (`pseudoboolean.cxx:1060`); constraints that cancel in a sum leak; the list passed to the elimination holds deleted constraints afterwards; an
  equation without variables that remains makes `gauss_step` look for a pivot there is none of (907).
- Solver. The loop of `solve()` that generates solutions, up to `max_solutions` of them, is a comment (`teval.cpp:496-507`), so that the documented option `-m` (`bsat.cpp:49`) does nothing; and `solve()` replaces the result by a tautology (485) before
  it prints the number of its solutions (494). The class methods are compiled; the model is about them, under a client that calls them, and not about that loop. A clause
  of length 0, a tautology after cleaning, ends the reading of a file (`clause.cpp:227`). At verbosity 0 a wrong solution is not reported and shows in the counts only (`sat_check.cpp:180`); a literal beyond the last variable is
  written out of bounds (122).

## 7. Not modelled

- Integer lists (`ilist.c`): sequences and sets in the models; their growth and their layout decide nothing.
- Files and printing (`bddio.c`, printing in `bvec.c` and `fdd.c`, the DOT output): I/O and layout. Loading a file rebuilds its nodes with `bdd_ite`.
- The C++ wrapper (`cppext.cxx`, `bdd.h`): class `bdd` references and releases as class `tbdd` does, which is modelled; the rest forwards.
- `tbdd_trust` (the package offers no proof for it), the cube builder, the hooks `dfun` and `ifun`, `PROOF_NONE`; binary proofs; setters and statistics.
- `xor_set::extract` and the breadth-first sum (not called), `fdd_intaddvarblock`, the command lines, examples, tests and build files.
- Exhausted memory, 32-bit overflow of the hash functions, and the capacity of the reference stack (`kernel.c:522`).

## 8. Plan

Modelled first was what the package is for: the file it prints, and the lifetimes of clauses that decide whether a checker accepts it; then the operators below it and the programs above it. What is left:

1. A proof that the depth of the reference stack stays below its capacity, by the levels a recursion descends.
2. `PROOF_NONE` and the cube builder in `Tbdd`; `fdd_intaddvarblock` with the blocks of `Heuristics`.
