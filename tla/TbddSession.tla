---------------------------- MODULE TbddSession ----------------------------
(***************************************************************************)
(* A client of the trusted BDD package: it makes trusted BDDs from clauses *)
(* and from each other, builds plain BDDs and validates them, copies and   *)
(* drops what it holds, and ends the session.  One action is one call of   *)
(* the interface, with everything the call does below it: node table,      *)
(* garbage collection, operator cache, reference counts, proof.            *)
(*                                                                         *)
(* The session implements Proof, the specification of the proof file, and  *)
(* RefTable, the life of trusted BDDs and their unit clauses.              *)
(***************************************************************************)
EXTENDS Tbdd

CONSTANTS
    Types,         \* the proof formats, one of which the client chooses
    VarCount,      \* variables of the CNF file
    Inputs,        \* its clauses
    InitNodes,     \* initial size of the node table
    Level2Var,     \* the variable of each level
    Slots,         \* the client's variables for trusted BDDs, an interval of numbers
    Named,         \* nodes of variables, and constants, the client uses by themselves
    PlainOps,      \* operations it builds plain BDDs with
    Lemmas,        \* clauses it may validate
    MaxOps,        \* bound on the calls that make something
    NodeBound      \* no node has a larger index

VARIABLES
    x,             \* the package
    checker,       \* what a checker of the proof file knows
    plain,         \* the plain BDD the client holds, if any
    lemma,         \* the clauses it validated, with the identifiers it was given
    ops,           \* calls so far
    meaning,       \* the models each slot should have, and under 0 the plain BDD
    claim,         \* whether what the latest call was asked to prove holds
    units,         \* unit clauses not handed to delete_clauses
    status         \* "running", "done", or the error that ended the program

vars == <<x, checker, plain, lemma, ops, meaning, claim, units, status>>

InputIds == 1..Len(Inputs)
Refuted == x.s.p.empty # TAUTOLOGY
Held == {u \in Slots : x.slot[u] # NoTbdd}

LemmaIds == {m.id : m \in lemma}

\* What a client may pass as an operand: it holds a reference.
Operands == Named \cup plain \cup {x.slot[u].root : u \in Held}

----------------------------------------------------------------------------
(* Models of nodes and clauses: sets of variables assigned true.           *)

Assignments == SUBSET (1..VarCount)

Value(k, n, a) ==
    LET at[i \in 0..VarCount] ==
          IF i = 0 THEN n
          ELSE LET m == at[i - 1]
               IN  IF m \in Terminals THEN m
                   ELSE IF k.level2var[LEVEL(k, m)] \in a THEN HIGH(k, m) ELSE LOW(k, m)
    IN  at[VarCount]

Models(k, n) == {a \in Assignments : Value(k, n, a) = 1}

ClauseModels(clause) ==
    {a \in Assignments : \E l \in clause : IF l > 0 THEN l \in a ELSE -l \notin a}

Combine(op, m1, m2) ==
    LET bit(a, m) == IF a \in m THEN 1 ELSE 0
    IN  {a \in Assignments : IF op = bddop_not THEN a \notin m1
                              ELSE oprres(op, bit(a, m1), bit(a, m2)) = 1}

FormulaModels == {a \in Assignments : \A i \in InputIds : a \in ClauseModels(Inputs[i])}

----------------------------------------------------------------------------
File == INSTANCE Proof WITH InputClauses <- Inputs, out <- x.s.p.out

Init ==
    /\ \E type \in Types :
       \E y \in {tbdd_init(type, VarCount, Inputs, InitNodes, Level2Var, Slots)} :
           /\ x = [y EXCEPT !.s.p = Quiet(@)]
           /\ checker = File!AbsorbAll(File!NewChecker, y.s.p.out)
    /\ plain = {} /\ lemma = {} /\ units = {}
    /\ ops = 0
    /\ meaning = [u \in Slots \cup {0} |-> {}]
    /\ claim = TRUE
    /\ status = "running"

\* The package at the start of a call.
Called == [x EXCEPT !.s.p = Quiet(@)]

\* The package after a call, and what follows from it.
Becomes(y) ==
    /\ x' = y
    /\ checker' = File!AbsorbAll(checker, y.s.p.out)
    /\ units' = (units \cup (Range(y.created) \ Range(x.created))) \ Range(y.gone)
    /\ status' = IF y.s.error = "" THEN "running" ELSE y.s.error

\* Calls that make a trusted BDD put it into the first free slot.
Free == Min(Slots \ Held)

Making ==
    /\ status = "running" /\ ops < MaxOps /\ Held # Slots
    /\ ops' = ops + 1

Means(models) == meaning' = [meaning EXCEPT ![Free] = models]

\* tbdd_from_clause_id finds a clause only among those given to tbdd_init_lrat; with
\* the other formats a client asserts it (tbdd_from_clause).
FromClause(id) ==
    /\ Making
    /\ Becomes(IF x.s.p.type = "LRAT" THEN tbdd_from_clause_id(Called, Free, id, Inputs[id])
               ELSE tbdd_from_clause(Called, Free, Inputs[id]))
    /\ Means(ClauseModels(Inputs[id]))
    /\ claim' = TRUE
    /\ UNCHANGED <<plain, lemma>>

And(v, w) ==
    /\ Making
    /\ Becomes(tbdd_and(Called, Free, v, w))
    /\ Means(meaning[v] \cap meaning[w])
    /\ claim' = TRUE
    /\ UNCHANGED <<plain, lemma>>

Validate(r, v) ==
    /\ Making
    /\ Becomes(tbdd_validate(Called, Free, r, v))
    /\ Means(Models(x.s.k, r))
    /\ claim' = (meaning[v] \subseteq Models(x.s.k, r))
    /\ UNCHANGED <<plain, lemma>>

ValidateWithAnd(r, v, w) ==
    /\ Making
    /\ Becomes(tbdd_validate_with_and(Called, Free, r, v, w))
    /\ Means(Models(x.s.k, r))
    /\ claim' = (meaning[v] \cap meaning[w] \subseteq Models(x.s.k, r))
    /\ UNCHANGED <<plain, lemma>>

Copy(v) ==
    /\ Making
    /\ Becomes(tbdd_addref(Called, Free, v))
    /\ Means(meaning[v])
    /\ claim' = TRUE
    /\ UNCHANGED <<plain, lemma>>

\* tbdd_validate_clause.  The client of a valid clause keeps its identifier.
ValidateClause(clause, v) ==
    /\ Making
    /\ \E y \in {tbdd_validate_clause(Called, Free, clause, v)} :
          /\ Becomes(y.x)
          /\ lemma' = IF CleanClause(clause) = TautologyClause \/ y.x.s.error # "" THEN lemma
                        ELSE lemma \cup {[id |-> y.id, clause |-> clause]}
    /\ claim' = (meaning[v] \subseteq ClauseModels(clause))
    /\ UNCHANGED <<plain, meaning>>

\* bdd_apply or bdd_not, and bdd_addref of the result.
Plain(op, l, r) ==
    /\ Making
    /\ plain = {}
    /\ \E j \in {IF op = bddop_not THEN bdd_not(Called.s, l)
                ELSE bdd_apply(Called.s, l, r, op)} :
          /\ Becomes([Called EXCEPT !.s = [j.s EXCEPT !.k = bdd_addref(@, j.root)]])
          /\ plain' = {j.root}
    /\ meaning' = [meaning EXCEPT ![0] = Combine(op, Models(x.s.k, l), Models(x.s.k, r))]
    /\ claim' = TRUE
    /\ UNCHANGED lemma

ReleasePlain(n) ==
    /\ status = "running"
    /\ Becomes([Called EXCEPT !.s.k = bdd_delref(@, n)])
    /\ plain' = {}
    /\ meaning' = [meaning EXCEPT ![0] = {}]
    /\ claim' = TRUE
    /\ UNCHANGED <<lemma, ops>>

Drop(v) ==
    /\ status = "running"
    /\ Becomes(tbdd_delref(Called, v))
    /\ meaning' = [meaning EXCEPT ![v] = {}]
    /\ claim' = TRUE
    /\ UNCHANGED <<plain, lemma, ops>>

Done ==
    /\ status = "running"
    /\ \E y \in {tbdd_done(Called)} :
          /\ x' = y
          /\ checker' = File!AbsorbAll(checker, y.s.p.out)
          /\ units' = units \ Range(y.gone)
    /\ status' = "done"
    /\ claim' = TRUE
    /\ UNCHANGED <<plain, lemma, ops, meaning>>

Next ==
    \/ \E id \in InputIds : FromClause(id)
    \/ \E v, w \in Held : And(v, w)
    \/ \E r \in Operands, v \in Held : Validate(r, v)
    \/ \E r \in Operands, v, w \in Held : ValidateWithAnd(r, v, w)
    \/ \E v \in Held : Copy(v)
    \/ \E clause \in Lemmas, v \in Held : ValidateClause(clause, v)
    \/ \E op \in PlainOps, l, r \in Operands : Plain(op, l, r)
    \/ \E n \in plain : ReleasePlain(n)
    \/ \E v \in Held : Drop(v)
    \/ Done

Spec == Init /\ [][Next]_vars

----------------------------------------------------------------------------
(* Properties.                                                             *)

\* Every line a call prints is one a checker accepts when it comes to it: each
\* clause has a new identifier and follows from the clauses its hints name, none of
\* them deleted by an eviction, a collection or a resize that the same call went
\* through, and each deletion names a clause still there.
FileAccepted == [][File!Next]_vars

\* A root stays what it was made to be, over collections, reuse of entries, growth
\* and cached results.
MeaningKept ==
    status = "running" =>
        /\ \A u \in Held : Models(x.s.k, x.slot[u].root) = meaning[u]
        /\ \A n \in plain : Models(x.s.k, n) = meaning[0]

\* A trusted BDD is entailed by the formula, and its unit clause is in the file and
\* says that its root is true (tbdd.h: "logically entailed by a set of input
\* clauses").
RootsTrusted ==
    status = "running" /\ ~Refuted => \A u \in Held :
        LET h == x.slot[u]
        IN  /\ FormulaModels \subseteq meaning[u]
            /\ IF h.clause_id = TAUTOLOGY THEN h.root = 1
               ELSE /\ h.clause_id \in DOMAIN checker.db
                    /\ checker.db[h.clause_id] = {XVAR(x.s.k, h.root)}

\* A cached result is right for the nodes that are now in the entries it names, and
\* the clause that justifies it is in the file and says so.
CacheSound ==
    status = "running" => \A i \in DOMAIN x.s.cache :
        LET e == x.s.cache[i]
            k == x.s.k
            m(n) == Models(k, n)
        IN  e.a # -1 =>
              /\ CASE e.op = bddop_not -> m(e.res) = Combine(e.op, m(e.a), {})
                   [] e.op = bddop_andj -> m(e.res) = m(e.a) \cap m(e.b)
                   [] e.op = bddop_imptstj -> e.res = 1 /\ m(e.a) \subseteq m(e.b)
                   [] e.op = bddop_andimptstj ->
                        e.res = 1 /\ m(e.a) \cap m(e.b) \subseteq m(e.c)
                   [] OTHER -> m(e.res) = Combine(e.op, m(e.a), m(e.b))
              /\ OwnsClause(e) /\ ~Refuted =>
                   /\ e.jclause \in DOMAIN checker.db
                   /\ checker.db[e.jclause] = CleanClause(
                        CASE e.op = bddop_andj -> target_and(k, e.a, e.b, e.res)
                          [] e.op = bddop_imptstj -> target_imply(k, e.a, e.b)
                          [] e.op = bddop_andimptstj -> target_and(k, e.a, e.b, e.c))

\* Each clause in the file has one owner that will delete it: a live node, a trusted
\* BDD and its copies, a cache entry, the deferred list, or the client of a lemma; after
\* tbdd_done nothing but the input and the lemmas is left.  (In DRAT mode unit clauses
\* are not deleted.)
EveryClauseOwned ==
  x.s.p.type # "DRAT" /\ ~Refuted =>
  /\ status = "done" => DOMAIN checker.db = InputIds \cup LemmaIds
  /\ status = "running" =>
        LET k == x.s.k
            nodes == {n \in InUse(k) : LEVEL(k, n) > 0}
            defining == UNION {{<<"node", id>> : id \in Range(DefiningIds(k, n))} : n \in nodes}
            cached == {<<"cache", i>> : i \in {j \in DOMAIN x.s.cache : OwnsClause(x.s.cache[j])}}
            deferred == {<<"deferred", i>> : i \in DOMAIN x.s.p.deferred}
            trusted == {<<"unit", x.slot[u].clause_id>> : u \in Held}
                         \ {<<"unit", TAUTOLOGY>>}
            kept == {<<"lemma", id>> : id \in InputIds \cup LemmaIds}
            owned(o) == CASE o[1] = "cache" -> x.s.cache[o[2]].jclause
                          [] o[1] = "deferred" -> x.s.p.deferred[o[2]]
                          [] OTHER -> o[2]
            owners == defining \cup cached \cup deferred \cup trusted \cup kept
        IN  /\ {owned(o) : o \in owners} = DOMAIN checker.db
            /\ Cardinality(owners) = Cardinality(DOMAIN checker.db)

\* A proof attempt fails only for a claim that does not hold: the hints that
\* justify_apply chooses always suffice, whatever the cache had to say.  The identifier
\* a client gets for a clause it validated is that of a clause in the file which says
\* the same (tbdd.c:710, "Returns clause id").
ProofsSucceed ==
    /\ status \in {"exit", "TBDD_PROOF"} => ~claim
    /\ ~Refuted => \A m \in lemma :
          m.id \in DOMAIN checker.db /\ checker.db[m.id] = CleanClause(m.clause)

\* A refutation, once there, stays: no deletion of a unit clause, not even that of
\* the trusted BDD it belongs to, removes the empty clause (tbdd_delref).
RefutationStays == Refuted => \E id \in DOMAIN checker.db : checker.db[id] = {}

\* The session is one of those RefTable describes: a unit clause is named there by
\* its place in created_unit_clauses, and the client's plain BDD is not counted.
Place(id) == CHOOSE i \in DOMAIN x.created : x.created[i] = id
Places(ids) == {Place(id) : id \in ids}

MappedSlot(h) ==
    [h EXCEPT !.clause_id = IF h = NoTbdd \/ @ = TAUTOLOGY THEN 0 ELSE Place(@)]

MappedCount(n) ==
    IF n \notin DOMAIN x.s.k.node THEN 0
    ELSE x.s.k.node[n].refcou -
           (IF n \in plain /\ x.s.k.node[n].refcou < MAXREF THEN 1 ELSE 0)

Refs == INSTANCE RefTable WITH
    slot <- [u \in Slots |-> MappedSlot(x.slot[u])],
    rc <- x.rc,
    refcou <- [n \in 2..NodeBound |-> MappedCount(n)],
    counter <- Len(x.created),
    dead_unit_clauses <- [i \in DOMAIN x.dead |-> Place(x.dead[i])],
    units <- Places(units),
    deletion <- [i \in DOMAIN x.gone |-> Place(x.gone[i])],
    running <- (status # "done"),
    Nodes <- 2..NodeBound,
    MaxRef <- MAXREF,
    MaxClauses <- MaxOps

\* A call that ends the program on the way is none of its steps.
KeepsRefTable ==
    Refs!Init /\ [][status' \in {"running", "done"} => Refs!Next \/ UNCHANGED Refs!vars]_vars
============================================================================
