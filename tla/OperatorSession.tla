-------------------------- MODULE OperatorSession --------------------------
(***************************************************************************)
(* The operators of bddop.c under a client that keeps two functions, the   *)
(* result of its latest call, some cubes and a table of pairs, and calls   *)
(* one operation after another: what one call leaves in the cache, the     *)
(* next one meets.  The table is small enough for the calls to collect and *)
(* to grow it on the way.                                                  *)
(***************************************************************************)
EXTENDS Diagrams

CONSTANTS
    InitNodes,     \* initial size of the node table
    CacheSize,     \* and of the operator cache
    Menus,         \* what a client does, records of the order of the variables
                   \* (order), its functions (functions), its cubes as pairs of
                   \* variables and values (cubes), the operations it calls (calls)
                   \* and how many calls it makes (bound)
    BinaryOps      \* operations given to bdd_appex and the like

VARIABLES
    y,             \* the package, with the tables of pairs
    menu,          \* what this client does
    held,          \* its functions, which it references
    latest,        \* the result of its latest call, referenced too: one node or a vector
    cubes,         \* the cubes, referenced too
    answer,        \* what the latest call gave and what it should have given
    calls,         \* calls so far
    status         \* "running", or the code given to bdd_error

vars == <<y, menu, held, latest, cubes, answer, calls, status>>

Mean(n) == Models(y.s.k, n)
VariablesOf(set) == {y.s.k.level2var[level] : level \in SetLevels(y.s.k, set)}

----------------------------------------------------------------------------
Init ==
    \E chosen \in Menus :
    LET c == bdd_setvarnum(bdd_init(InitNodes, chosen.order), ProverInit("NONE", 1, <<>>), VarCount)
        s == [k |-> c.k, p |-> c.p, cache |-> BddCache_init(CacheSize), stack |-> <<>>, error |-> ""]
        f == AllMade(s, chosen.functions, LAMBDA t, m : Diagram(t, m, 0))
        q == AllMade(f.s, chosen.cubes,
                     LAMBDA t, u : bdd_ibuildcube(t, u.value, Len(u.variables), u.variables))
        z == [s |-> q.s, pair |-> [u \in {1} |-> NoPair], pairs |-> <<>>, pairsid |-> 0,
              domain |-> <<>>, firstbddvar |-> 0]
    IN  /\ y = IF "pairs" \in chosen.calls THEN bdd_newpair(z, 1) ELSE z
        /\ menu = chosen
        /\ held = f.roots
        /\ latest = <<0>>
        /\ cubes = q.roots
        /\ answer = [got |-> {}, want |-> {}]
        /\ calls = 0
        /\ status = "running"

Called == INITREF(y.s)

Calling(name) ==
    /\ status = "running" /\ name \in menu.calls /\ calls < menu.bound
    /\ calls' = calls + 1
    /\ UNCHANGED <<menu, held, cubes>>

Operands == Range(held \o latest)
Sets == {n \in Range(cubes) : M!Negative(Mean(n)) = {}}

\* The client lets go of the latest result and holds the next, whose elements are
\* referenced.
Holds(s, roots) ==
    /\ y' = [y EXCEPT !.s = [s EXCEPT !.k = FoldLeft(bdd_delref, @, latest)]]
    /\ latest' = roots
    /\ status' = IF s.error = "" THEN "running" ELSE s.error

Keeps(r) == Holds([r.s EXCEPT !.k = bdd_addref(@, r.root)], <<r.root>>)

\* A call whose result is a function that is known on part of the assignments.
Gives(name, result, want, where) ==
    /\ Calling(name)
    /\ \E r \in {result} :
          /\ Keeps(r)
          /\ answer' = IF r.s.error # "" THEN answer
                       ELSE [got |-> Models(r.s.k, r.root) \cap where, want |-> want \cap where]

Unary(name, op(_, _), f, want, where)           == Gives(name, op(Called, f), want, where)
Binary(name, op(_, _, _), f, g, want, where)    == Gives(name, op(Called, f, g), want, where)
Ternary(name, op(_, _, _, _), f, g, h, want, where) ==
    Gives(name, op(Called, f, g, h), want, where)

\* A call whose result is a cube with some property.
Picks(name, result, right(_)) ==
    /\ Calling(name)
    /\ \E r \in {result} :
          /\ Keeps(r)
          /\ answer' = [got |-> right(Models(r.s.k, r.root)), want |-> TRUE]

\* A call that tells something about a diagram.
Tells(name, result, want) ==
    /\ Calling(name)
    /\ \E r \in {result} :
          /\ y' = [y EXCEPT !.s = r.s]
          /\ answer' = [got |-> r.root, want |-> want]
    /\ UNCHANGED <<latest, status>>

All == M!Assignments

Ite(f, g, h) == Ternary("ite", bdd_ite, f, g, h, M!ITE(Mean(f), Mean(g), Mean(h)), All)

CofactorBy(f, cube) ==
    Binary("restrict", bdd_restrict, f, cube, M!Restriction(Mean(f), Mean(cube)), All)

\* The two that narrow a function agree with it on the domain.
Constrain(f, c) == Binary("constrain", bdd_constrain, f, c, Mean(f), Mean(c))
Simplify(f, d)  == Binary("simplify", bdd_simplify, f, d, Mean(f), Mean(d))

Compose(f, g, v) ==
    Ternary("compose", bdd_compose, f, g, v, M!Composition(Mean(f), Mean(g), v), All)

\* The substitution a table of pairs stands for, by the variables.
PairMeaning(k, q) == [v \in 0..(VarCount - 1) |-> Models(k, q.result[bddvar2level(k, v)])]
TopVariable(k, q) ==
    [v \in 0..(VarCount - 1) |->
       Models(k, ithvar(k, k.level2var[LEVEL(k, q.result[bddvar2level(k, v)])]))]

\* A constant has no topmost variable to put in.
Replace(f) ==
    /\ Range(y.pair[1].result) \cap Terminals = {}
    /\ Binary("replace", bdd_replace, f, y.pair[1],
             M!Substitution(Mean(f), TopVariable(y.s.k, y.pair[1])), All)

Veccompose(f) ==
    Binary("veccompose", bdd_veccompose, f, y.pair[1],
          M!Substitution(Mean(f), PairMeaning(y.s.k, y.pair[1])), All)

\* Whether every path to true tests the variables: unique quantification leaves a
\* variable alone that a path does not test.
RECURSIVE PathsTest(_, _, _)
PathsTest(k, n, set) ==
    IF n = 0 THEN TRUE ELSE IF n = 1 THEN set = {}
    ELSE \A child \in {LOW(k, n), HIGH(k, n)} : PathsTest(k, child, set \ {k.level2var[LEVEL(k, n)]})

Combined(op, m1, m2) ==
    LET bit(a, m) == IF a \in m THEN 1 ELSE 0
    IN  {a \in All : oprres(op, bit(a, m1), bit(a, m2)) = 1}

Exist(f, set) ==
    Binary("exist", bdd_exist, f, set, M!Exists(Mean(f), VariablesOf(set)), All)

Forall(f, set) ==
    Binary("forall", bdd_forall, f, set, M!ForAll(Mean(f), VariablesOf(set)), All)

Unique(f, set) ==
    Binary("unique", bdd_unique, f, set, M!Parity(Mean(f), VariablesOf(set)),
          IF PathsTest(y.s.k, f, VariablesOf(set)) THEN All ELSE {})

Quantified(name, op(_, _, _, _, _), f, g, opr, set, want, where) ==
    Gives(name, op(Called, f, g, opr, set), want, where)

Appex(f, g, opr, set) ==
    Quantified("appex", bdd_appex, f, g, opr, set,
          M!Exists(Combined(opr, Mean(f), Mean(g)), VariablesOf(set)), All)

Appall(f, g, opr, set) ==
    Quantified("appall", bdd_appall, f, g, opr, set,
          M!ForAll(Combined(opr, Mean(f), Mean(g)), VariablesOf(set)), All)

Appuni(f, g, opr, set) ==
    Quantified("appuni", bdd_appuni, f, g, opr, set,
          M!Parity(Combined(opr, Mean(f), Mean(g)), VariablesOf(set)),
          IF opr = bddop_and /\ PathsTest(y.s.k, f, VariablesOf(set)) THEN All ELSE {})

Conjoin(f, g) ==
    Ternary("apply", bdd_apply, f, g, bddop_and, Mean(f) \cap Mean(g), All)

Implicant(f, c) == IF f = 0 THEN c = {} ELSE c # {} /\ c \subseteq Mean(f) /\ M!IsCube(c)

Satone(f) == Picks("satone", bdd_satone(Called, f), LAMBDA c : Implicant(f, c))

\* Every variable of the set is fixed, one that f does not depend on as pol says.
Satoneset(f, set, pol) ==
    Picks("satoneset", bdd_satoneset(Called, f, set, pol), LAMBDA c :
        /\ Implicant(f, c)
        /\ c # {} => \A v \in VariablesOf(set) :
              /\ v \in M!Positive(c) \cup M!Negative(c)
              /\ v \notin M!Support(Mean(f)) => (v \in M!Positive(c) <=> pol = 1))

Fullsatone(f) ==
    Picks("satone", bdd_fullsatone(Called, f),
          LAMBDA c : Implicant(f, c) /\ Cardinality(c) <= 1)

----------------------------------------------------------------------------
Order == [i \in 1..VarCount |-> y.s.k.level2var[i - 1]]

\* bdd_support of a constant is false, which is not the cube of no variables.
SupportOf(f) ==
    Gives("support", bdd_support(y.s, f),
          IF f \in Terminals THEN {} ELSE {a \in All : M!Support(Mean(f)) \subseteq a}, All)

ScanSupport(f) ==
    LET made == bdd_support(y.s, f)
    IN  Tells("support", Plainly(made.s, Range(bdd_scanset(made.s.k, made.root))),
              M!Support(Mean(f)))

\* The assignments an answer of bdd_allsat stands for.
Matching(profile) ==
    {a \in All : \A v \in DOMAIN profile : profile[v] \in {DontCare, IF v \in a THEN 1 ELSE 0}}

\* Each satisfying assignment is told once.
Allsat(f, junk) ==
    LET told == bdd_allsat(y.s.k, f, junk)
        sizes == [i \in DOMAIN told |-> Cardinality(Matching(told[i]))]
    IN  Tells("count", Plainly(y.s, <<UNION {Matching(p) : p \in Range(told)},
                                      FoldLeft(+, 0, sizes), Len(told)>>),
              <<Mean(f), Cardinality(Mean(f)), bdd_pathcount(y.s, f).root>>)

Satcount(f) == Tells("count", bdd_satcount(y.s, f), Cardinality(Mean(f)))

\* Over the variables of a set that has those of the function.
Satcountset(f, set) ==
    /\ M!Support(Mean(f)) \subseteq VariablesOf(set) /\ f # 0
    /\ Tells("count", bdd_satcountset(y.s, f, set),
             Cardinality(Mean(f)) \div 2^(VarCount - Cardinality(VariablesOf(set))))

Pathcount(f) == Tells("count", bdd_pathcount(y.s, f), Len(bdd_allsat(y.s.k, f, 0)))

\* bdd_nodecount is bdd_anodecount of one node.
Anodecount(f, g) ==
    Tells("count", Plainly(y.s, bdd_anodecount(y.s.k, {f, g})),
          Cardinality(M!Subfunctions(Mean(f), Order) \cup M!Subfunctions(Mean(g), Order)))

\* A node tests the first variable of the order that its function depends on.
Varprofile(f) ==
    LET first(m) == CHOOSE v \in M!Support(m) : \A w \in M!Support(m) :
                        bddvar2level(y.s.k, v) <= bddvar2level(y.s.k, w)
    IN  Tells("count", Plainly(y.s, bdd_varprofile(y.s.k, f)),
              [v \in 0..(VarCount - 1) |->
                 Cardinality({m \in M!Subfunctions(Mean(f), Order) : first(m) = v})])

Makeset(variables) ==
    Gives("support", BDD_makeset(Called, variables), {a \in All : Range(variables) \subseteq a}, All)

----------------------------------------------------------------------------
(* The table of pairs.                                                     *)

ChangesPairs(z) ==
    /\ Calling("pairs")
    /\ y' = z
    /\ UNCHANGED <<latest, answer, status>>

SetPair(oldvar, newvar) == ChangesPairs(bdd_setpair(y, 1, oldvar, newvar))
SetBddPair(oldvar, n)   == ChangesPairs(bdd_setbddpair(y, 1, oldvar, n))
RenewPair               == ChangesPairs(bdd_newpair(bdd_freepair(y, 1), 1))

----------------------------------------------------------------------------
Next ==
    \/ \E f, g, h \in Operands : Ite(f, g, h)
    \/ \E f \in Operands, cube \in Range(cubes) : CofactorBy(f, cube)
    \/ \E f, g \in Operands : Constrain(f, g) \/ Simplify(f, g) \/ Conjoin(f, g)
    \/ \E f, g \in Operands, v \in 0..(VarCount - 1) : Compose(f, g, v)
    \/ \E f \in Operands : Replace(f) \/ Veccompose(f)
    \/ \E f \in Operands, set \in Sets : Exist(f, set) \/ Forall(f, set) \/ Unique(f, set)
    \/ \E f, g \in Operands, opr \in BinaryOps, set \in Sets :
          Appex(f, g, opr, set) \/ Appall(f, g, opr, set) \/ Appuni(f, g, opr, set)
    \/ \E f \in Operands : Satone(f) \/ Fullsatone(f)
    \/ \E f \in Operands, set \in Sets, pol \in Terminals : Satoneset(f, set, pol)
    \/ \E f \in Operands : SupportOf(f) \/ ScanSupport(f)
    \/ \E f \in Operands, junk \in {DontCare, 0} : Allsat(f, junk)
    \/ \E f \in Operands : Satcount(f) \/ Pathcount(f) \/ Varprofile(f)
    \/ \E f \in Operands, set \in Sets : Satcountset(f, set)
    \/ \E f, g \in Operands : Anodecount(f, g)
    \/ \E c \in Range(menu.cubes) : Makeset(c.variables)
    \/ \E oldvar, newvar \in 0..(VarCount - 1) : SetPair(oldvar, newvar)
    \/ \E oldvar \in 0..(VarCount - 1), n \in Operands : SetBddPair(oldvar, n)
    \/ RenewPair

Spec == Init /\ [][Next]_vars

----------------------------------------------------------------------------
(* Properties.                                                             *)

\* The latest call gave what it should have given, whatever the calls before it
\* left in the cache and whatever was collected or moved during the call.
AnswersRight == answer.got = answer.want

\* What an entry of the cache says of the nodes it names.
EntryRight(e) ==
    LET k == y.s.k
        variables(set) == VariablesOf(set)
        u == CHOOSE v \in DOMAIN y.pair : TRUE
        pair(id) == y.pair[u].id = id
        agrees(c) == Mean(e.res) \cap c = Mean(e.a) \cap c
        count == e.res * 2^LEVEL(k, e.a)
    IN  CASE e.op = bddop_not -> Mean(e.res) = All \ Mean(e.a)
          [] e.op = bddop_ite -> Mean(e.res) = M!ITE(Mean(e.a), Mean(e.b), Mean(e.c))
          [] e.op = bddop_simplify -> agrees(Mean(e.b))
          [] e.op = bddop_misc -> CASE e.c = CACHEID_CONSTRAIN -> agrees(Mean(e.b))
                                    [] e.c = CACHEID_SATCOU -> count = Cardinality(Mean(e.a))
                                    [] e.c = CACHEID_PATHCOU -> TRUE
                                    [] OTHER -> Mean(e.res) = M!Restriction(Mean(e.a), Mean(e.c \div 8))
          [] e.op = bddop_replace ->
               CASE e.c % 4 = CACHEID_COMPOSE ->
                      Mean(e.res) = M!Composition(Mean(e.a), Mean(e.b), k.level2var[e.c \div 4])
                 [] e.c % 4 = CACHEID_REPLACE /\ pair(e.c \div 4) ->
                      Mean(e.res) = M!Substitution(Mean(e.a), TopVariable(k, y.pair[u]))
                 [] e.c % 4 = CACHEID_VECCOMPOSE /\ pair(e.c \div 4) ->
                      Mean(e.res) = M!Substitution(Mean(e.a), PairMeaning(k, y.pair[u]))
                 [] OTHER -> TRUE
          [] e.op = bddop_quant ->
               LET kind == e.c % 8
                   set == IF kind \in {CACHEID_APPEX, CACHEID_APPAL, CACHEID_APPUN}
                          THEN e.c \div 256 ELSE e.c \div 8
               IN  CASE kind \in {CACHEID_EXIST, CACHEID_APPEX} ->
                          Mean(e.res) = M!Exists(Mean(e.a), variables(set))
                     [] kind \in {CACHEID_FORALL, CACHEID_APPAL} ->
                          Mean(e.res) = M!ForAll(Mean(e.a), variables(set))
                     [] OTHER -> TRUE
          [] e.op = bddop_appex ->
               LET op == (e.c \div 2) % 16
                   both == Combined(op, Mean(e.a), Mean(e.b))
               IN  CASE e.c % 2 = 0 -> Mean(e.res) = M!Exists(both, variables(e.c \div 32))
                     [] "appall" \in menu.calls ->
                          Mean(e.res) = M!ForAll(both, variables(e.c \div 32))
                     [] OTHER -> TRUE
          [] OTHER -> Mean(e.res) = Combined(e.op, Mean(e.a), Mean(e.b))

\* A remembered result is right for the nodes that are now in the entries it names,
\* and for what its variable set or its table of pairs holds now: identifiers never
\* outlive what they stand for (cache.c, bdd_gbc, update_pairsid).
CacheSound ==
    status = "running" => \A i \in DOMAIN y.s.cache :
        y.s.cache[i].a # -1 =>
            y.s.cache[i].a \in InUse(y.s.k) \cup Terminals /\ EntryRight(y.s.cache[i])

\* A node's references are those the client holds, those of the table of pairs and
\* those of the domains: an operation leaves none behind, and none is lost when pairs
\* change.
ReferencesExact ==
    status = "running" => \A n \in InUse(y.s.k) \ Range(y.s.k.varset) :
        LET ofPairs == {<<u, level>> \in (DOMAIN y.pair) \X (0..(VarCount - 1)) :
                          y.pair[u] # NoPair /\ y.pair[u].result[level] = n}
            ofClient == {i \in DOMAIN (held \o latest) : (held \o latest)[i] = n}
            ofCubes == {i \in DOMAIN cubes : cubes[i] = n}
            ofDomains == {d \in DOMAIN y.domain : y.domain[d].var = n}
        IN  y.s.k.node[n].refcou = Cardinality(ofPairs) + Cardinality(ofClient)
                                     + Cardinality(ofCubes) + Cardinality(ofDomains)
============================================================================
