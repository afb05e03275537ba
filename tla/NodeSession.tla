---------------------------- MODULE NodeSession ----------------------------
(***************************************************************************)
(* The unique table under a client that builds nodes the way the operators *)
(* of bddop.c do: operands and intermediate results sit on the reference   *)
(* stack when bdd_makenode is called, and the finished result is           *)
(* referenced before the stack is cleared for the next operation.          *)
(***************************************************************************)
EXTENDS NodeTable

CONSTANTS
    VarCount,      \* variables of the CNF file, numbered from 1
    InitNodes,     \* initial size of the table
    Setups,        \* what the client starts with, records of the proof format (type),
                   \* the limit on the nodes (limit, 0 for none) and the variable of
                   \* each level (order); level 0 and variable 0 are unused
    MaxStack,      \* bound on the reference stack, for each proof format
    MaxHeld,       \* bound on the nodes referenced, besides the variables
    MaxProduced    \* bound on the nodes produced, besides the variables

\* The size asked for is 2 or more (prover_init asks for hundreds at least), and as Bertrand's
\* postulate says, there is a prime of the size the table starts with.  Each variable
\* is on a level.  The identifiers of all defining clauses are C ints, and INT_MAX is taken.
ASSUME SessionAssumption ==
    /\ VarCount \in Nat /\ MaxProduced \in Nat
    /\ 4 * (2 * (VarCount + 1) + MaxProduced) < TAUTOLOGY
    /\ InitNodes \in Nat /\ InitNodes >= 2
    /\ \E m \in InitNodes..(2 * InitNodes + 3) : m % 2 = 1 /\ IsPrime(m)
    /\ \A setup \in Setups :
          /\ setup.type \in ProofTypes
          /\ setup.limit \in Nat
          /\ setup.order[0] = 0
          /\ \A l \in 1..VarCount : setup.order[l] \in 1..VarCount
          /\ \A v \in 0..VarCount : \E l \in 0..VarCount : setup.order[l] = v

VARIABLES
    kernel,        \* the table
    prover,        \* the generator
    checker,       \* what a checker of the proof file knows
    stack,         \* bddrefstack up to bddrefstacktop
    status         \* "running", "done", or the code given to bdd_error

vars == <<kernel, prover, checker, stack, status>>

File == INSTANCE Proof WITH InputClauses <- <<>>, out <- prover.out

VariableNodes == Range(kernel.varset)
Bottom == {n \in VariableNodes : LEVEL(kernel, n) = VarCount /\ LOW(kernel, n) = 0}
Held == Referenced(kernel) \ VariableNodes

\* The nodes the client starts from: false, the lowest variable, what it holds.
Known == {0} \cup Bottom \cup Held

----------------------------------------------------------------------------
Init ==
    \E setup \in Setups :
    LET c == bdd_setvarnum(bdd_init(InitNodes, setup.order),
                           ProverInit(setup.type, VarCount, <<>>), VarCount + 1)
    IN  /\ c.error = ""     \* otherwise the program has stopped
        /\ kernel = bdd_setmaxnodenum(c.k, setup.limit)
        /\ prover = Quiet(c.p)
        /\ checker = File!AbsorbAll(File!NewChecker, c.p.out)
        /\ stack = <<>>
        /\ status = "running"

Observe == checker' = File!AbsorbAll(checker, prover'.out)

\* The step of an operator: the results low and high of its recursive calls are
\* on top of the stack during the call, over the results still waiting to be
\* combined; keep of these go on waiting, under the new result.
Build(level, low, high, keep) ==
    LET r == bdd_makenode(kernel, Quiet(prover), level, low, high, stack \o <<low, high>>)
    IN  /\ status = "running"
        /\ level < LEVEL(kernel, low) /\ level < LEVEL(kernel, high)
        /\ kernel.produced < Cardinality(VariableNodes) + MaxProduced
        /\ kernel' = r.k
        /\ prover' = r.p
        /\ stack' = IF r.error # "" THEN stack ELSE Append(SubSeq(stack, 1, keep), r.n)
        /\ status' = IF r.error # "" THEN r.error ELSE status
        /\ Observe

\* The operation returns and its result is referenced.
Return ==
    /\ status = "running"
    /\ Len(stack) = 1
    /\ Cardinality(Held) < MaxHeld
    /\ kernel' = bdd_addref(kernel, Last(stack))
    /\ stack' = <<>>
    /\ prover' = Quiet(prover)
    /\ UNCHANGED <<checker, status>>

\* Between operations a client lets go of a node.
Release(n) ==
    /\ status = "running"
    /\ stack = <<>>
    /\ kernel' = bdd_delref(kernel, n)
    /\ prover' = Quiet(prover)
    /\ UNCHANGED <<checker, stack, status>>

Done ==
    /\ status = "running"
    /\ stack = <<>>
    /\ prover' = DeleteAllNodes(kernel, Quiet(prover))
    /\ status' = "done"
    /\ Observe
    /\ UNCHANGED <<kernel, stack>>

Next ==
    \/ \E level \in 1..VarCount, low, high \in Known \cup Range(stack) :
          \E keep \in {0, Len(stack)} : keep < MaxStack[prover.type] /\ Build(level, low, high, keep)
    \/ Return
    \/ \E n \in Held : Release(n)
    \/ Done

Spec == Init /\ [][Next]_vars

----------------------------------------------------------------------------
(* Properties.                                                             *)

Live == InUse(kernel)

\* The diagrams are reduced and shared: no node has equal children, no two nodes
\* are alike, levels grow downwards, and no node is left above a collected one; each is
\* found where bdd_makenode looks for it, however often the table was swept and
\* resized since (bdd_makenode, bdd_gbc, bdd_gbc_rehash).
Canonical ==
    \A n \in Live :
        /\ {LOW(kernel, n), HIGH(kernel, n)} \subseteq Live \cup Terminals
        /\ LOW(kernel, n) # HIGH(kernel, n)
        /\ LEVEL(kernel, n) < LEVEL(kernel, LOW(kernel, n))
        /\ LEVEL(kernel, n) < LEVEL(kernel, HIGH(kernel, n))
        /\ Lookup(kernel, LEVEL(kernel, n), LOW(kernel, n), HIGH(kernel, n)) = n
        /\ \A m \in Live :
              Matches(kernel, m, LEVEL(kernel, n), LOW(kernel, n), HIGH(kernel, n)) => m = n

\* The free list holds each unused entry once, and bddfreenum counts them.
FreeListExact ==
    LET free == Chain(kernel, kernel.freepos)
    IN  /\ Range(free) = DOMAIN kernel.node \ (Terminals \cup Live)
        /\ Len(free) = Cardinality(Range(free))
        /\ kernel.freenum = Len(free)

\* What the client can reach stays the node it was: no entry is collected or
\* reused under a reference or under the operation in progress.
ReachableUntouched ==
    [][\A n \in Reachable(kernel, Range(stack) \cup Referenced(kernel)) :
          Matches(kernel', n, LEVEL(kernel, n), LOW(kernel, n), HIGH(kernel, n))
          /\ XVAR(kernel', n) = XVAR(kernel, n)]_vars

\* The proof file holds the defining clauses of the live nodes and nothing else.
\* Each says n = ITE(v, high, low) in the extension variables of its children.
LiveNodesDefined ==
    prover.type # "NONE" /\ status = "running" =>
        /\ DOMAIN checker.db = UNION {Range(DefiningIds(kernel, n)) :
                                         n \in {m \in Live : LEVEL(kernel, m) > 0}}
        /\ \A n \in Live : LEVEL(kernel, n) > 0 =>
             \A i \in 1..4 :
                LET id == bdd_dclause(kernel, n, DclauseTypes[i])
                IN  id # TAUTOLOGY =>
                      checker.db[id] = CleanClause(DefiningClause(DclauseTypes[i],
                          XVAR(kernel, n), kernel.level2var[LEVEL(kernel, n)],
                          XVAR(kernel, HIGH(kernel, n)), XVAR(kernel, LOW(kernel, n))))

\* The program gives up for want of nodes only when the client can reach every
\* entry: a collection comes first and frees the others (bdd_makenode).
GivesUpOnlyWhenFull ==
    status = "BDD_NODENUM" =>
        Reachable(kernel, Range(stack) \cup Referenced(kernel))
            = DOMAIN kernel.node \ Terminals
============================================================================
