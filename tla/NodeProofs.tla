----------------------------- MODULE NodeProofs -----------------------------
(***************************************************************************)
(* Proofs about NodeSession: the node table stays sound through any number *)
(* of collections and resizes, for any number of variables, any initial    *)
(* size and any limit on the nodes, and the proof file has the definitions *)
(* of its nodes and nothing else.                                          *)
(*                                                                         *)
(* The invariant is Table: every bucket's chain and the free list are      *)
(* lists linked through the next fields (Linked of Induction), which have  *)
(* the nodes that hash to the bucket, and the unused entries, each once.   *)
(* First each helper of the table is shown to keep that, by induction over *)
(* the sweep, the chain or the levels; then bdd_makenode, in its cases,    *)
(* with what it leaves alone (Made); then the start; then the session.     *)
(*                                                                         *)
(* The second half adds the proof file.  Tidy says that what a checker     *)
(* knows after the lines printed (Seen) is the definitions of the nodes in *)
(* use (Recorded), each under identifiers of its own, and that those of    *)
(* level 0, which have none, are there for good (Anchored).  Each line is  *)
(* read in turn: a deletion takes the clauses of the nodes collected, a    *)
(* new node adds its four (DefineRight), and bdd_makenode is their         *)
(* composition (MakenodeTidy).                                             *)
(***************************************************************************)
EXTENDS NodeSession, Induction

----------------------------------------------------------------------------
(* The table as a record, and what its entries hold.                       *)

Places(k) == 0..(k.size - 1)

EntryShape(e) ==
    /\ e = [level |-> e.level, low |-> e.low, high |-> e.high, hash |-> e.hash,
            next |-> e.next, refcou |-> e.refcou, xvar |-> e.xvar, dclause |-> e.dclause]
    /\ e.level \in Nat /\ e.low \in Int /\ e.high \in Int
    /\ e.hash \in Nat /\ e.next \in Nat /\ e.refcou \in Nat

Fields(k) ==
    k = [node |-> k.node, size |-> k.size, freepos |-> k.freepos, freenum |-> k.freenum,
         produced |-> k.produced, resized |-> k.resized, maxnodes |-> k.maxnodes,
         varnum |-> k.varnum, varset |-> k.varset, level2var |-> k.level2var,
         ready |-> k.ready, nextreorder |-> k.nextreorder]

Shape(k) ==
    /\ Fields(k)
    /\ k.size \in Nat \ {0, 1}
    /\ k.node = [n \in Places(k) |-> k.node[n]]
    /\ \A n \in Places(k) : EntryShape(k.node[n])
    /\ \A n \in Places(k) : k.node[n].hash \in Places(k) /\ k.node[n].next \in Places(k)
    /\ k.freepos \in Places(k) /\ k.freenum \in Nat

\* What an entry says about its node: everything but the links.
SameNode(e, f) ==
    /\ e.level = f.level /\ e.low = f.low /\ e.high = f.high
    /\ e.refcou = f.refcou /\ e.xvar = f.xvar /\ e.dclause = f.dclause

\* What it says about the node and its definition.
SameEntry(e, f) ==
    /\ e.level = f.level /\ e.low = f.low /\ e.high = f.high
    /\ e.xvar = f.xvar /\ e.dclause = f.dclause

\* These nodes and their definitions are in u what they were in k, and those that were
\* there for good still are.
Survive(k, u, nodes) ==
    /\ u.level2var = k.level2var
    /\ \A n \in nodes :
         /\ SameEntry(k.node[n], u.node[n])
         /\ k.node[n].refcou = MAXREF => u.node[n].refcou = MAXREF

\* What collecting and growing leave alone.
SameRest(k, u) ==
    /\ u.produced = k.produced /\ u.maxnodes = k.maxnodes /\ u.varnum = k.varnum
    /\ u.varset = k.varset /\ u.level2var = k.level2var
    /\ u.ready = k.ready /\ u.nextreorder = k.nextreorder

Hash(k, n) == NODEHASH(k.size, LEVEL(k, n), LOW(k, n), HIGH(k, n))

NextOf(k) == [n \in Places(k) |-> k.node[n].next]

\* Every bucket's chain has the nodes of in that hash to it.
Hashed(k, in) ==
    \A b \in Places(k) : Linked(NextOf(k), 0, k.node[b].hash, {n \in in : Hash(k, n) = b})

\* The free list has the entries of free, and they are counted.
Freed(k, free) ==
    Linked(NextOf(k), 0, k.freepos, free) /\ k.freenum = Cardinality(free)

\* A node hashes to a bucket of the table (NODEHASH).
LEMMA HashBound ==
  ASSUME NEW size \in Nat \ {0}, NEW l \in Int, NEW lo \in Int, NEW hi \in Int
  PROVE  NODEHASH(size, l, lo, hi) \in 0..(size - 1)
<1>1. \A a, b \in Int : PAIR(a, b) \in Int
  <2> TAKE a, b \in Int
  <2> DEFINE c == (a + b) * (a + b + 1)
  <2>1. c \in Int OBVIOUS
  <2> HIDE DEF c
  <2>2. c \div 2 \in Int BY <2>1
  <2> QED BY <2>2 DEF PAIR, c
<1> DEFINE t == TRIPLE(l, lo, hi)
<1>2. t \in Int BY <1>1 DEF TRIPLE
<1> HIDE DEF t
<1>3. t % size \in 0..(size - 1) BY <1>2
<1> QED BY <1>3 DEF NODEHASH, t

\* Linking a node puts it in front of the chain of its bucket and changes nothing else.
LEMMA LinkRight ==
  ASSUME NEW k, Shape(k), NEW n \in Places(k)
  PROVE  /\ Hash(k, n) \in Places(k)
         /\ Shape(Link(k, n)) /\ SameRest(k, Link(k, n))
         /\ Link(k, n).size = k.size /\ Link(k, n).resized = k.resized
         /\ Link(k, n).freepos = k.freepos /\ Link(k, n).freenum = k.freenum
         /\ \A m \in Places(k) :
              /\ SameNode(k.node[m], Link(k, n).node[m])
              /\ Link(k, n).node[m].next = IF m = n THEN k.node[Hash(k, n)].hash ELSE k.node[m].next
              /\ Link(k, n).node[m].hash = IF m = Hash(k, n) THEN n ELSE k.node[m].hash
<1> DEFINE b == Hash(k, n)
           u == Link(k, n)
           mid == [k.node EXCEPT ![n].next = k.node[b].hash]
           node == [mid EXCEPT ![b].hash = n]
<1>1. b \in Places(k)
  <2>1. k.size \in Nat \ {0} /\ EntryShape(k.node[n]) BY DEF Shape
  <2>2. LEVEL(k, n) \in Int /\ LOW(k, n) \in Int /\ HIGH(k, n) \in Int
    BY <2>1 DEF EntryShape, LEVEL, LOW, HIGH
  <2> QED BY <2>1, <2>2, HashBound DEF Hash, Places
<1>2. u = [node |-> node, size |-> k.size, freepos |-> k.freepos, freenum |-> k.freenum,
           produced |-> k.produced, resized |-> k.resized, maxnodes |-> k.maxnodes,
           varnum |-> k.varnum, varset |-> k.varset, level2var |-> k.level2var,
           ready |-> k.ready, nextreorder |-> k.nextreorder]
  <2> DEFINE r == [k EXCEPT !.node = mid]
  <2>1. u = [r EXCEPT !.node = [@ EXCEPT ![b].hash = n]]
    <3>1. u = [k EXCEPT !.node[n].next = k.node[b].hash, !.node[b].hash = n] BY DEF Link, Hash
    <3> QED BY <3>1
  <2>2. Fields(k) BY DEF Shape
  <2> HIDE DEF b, u, mid, node
  <2>3. r = [node |-> mid, size |-> k.size, freepos |-> k.freepos, freenum |-> k.freenum,
             produced |-> k.produced, resized |-> k.resized, maxnodes |-> k.maxnodes,
             varnum |-> k.varnum, varset |-> k.varset, level2var |-> k.level2var,
             ready |-> k.ready, nextreorder |-> k.nextreorder]
    BY <2>2 DEF Fields
  <2>4. u = [r EXCEPT !.node = [r.node EXCEPT ![b].hash = n]] BY <2>1
  <2> HIDE DEF r
  <2>5. r.node = mid BY <2>3
  <2>6. u = [r EXCEPT !.node = node] BY <2>4, <2>5 DEF node
  <2> QED BY <2>3, <2>6
<1> HIDE DEF b, u
<1>3. mid = [m \in Places(k) |-> IF m = n THEN [k.node[m] EXCEPT !.next = k.node[b].hash]
                                 ELSE k.node[m]]
  BY DEF Shape
<1> HIDE DEF mid
<1>4. node = [m \in Places(k) |-> IF m = b THEN [mid[m] EXCEPT !.hash = n] ELSE mid[m]]
  BY <1>1, <1>3
<1> HIDE DEF node
<1>5. ASSUME NEW m \in Places(k)
      PROVE  /\ EntryShape(mid[m]) /\ SameNode(k.node[m], mid[m])
             /\ mid[m].next = IF m = n THEN k.node[b].hash ELSE k.node[m].next
             /\ mid[m].hash = k.node[m].hash
  <2>1. EntryShape(k.node[m]) /\ k.node[b].hash \in Nat BY <1>1 DEF Shape, EntryShape
  <2>2. CASE m = n
    <3>1. mid[m] = [k.node[m] EXCEPT !.next = k.node[b].hash] BY <1>3, <2>2
    <3> QED BY <2>1, <2>2, <3>1 DEF EntryShape, SameNode
  <2>3. CASE m # n BY <1>3, <2>1, <2>3 DEF SameNode
  <2> QED BY <2>2, <2>3
<1>6. ASSUME NEW m \in Places(k)
      PROVE  /\ EntryShape(node[m]) /\ SameNode(mid[m], node[m])
             /\ node[m].next = mid[m].next
             /\ node[m].hash = IF m = b THEN n ELSE mid[m].hash
  <2>1. n \in Nat BY DEF Places, Shape
  <2>2. CASE m = b
    <3>1. node[m] = [mid[m] EXCEPT !.hash = n] BY <1>4, <2>2
    <3>2. EntryShape(mid[m]) BY <1>5
    <3> QED BY <2>1, <2>2, <3>1, <3>2 DEF EntryShape, SameNode
  <2>3. CASE m # b BY <1>4, <1>5, <2>3 DEF SameNode
  <2> QED BY <2>2, <2>3
<1>7. node = [m \in Places(k) |-> node[m]] BY <1>4
<1>8. Shape(u)
  <2>1. /\ u.node = node /\ u.size = k.size
        /\ u.freepos = k.freepos /\ u.freenum = k.freenum
    BY <1>2
  <2>2. Fields(u) BY <1>2, <2>1 DEF Fields
  <2>3. Places(u) = Places(k) BY <2>1 DEF Places
  <2>4. \A m \in Places(u) : EntryShape(u.node[m]) BY <1>6, <2>1, <2>3
  <2>5. u.node = [m \in Places(u) |-> u.node[m]] BY <1>7, <2>1, <2>3
  <2>6. \A m \in Places(k) : k.node[m].hash \in Places(k) /\ k.node[m].next \in Places(k)
    BY DEF Shape
  <2>7. \A m \in Places(u) : u.node[m].hash \in Places(u) /\ u.node[m].next \in Places(u)
    BY <1>1, <1>5, <1>6, <2>1, <2>3, <2>6
  <2>8. k.size \in Nat \ {0, 1} /\ k.freepos \in Places(k) /\ k.freenum \in Nat BY DEF Shape
  <2> HIDE DEF Places
  <2> QED BY <2>1, <2>2, <2>3, <2>4, <2>5, <2>7, <2>8 DEF Shape
<1> QED BY <1>1, <1>2, <1>5, <1>6, <1>8 DEF SameNode, SameRest, b, u

\* Freeing an entry puts it in front of the free list and changes nothing else.
LEMMA UnlinkRight ==
  ASSUME NEW k, Shape(k), NEW n \in Places(k)
  PROVE  /\ Shape(Unlink(k, n)) /\ SameRest(k, Unlink(k, n))
         /\ Unlink(k, n).size = k.size /\ Unlink(k, n).resized = k.resized
         /\ Unlink(k, n).freepos = n /\ Unlink(k, n).freenum = k.freenum + 1
         /\ \A m \in Places(k) :
              /\ SameNode(k.node[m], Unlink(k, n).node[m])
              /\ Unlink(k, n).node[m].next = IF m = n THEN k.freepos ELSE k.node[m].next
              /\ Unlink(k, n).node[m].hash = k.node[m].hash
<1> DEFINE u == Unlink(k, n)
           node == [k.node EXCEPT ![n].next = k.freepos]
<1>1. u = [node |-> node, size |-> k.size, freepos |-> n, freenum |-> k.freenum + 1,
           produced |-> k.produced, resized |-> k.resized, maxnodes |-> k.maxnodes,
           varnum |-> k.varnum, varset |-> k.varset, level2var |-> k.level2var,
           ready |-> k.ready, nextreorder |-> k.nextreorder]
  <2>1. Fields(k) BY DEF Shape
  <2>2. u = [k EXCEPT !.node = node, !.freepos = n, !.freenum = k.freenum + 1] BY DEF Unlink
  <2> HIDE DEF u, node
  <2> QED BY <2>1, <2>2 DEF Fields
<1> HIDE DEF u
<1>2. node = [m \in Places(k) |-> IF m = n THEN [k.node[m] EXCEPT !.next = k.freepos]
                                  ELSE k.node[m]]
  BY DEF Shape
<1> HIDE DEF node
<1>3. ASSUME NEW m \in Places(k)
      PROVE  /\ EntryShape(node[m]) /\ SameNode(k.node[m], node[m])
             /\ node[m].next = IF m = n THEN k.freepos ELSE k.node[m].next
             /\ node[m].hash = k.node[m].hash
  <2>1. EntryShape(k.node[m]) /\ k.freepos \in Nat
    <3>1. k.size \in Nat /\ k.freepos \in Places(k) /\ EntryShape(k.node[m]) BY DEF Shape
    <3> QED BY <3>1 DEF Places
  <2>2. CASE m = n
    <3>1. node[m] = [k.node[m] EXCEPT !.next = k.freepos] BY <1>2, <2>2
    <3> QED BY <2>1, <2>2, <3>1 DEF EntryShape, SameNode
  <2>3. CASE m # n BY <1>2, <2>1, <2>3 DEF SameNode
  <2> QED BY <2>2, <2>3
<1>4. node = [m \in Places(k) |-> node[m]] BY <1>2
<1>5. Shape(u)
  <2>1. /\ u.node = node /\ u.size = k.size
        /\ u.freepos = n /\ u.freenum = k.freenum + 1
    BY <1>1
  <2>2. Fields(u) BY <1>1, <2>1 DEF Fields
  <2>3. Places(u) = Places(k) BY <2>1 DEF Places
  <2>4. \A m \in Places(u) : EntryShape(u.node[m]) BY <1>3, <2>1, <2>3
  <2>5. u.node = [m \in Places(u) |-> u.node[m]] BY <1>4, <2>1, <2>3
  <2>6. k.size \in Nat \ {0, 1} /\ k.freenum \in Nat BY DEF Shape
  <2>7. k.freenum + 1 \in Nat BY <2>6
  <2>8. \A m \in Places(k) : k.node[m].hash \in Places(k) /\ k.node[m].next \in Places(k)
    BY DEF Shape
  <2>9. \A m \in Places(u) : u.node[m].hash \in Places(u) /\ u.node[m].next \in Places(u)
    <3>1. k.freepos \in Places(k) BY DEF Shape
    <3> QED BY <1>3, <2>1, <2>3, <2>8, <3>1
  <2> HIDE DEF Places
  <2> QED BY <2>1, <2>2, <2>3, <2>4, <2>5, <2>6, <2>7, <2>9 DEF Shape
<1> QED BY <1>1, <1>3, <1>5 DEF SameRest, u

\* Relinking changes no node.
Relinked(k, u) ==
    /\ Shape(u) /\ SameRest(k, u) /\ u.size = k.size /\ u.resized = k.resized
    /\ \A m \in Places(k) : SameNode(k.node[m], u.node[m])

\* Relinking leaves where every node hashes.
LEMMA RelinkedHash ==
  ASSUME NEW k, NEW u, Relinked(k, u), NEW n \in Places(k)
  PROVE  Hash(u, n) = Hash(k, n)
BY DEF Relinked, SameNode, Hash, LEVEL, LOW, HIGH

\* The links as a function.
LEMMA NextIs ==
  ASSUME NEW k, NEW n \in Places(k)
  PROVE  NextOf(k)[n] = k.node[n].next
BY DEF NextOf

\* A node put in front of the chain of its bucket is found there with the others.
LEMMA LinkHashed ==
  ASSUME NEW k, Shape(k), NEW in \in SUBSET (Places(k) \ {0}),
         NEW free \in SUBSET (Places(k) \ {0}), NEW n \in Places(k) \ (in \cup free), n # 0,
         Hashed(k, in), Freed(k, free)
  PROVE  /\ Relinked(k, Link(k, n))
         /\ Hashed(Link(k, n), in \cup {n})
         /\ Freed(Link(k, n), free)
<1> DEFINE u == Link(k, n)
           at(b) == {m \in in : Hash(k, m) = b}
<1>1. /\ Hash(k, n) \in Places(k)
      /\ Relinked(k, u)
      /\ u.size = k.size /\ u.freepos = k.freepos /\ u.freenum = k.freenum
      /\ \A m \in Places(k) :
           /\ u.node[m].next = IF m = n THEN k.node[Hash(k, n)].hash ELSE k.node[m].next
           /\ u.node[m].hash = IF m = Hash(k, n) THEN n ELSE k.node[m].hash
  BY LinkRight DEF Relinked
<1> HIDE DEF u
<1>2. Places(u) = Places(k) BY <1>1 DEF Places
<1>3. Places(k) \subseteq Nat BY DEF Shape, Places
<1>4. \A m \in Places(k) \ {n} : NextOf(u)[m] = NextOf(k)[m] BY <1>1, <1>2, NextIs
<1>5. ASSUME NEW b \in Places(k)
      PROVE  Linked(NextOf(u), 0, u.node[b].hash, {m \in in \cup {n} : Hash(u, m) = b})
  <2>1. Linked(NextOf(k), 0, k.node[b].hash, at(b)) BY DEF Hashed
  <2>2. \A m \in at(b) : NextOf(u)[m] = NextOf(k)[m] BY <1>4
  <2>3. CASE b = Hash(k, n)
    <3>1. {m \in in \cup {n} : Hash(u, m) = b} = at(b) \cup {n} BY <1>1, <2>3, RelinkedHash
    <3>2. u.node[b].hash = n /\ NextOf(u)[n] = k.node[b].hash BY <1>1, <1>2, <2>3, NextIs
    <3>3. at(b) \in SUBSET Nat /\ n \in Nat \ at(b) BY <1>3
    <3> HIDE DEF at
    <3>4. Linked(NextOf(u), 0, n, at(b) \cup {n})
      BY <2>1, <2>2, <3>2, <3>3, LinkedMore
    <3> QED BY <3>1, <3>2, <3>4
  <2>4. CASE b # Hash(k, n)
    <3>1. {m \in in \cup {n} : Hash(u, m) = b} = at(b) BY <1>1, <2>4, RelinkedHash
    <3>2. u.node[b].hash = k.node[b].hash BY <1>1, <2>4
    <3> HIDE DEF at
    <3>3. Linked(NextOf(u), 0, k.node[b].hash, at(b)) BY <2>1, <2>2, LinkedSame
    <3> QED BY <3>1, <3>2, <3>3
  <2> QED BY <2>3, <2>4
<1>6. Freed(u, free)
  <2>1. Linked(NextOf(k), 0, k.freepos, free) BY DEF Freed
  <2>2. \A m \in free : NextOf(u)[m] = NextOf(k)[m] BY <1>4
  <2>3. Linked(NextOf(u), 0, k.freepos, free) BY <2>1, <2>2, LinkedSame
  <2> QED BY <1>1, <2>3 DEF Freed
<1> QED BY <1>1, <1>2, <1>5, <1>6 DEF Hashed, u

\* An entry put in front of the free list is free, and counted, with the others.
LEMMA UnlinkFreed ==
  ASSUME NEW k, Shape(k), NEW in \in SUBSET (Places(k) \ {0}),
         NEW free \in SUBSET (Places(k) \ {0}), NEW n \in Places(k) \ (in \cup free), n # 0,
         Hashed(k, in), Freed(k, free)
  PROVE  /\ Relinked(k, Unlink(k, n))
         /\ Hashed(Unlink(k, n), in)
         /\ Freed(Unlink(k, n), free \cup {n})
<1> DEFINE u == Unlink(k, n)
           at(b) == {m \in in : Hash(k, m) = b}
<1>1. /\ Relinked(k, u)
      /\ u.size = k.size /\ u.freepos = n /\ u.freenum = k.freenum + 1
      /\ \A m \in Places(k) :
           /\ u.node[m].next = IF m = n THEN k.freepos ELSE k.node[m].next
           /\ u.node[m].hash = k.node[m].hash
  BY UnlinkRight DEF Relinked
<1> HIDE DEF u
<1>2. Places(u) = Places(k) BY <1>1 DEF Places
<1>3. Places(k) \subseteq Nat /\ IsFiniteSet(Places(k))
  <2>1. k.size - 1 \in Int /\ 0 \in Int BY DEF Shape
  <2> QED BY <2>1, FS_Interval DEF Places
<1>4. \A m \in Places(k) \ {n} : NextOf(u)[m] = NextOf(k)[m] BY <1>1, <1>2, NextIs
<1>5. ASSUME NEW b \in Places(k)
      PROVE  Linked(NextOf(u), 0, u.node[b].hash, {m \in in : Hash(u, m) = b})
  <2>1. Linked(NextOf(k), 0, k.node[b].hash, at(b)) BY DEF Hashed
  <2>2. \A m \in at(b) : NextOf(u)[m] = NextOf(k)[m] BY <1>4
  <2>3. {m \in in : Hash(u, m) = b} = at(b) BY <1>1, RelinkedHash
  <2>4. u.node[b].hash = k.node[b].hash BY <1>1
  <2> HIDE DEF at
  <2>5. Linked(NextOf(u), 0, k.node[b].hash, at(b)) BY <2>1, <2>2, LinkedSame
  <2> QED BY <2>3, <2>4, <2>5
<1>6. Freed(u, free \cup {n})
  <2>1. Linked(NextOf(k), 0, k.freepos, free) BY DEF Freed
  <2>2. \A m \in free : NextOf(u)[m] = NextOf(k)[m] BY <1>4
  <2>3. NextOf(u)[n] = k.freepos BY <1>1, <1>2, NextIs
  <2>4. free \in SUBSET Nat /\ n \in Nat \ free BY <1>3
  <2>5. Linked(NextOf(u), 0, n, free \cup {n}) BY <2>1, <2>2, <2>3, <2>4, LinkedMore
  <2>6. IsFiniteSet(free) BY <1>3, FS_Subset
  <2>7. Cardinality(free \cup {n}) = Cardinality(free) + 1 BY <2>6, FS_AddElement
  <2> QED BY <1>1, <2>5, <2>7 DEF Freed
<1>7. Hashed(u, in) BY <1>2, <1>5 DEF Hashed
<1> QED BY <1>1, <1>6, <1>7 DEF u

----------------------------------------------------------------------------
(* The sweep of bdd_gbc and bdd_gbc_rehash.                                *)

Others(size, stay) == (2..(size - 1)) \ stay

\* The table u that rebuilding k, for the nodes in stay, has reached when the entries
\* from one on are linked.
Rebuilt(k, size, stay, one, u) ==
    /\ Shape(u) /\ SameRest(k, u) /\ u.size = size /\ u.resized = k.resized
    /\ \A m \in stay \cup Terminals : SameNode(k.node[m], u.node[m])
    /\ \A m \in Others(size, stay) : u.node[m].low = -1
    /\ Hashed(u, {m \in stay : m >= one})
    /\ Freed(u, {m \in Others(size, stay) : m >= one})

SweepStep(n, stay, above) == IF n \in stay THEN Link(above, n) ELSE Unlink(above, n)

\* One more entry swept, when the state after it is known.
LEMMA RebuiltOn ==
  ASSUME NEW k, NEW size, NEW stay, NEW one, NEW above, Rebuilt(k, size, stay, one, above),
         stay \cup Terminals \subseteq Places(above), Others(size, stay) \subseteq Places(above),
         NEW u, Relinked(above, u), NEW n,
         Hashed(u, {m \in stay : m >= n}), Freed(u, {m \in Others(size, stay) : m >= n})
  PROVE  Rebuilt(k, size, stay, n, u)
<1>1. /\ Shape(u) /\ SameRest(above, u) /\ u.size = above.size /\ u.resized = above.resized
      /\ \A m \in Places(above) : SameNode(above.node[m], u.node[m])
  BY DEF Relinked
<1>2. /\ SameRest(k, above) /\ above.size = size /\ above.resized = k.resized
      /\ \A m \in stay \cup Terminals : SameNode(k.node[m], above.node[m])
      /\ \A m \in Others(size, stay) : above.node[m].low = -1
  BY DEF Rebuilt
<1>3. SameRest(k, u) BY <1>1, <1>2 DEF SameRest
<1>4. \A m \in stay \cup Terminals : SameNode(k.node[m], u.node[m]) BY <1>1, <1>2 DEF SameNode
<1>5. \A m \in Others(size, stay) : u.node[m].low = -1 BY <1>1, <1>2 DEF SameNode
<1> QED BY <1>1, <1>2, <1>3, <1>4, <1>5 DEF Rebuilt

\* The sweep hashes the next entry or frees it.
LEMMA SweepStepRight ==
  ASSUME NEW k, NEW size \in Nat \ {0, 1}, NEW stay \in SUBSET (2..(size - 1)),
         NEW n \in 2..(size - 1), NEW above, Rebuilt(k, size, stay, n + 1, above)
  PROVE  Rebuilt(k, size, stay, n, SweepStep(n, stay, above))
<1> DEFINE u == SweepStep(n, stay, above)
           in == {m \in stay : m >= n + 1}
           free == {m \in Others(size, stay) : m >= n + 1}
<1>1. Places(above) = 0..(size - 1) BY DEF Rebuilt, Places
<1>0. /\ \A m \in 2..(size - 1) : m \in 0..(size - 1) /\ m # 0 /\ (m >= n <=> m >= n + 1 \/ m = n)
      /\ ~(n >= n + 1)
  OBVIOUS
<1>2. /\ in \in SUBSET (Places(above) \ {0}) /\ free \in SUBSET (Places(above) \ {0})
      /\ n \in Places(above) \ (in \cup free) /\ n # 0
  BY <1>0, <1>1 DEF Others
<1>3. Shape(above) /\ Hashed(above, in) /\ Freed(above, free) BY DEF Rebuilt
<1>4. stay \cup Terminals \subseteq Places(above) /\ Others(size, stay) \subseteq Places(above)
  BY <1>1 DEF Others, Terminals
<1>5. CASE n \in stay
  <2>1. {m \in stay : m >= n} = in \cup {n} BY <1>0, <1>5
  <2>2. {m \in Others(size, stay) : m >= n} = free BY <1>0, <1>5 DEF Others
  <2>3. u = Link(above, n) BY <1>5 DEF SweepStep
  <2> HIDE DEF u, in, free
  <2>4. Relinked(above, u) /\ Hashed(u, in \cup {n}) /\ Freed(u, free)
    BY <1>2, <1>3, <2>3, LinkHashed
  <2>5. Rebuilt(k, size, stay, n, u) BY <1>4, <2>1, <2>2, <2>4, RebuiltOn
  <2> QED BY <2>5 DEF u
<1>6. CASE n \notin stay
  <2>1. {m \in stay : m >= n} = in BY <1>0, <1>6
  <2>2. {m \in Others(size, stay) : m >= n} = free \cup {n} BY <1>0, <1>6 DEF Others
  <2>3. u = Unlink(above, n) BY <1>6 DEF SweepStep
  <2> HIDE DEF u, in, free
  <2>4. Relinked(above, u) /\ Hashed(u, in) /\ Freed(u, free \cup {n})
    BY <1>2, <1>3, <2>3, UnlinkFreed
  <2>5. Rebuilt(k, size, stay, n, u) BY <1>4, <2>1, <2>2, <2>4, RebuiltOn
  <2> QED BY <2>5 DEF u
<1> QED BY <1>5, <1>6

RebuildStart(k, size, stay) ==
    [k EXCEPT !.node = Evaluated([n \in 0..(size - 1) |->
                          IF n \in stay \cup Terminals THEN [k.node[n] EXCEPT !.hash = 0]
                          ELSE UnusedEntry]),
              !.size = size, !.freepos = 0, !.freenum = 0]

\* Only one function is there to choose.
LEMMA EvaluatedSame ==
  ASSUME NEW f
  PROVE  Evaluated(f) = f
BY DEF Evaluated

\* Before the sweep no entry is hashed and none is free.
LEMMA RebuildStartRight ==
  ASSUME NEW k, Shape(k), NEW size \in Nat \ {0, 1}, k.size <= size,
         NEW stay \in SUBSET (2..(k.size - 1))
  PROVE  Rebuilt(k, size, stay, size, RebuildStart(k, size, stay))
<1> DEFINE u == RebuildStart(k, size, stay)
           kept == stay \cup Terminals
           node == [n \in 0..(size - 1) |-> IF n \in kept THEN [k.node[n] EXCEPT !.hash = 0]
                                            ELSE UnusedEntry]
<1>1. k.size \in Nat \ {0, 1} /\ Fields(k) BY DEF Shape
<1>2. kept \subseteq 0..(k.size - 1) /\ 0..(k.size - 1) \subseteq 0..(size - 1)
  BY <1>1 DEF Terminals
<1> HIDE DEF kept
<1>3. node = [n \in 0..(size - 1) |-> IF n \in kept THEN [k.node[n] EXCEPT !.hash = 0]
                                      ELSE UnusedEntry]
  OBVIOUS
<1> HIDE DEF node, kept
<1>4. u = [node |-> node, size |-> size, freepos |-> 0, freenum |-> 0,
           produced |-> k.produced, resized |-> k.resized, maxnodes |-> k.maxnodes,
           varnum |-> k.varnum, varset |-> k.varset, level2var |-> k.level2var,
           ready |-> k.ready, nextreorder |-> k.nextreorder]
  <2>0. u = [k EXCEPT !.node = Evaluated(node), !.size = size, !.freepos = 0, !.freenum = 0]
    BY DEF RebuildStart, node, kept
  <2>1. u = [k EXCEPT !.node = node, !.size = size, !.freepos = 0, !.freenum = 0]
    BY <2>0, EvaluatedSame
  <2> HIDE DEF u
  <2> QED BY <1>1, <2>1 DEF Fields
<1> HIDE DEF u
<1>5. ASSUME NEW n \in 0..(size - 1)
      PROVE  EntryShape(node[n]) /\ node[n].hash = 0
  <2>1. CASE n \in kept
    <3>1. EntryShape(k.node[n]) BY <1>2, <2>1 DEF Shape, Places
    <3>2. node[n] = [k.node[n] EXCEPT !.hash = 0] BY <1>3, <2>1
    <3> QED BY <3>1, <3>2 DEF EntryShape
  <2>2. CASE n \notin kept
    <3>1. node[n] = UnusedEntry BY <1>3, <2>2
    <3> QED BY <3>1 DEF EntryShape, UnusedEntry
  <2> QED BY <2>1, <2>2
<1>6. Places(u) = 0..(size - 1) BY <1>4 DEF Places
<1>7. Shape(u)
  <2>1. Fields(u) BY <1>4 DEF Fields
  <2>2. u.node = [n \in Places(u) |-> u.node[n]] BY <1>3, <1>4, <1>6
  <2>3. \A n \in Places(u) : EntryShape(u.node[n]) BY <1>4, <1>5, <1>6
  <2>4. u.size \in Nat \ {0, 1} /\ u.freepos \in Places(u) /\ u.freenum \in Nat BY <1>4, <1>6
  <2>5. \A n \in Places(u) : u.node[n].hash \in Places(u) /\ u.node[n].next \in Places(u)
    <3>1. ASSUME NEW n \in 0..(size - 1) PROVE node[n].next \in 0..(size - 1)
      <4>1. CASE n \in kept
        <5>1. EntryShape(k.node[n]) /\ k.node[n].next \in 0..(k.size - 1)
          BY <1>2, <4>1 DEF Shape, Places
        <5>2. node[n] = [k.node[n] EXCEPT !.hash = 0] BY <1>3, <4>1
        <5> QED BY <1>2, <5>1, <5>2 DEF EntryShape
      <4>2. CASE n \notin kept
        <5>1. node[n] = UnusedEntry BY <1>3, <4>2
        <5> QED BY <5>1 DEF UnusedEntry
      <4> QED BY <4>1, <4>2
    <3>2. 0 \in 0..(size - 1) OBVIOUS
    <3> QED BY <1>4, <1>5, <1>6, <3>1, <3>2
  <2> QED BY <2>1, <2>2, <2>3, <2>4, <2>5 DEF Shape
<1>8. ASSUME NEW n \in kept PROVE SameNode(k.node[n], u.node[n])
  <2>1. EntryShape(k.node[n]) BY <1>2, <1>8 DEF Shape, Places
  <2>2. u.node[n] = [k.node[n] EXCEPT !.hash = 0] BY <1>2, <1>3, <1>4, <1>8
  <2> QED BY <2>1, <2>2 DEF EntryShape, SameNode
<1>9. ASSUME NEW n \in Others(size, stay) PROVE u.node[n].low = -1
  <2>1. n \in 0..(size - 1) /\ n \notin kept BY <1>9 DEF Others, kept, Terminals
  <2>2. u.node[n] = UnusedEntry BY <1>3, <1>4, <2>1
  <2> QED BY <2>2 DEF UnusedEntry
<1>10. /\ {m \in stay : m >= size} = {} /\ {m \in Others(size, stay) : m >= size} = {}
  <2>1. \A m \in 2..(size - 1) : ~(m >= size) OBVIOUS
  <2>2. \A m \in stay : m \in 2..(size - 1) BY <1>1
  <2> QED BY <2>1, <2>2 DEF Others
<1>11. Linked(NextOf(u), 0, 0, {}) BY LinkedNone
<1>12. Hashed(u, {})
  <2> SUFFICES ASSUME NEW b \in Places(u)
               PROVE  Linked(NextOf(u), 0, u.node[b].hash, {n \in {} : Hash(u, n) = b})
    BY DEF Hashed
  <2>1. u.node[b].hash = 0 BY <1>4, <1>5, <1>6
  <2>2. {n \in {} : Hash(u, n) = b} = {} OBVIOUS
  <2> QED BY <1>11, <2>1, <2>2
<1>13. Freed(u, {}) BY <1>4, <1>11, FS_EmptySet DEF Freed
<1>14. SameRest(k, u) /\ u.size = size /\ u.resized = k.resized BY <1>4 DEF SameRest
<1>15. Rebuilt(k, size, stay, size, u)
  BY <1>7, <1>8, <1>9, <1>10, <1>12, <1>13, <1>14 DEF Rebuilt, kept
<1> QED BY <1>15 DEF u

\* The recursive function of the sweep exists.
SweptBy(size, start, stay, f) ==
    f = [n \in 2..size |-> IF n = size THEN start ELSE SweepStep(n, stay, f[n + 1])]

\* The sweep runs for every table, down to entry 2.
LEMMA SweepExists ==
  ASSUME NEW size \in Nat \ {0, 1}, NEW start, NEW stay
  PROVE  \E f : SweptBy(size, start, stay, f)
<1> DEFINE At(f, n) == f[n] = IF n = size THEN start ELSE SweepStep(n, stay, f[n + 1])
           Part(j) == \E f : \A n \in (size - j)..size : At(f, n)
           S == {j \in 0..(size - 2) : Part(j)}
<1>1. 0 \in S
  <2> DEFINE g == [n \in {size} |-> start]
  <2>1. \A n \in (size - 0)..size : n = size /\ g[n] = start OBVIOUS
  <2>2. Part(0) BY <2>1
  <2> HIDE DEF Part
  <2> QED BY <2>2
<1>2. ASSUME NEW j \in 1..(size - 2), j - 1 \in S PROVE j \in S
  <2>1. PICK f : \A n \in (size - (j - 1))..size : At(f, n) BY <1>2
  <2> DEFINE g == [n \in (size - j)..size |-> IF n = size - j THEN SweepStep(n, stay, f[n + 1])
                                              ELSE f[n]]
  <2>2. ASSUME NEW n \in (size - j)..size PROVE At(g, n)
    <3>1. CASE n = size - j
      <4>1. n + 1 \in (size - j)..size /\ n + 1 # size - j /\ n # size BY <3>1
      <4>2. g[n + 1] = f[n + 1] BY <4>1
      <4>3. g[n] = SweepStep(n, stay, f[n + 1]) BY <3>1
      <4> HIDE DEF g
      <4> QED BY <4>1, <4>2, <4>3
    <3>2. CASE n # size - j
      <4>1. n \in (size - (j - 1))..size BY <3>2
      <4>2. g[n] = f[n] BY <3>2
      <4>3. CASE n = size
        <5> HIDE DEF g
        <5> QED BY <2>1, <4>1, <4>2, <4>3
      <4>4. CASE n # size
        <5>1. n + 1 \in (size - j)..size /\ n + 1 # size - j BY <3>2, <4>4
        <5>2. g[n + 1] = f[n + 1] BY <5>1
        <5> HIDE DEF g
        <5> QED BY <2>1, <4>1, <4>2, <5>2, <4>4
      <4> QED BY <4>3, <4>4
    <3> QED BY <3>1, <3>2
  <2> HIDE DEF g, At
  <2>3. Part(j) BY <2>2
  <2> QED BY <2>3
<1>3. size - 2 \in S
  <2>1. size - 2 \in Nat OBVIOUS
  <2> HIDE DEF S
  <2>2. 0..(size - 2) \subseteq S BY <1>1, <1>2, <2>1, IntervalInduction
  <2> QED BY <2>1, <2>2
<1>4. PICK f : \A n \in 2..size : At(f, n)
  <2>1. size - (size - 2) = 2 OBVIOUS
  <2> HIDE DEF At
  <2> QED BY <1>3, <2>1
<1> DEFINE g == [n \in 2..size |-> f[n]]
<1>5. g = [n \in 2..size |-> IF n = size THEN start ELSE SweepStep(n, stay, g[n + 1])]
  <2> SUFFICES ASSUME NEW n \in 2..size
               PROVE  f[n] = IF n = size THEN start ELSE SweepStep(n, stay, g[n + 1])
    OBVIOUS
  <2>1. n # size => n + 1 \in 2..size OBVIOUS
  <2>2. n # size => g[n + 1] = f[n + 1] BY <2>1
  <2> HIDE DEF g
  <2> QED BY <1>4, <2>2
<1> HIDE DEF g
<1> QED BY <1>5 DEF SweptBy

\* A table swept: the nodes in stay are as they were and hashed, and the other entries
\* are free.
IsRebuilt(k, size, stay, u) ==
    /\ Shape(u) /\ SameRest(k, u) /\ u.size = size /\ u.resized = k.resized
    /\ \A m \in stay \cup Terminals : SameNode(k.node[m], u.node[m])
    /\ \A m \in Others(size, stay) : u.node[m].low = -1
    /\ Hashed(u, stay) /\ Freed(u, Others(size, stay))

\* The whole sweep (bdd_gbc, bdd_gbc_rehash).
LEMMA RebuildRight ==
  ASSUME NEW k, Shape(k), NEW size \in Nat \ {0, 1}, k.size <= size,
         NEW stay \in SUBSET (2..(k.size - 1))
  PROVE  IsRebuilt(k, size, stay, Rebuild(k, size, stay))
<1> DEFINE start == RebuildStart(k, size, stay)
           swept == CHOOSE f : SweptBy(size, start, stay, f)
           S == {j \in 0..(size - 2) : Rebuilt(k, size, stay, size - j, swept[size - j])}
<1>1. stay \in SUBSET (2..(size - 1))
  <2>1. k.size \in Nat BY DEF Shape
  <2>2. 2..(k.size - 1) \subseteq 2..(size - 1) BY <2>1
  <2> QED BY <2>2
<1>2. Rebuild(k, size, stay) = swept[2] BY DEF Rebuild, SweptBy, SweepStep, RebuildStart
<1>3. Rebuilt(k, size, stay, size, start) BY RebuildStartRight
<1> HIDE DEF start
<1>4. SweptBy(size, start, stay, swept) BY SweepExists
<1> HIDE DEF swept
<1>5. \A n \in 2..size : swept[n] = IF n = size THEN start ELSE SweepStep(n, stay, swept[n + 1])
  BY <1>4 DEF SweptBy
<1>6. 0 \in S BY <1>3, <1>5
<1>7. ASSUME NEW j \in 1..(size - 2), j - 1 \in S PROVE j \in S
  <2>1. /\ size - j \in 2..(size - 1) /\ size - j \in 2..size /\ size - j # size
        /\ size - (j - 1) = (size - j) + 1
    OBVIOUS
  <2>2. Rebuilt(k, size, stay, (size - j) + 1, swept[(size - j) + 1]) BY <1>7, <2>1
  <2>3. swept[size - j] = SweepStep(size - j, stay, swept[(size - j) + 1]) BY <1>5, <2>1
  <2>4. Rebuilt(k, size, stay, size - j, SweepStep(size - j, stay, swept[(size - j) + 1]))
    BY <1>1, <2>1, <2>2, SweepStepRight
  <2> QED BY <2>3, <2>4
<1>8. Rebuilt(k, size, stay, 2, swept[2])
  <2>1. size - 2 \in Nat /\ size - (size - 2) = 2 OBVIOUS
  <2>2. size - 2 \in S
    <3> HIDE DEF S
    <3>1. 0..(size - 2) \subseteq S BY <1>6, <1>7, <2>1, IntervalInduction
    <3> QED BY <2>1, <3>1
  <2> QED BY <2>1, <2>2
<1>9. {m \in stay : m >= 2} = stay /\ {m \in Others(size, stay) : m >= 2} = Others(size, stay)
  <2>1. \A m \in 2..(size - 1) : m >= 2 OBVIOUS
  <2> QED BY <1>1, <2>1 DEF Others
<1>10. IsRebuilt(k, size, stay, swept[2]) BY <1>8, <1>9 DEF Rebuilt, IsRebuilt
<1> QED BY <1>2, <1>10

----------------------------------------------------------------------------
(* Walking along the links.                                                *)

ChainBy(k, f) ==
    f = [w \in (0..k.size) \X DOMAIN k.node |->
           IF w[1] = 0 \/ w[2] = 0 THEN <<>>
           ELSE <<w[2]>> \o f[<<w[1] - 1, k.node[w[2]].next>>]]

\* The recursive function of the walk exists.
LEMMA ChainExists ==
  ASSUME NEW k, Shape(k)
  PROVE  \E f : ChainBy(k, f)
<1> DEFINE D == DOMAIN k.node
           Stops(fuel, n) == fuel = 0 \/ n = 0
           Value(f, fuel, n) ==
             IF Stops(fuel, n) THEN <<>> ELSE <<n>> \o f[<<fuel - 1, k.node[n].next>>]
           Part(j) == \E f : \A fuel \in 0..j, n \in D : f[<<fuel, n>>] = Value(f, fuel, n)
           S == {j \in 0..k.size : Part(j)}
<1>0. k.size \in Nat /\ \A n \in D : k.node[n].next \in D BY DEF Shape
<1> HIDE DEF D, Stops
<1>1. 0 \in S
  <2> DEFINE g == [w \in (0..0) \X D |-> <<>>]
  <2>1. \A fuel \in 0..0, n \in D : g[<<fuel, n>>] = Value(g, fuel, n) BY DEF Stops
  <2> HIDE DEF g
  <2>2. Part(0) BY <2>1
  <2> HIDE DEF Part
  <2> QED BY <1>0, <2>2
<1>2. ASSUME NEW j \in 1..k.size, j - 1 \in S PROVE j \in S
  <2>1. PICK f : \A fuel \in 0..(j - 1), n \in D : f[<<fuel, n>>] = Value(f, fuel, n) BY <1>2
  <2> DEFINE g == [w \in (0..j) \X D |-> IF w[1] = j THEN Value(f, j, w[2]) ELSE f[w]]
  <2>0. \A fuel \in 0..j, n \in D :
          g[<<fuel, n>>] = IF fuel = j THEN Value(f, j, n) ELSE f[<<fuel, n>>]
    OBVIOUS
  <2> HIDE DEF g
  <2>2. ASSUME NEW fuel \in 0..j, NEW n \in D PROVE g[<<fuel, n>>] = Value(g, fuel, n)
    <3>1. k.node[n].next \in D BY <1>0
    <3>2. ~Stops(fuel, n) => fuel - 1 \in 0..j /\ fuel - 1 # j /\ fuel - 1 \in 0..(j - 1)
      BY DEF Stops
    <3>3. ~Stops(fuel, n) => g[<<fuel - 1, k.node[n].next>>] = f[<<fuel - 1, k.node[n].next>>]
      BY <2>0, <3>1, <3>2
    <3>4. Value(g, fuel, n) = Value(f, fuel, n) BY <3>3
    <3>5. g[<<fuel, n>>] = Value(f, fuel, n)
      <4>1. CASE fuel = j BY <2>0, <4>1
      <4>2. CASE fuel # j
        <5>1. fuel \in 0..(j - 1) BY <4>2
        <5>2. f[<<fuel, n>>] = Value(f, fuel, n) BY <2>1, <5>1
        <5>3. g[<<fuel, n>>] = f[<<fuel, n>>] BY <2>0, <4>2
        <5> HIDE DEF Value
        <5> QED BY <5>2, <5>3
      <4> QED BY <4>1, <4>2
    <3> HIDE DEF Value
    <3> QED BY <3>4, <3>5
  <2> HIDE DEF Value
  <2>3. Part(j) BY <2>2
  <2> HIDE DEF Part
  <2> QED BY <2>3
<1>3. Part(k.size)
  <2> HIDE DEF S
  <2>1. 0..k.size \subseteq S BY <1>0, <1>1, <1>2, IntervalInduction
  <2>2. k.size \in S BY <1>0, <2>1
  <2> QED BY <2>2 DEF S
<1>4. PICK f : \A fuel \in 0..k.size, n \in D : f[<<fuel, n>>] = Value(f, fuel, n) BY <1>3
<1> DEFINE g == [w \in (0..k.size) \X D |-> f[w]]
<1>5. g = [w \in (0..k.size) \X D |-> Value(g, w[1], w[2])]
  <2> SUFFICES ASSUME NEW w \in (0..k.size) \X D
               PROVE  f[w] = Value(g, w[1], w[2])
    BY Zenon
  <2>0. w[1] \in 0..k.size /\ w[2] \in D /\ w = <<w[1], w[2]>> OBVIOUS
  <2>1. k.node[w[2]].next \in D BY <1>0, <2>0
  <2>2. ~Stops(w[1], w[2]) => w[1] - 1 \in 0..k.size BY <1>0, <2>0 DEF Stops
  <2>3. ~Stops(w[1], w[2]) =>
          g[<<w[1] - 1, k.node[w[2]].next>>] = f[<<w[1] - 1, k.node[w[2]].next>>]
    BY <2>1, <2>2
  <2>4. f[<<w[1], w[2]>>] = Value(f, w[1], w[2]) BY <1>4, <2>0
  <2> HIDE DEF g
  <2> QED BY <2>0, <2>3, <2>4
<1> HIDE DEF g
<1> QED BY <1>5 DEF ChainBy, Stops, D

\* A list of entries is no longer than the table.
LEMMA LinkedShort ==
  ASSUME NEW k, Shape(k), NEW set \in SUBSET Places(k), NEW next, NEW stop, NEW first,
         NEW m \in Nat, NEW e \in [0..m -> Int], LinkedBy(next, stop, first, set, m, e)
  PROVE  m <= k.size
<1>1. k.size \in Nat \ {0, 1} BY DEF Shape
<1>2. Cardinality(set) = m BY LinkedLength
<1>3. IsFiniteSet(Places(k)) /\ Cardinality(Places(k)) = k.size
  <2>1. 0 \in Int /\ k.size - 1 \in Int /\ ~(0 > k.size - 1) BY <1>1
  <2>2. (k.size - 1) - 0 + 1 = k.size BY <1>1
  <2> QED BY <2>1, <2>2, FS_Interval DEF Places
<1>4. Cardinality(set) <= Cardinality(Places(k)) BY <1>3, FS_Subset
<1> QED BY <1>2, <1>3, <1>4

\* The walk along a list meets its elements, each once.
LEMMA ChainRight ==
  ASSUME NEW k, Shape(k), NEW set \in SUBSET (Places(k) \ {0}), NEW first,
         Linked(NextOf(k), 0, first, set)
  PROVE  /\ Chain(k, first) \in Seq(set) /\ Range(Chain(k, first)) = set
         /\ Len(Chain(k, first)) = Cardinality(set)
<1> DEFINE f == CHOOSE g : ChainBy(k, g)
<1>0. k.size \in Nat \ {0, 1} /\ DOMAIN k.node = Places(k) BY DEF Shape
<1>1. PICK m \in Nat : \E e \in [0..m -> Int] : LinkedBy(NextOf(k), 0, first, set, m, e)
  BY DEF Linked
<1>2. PICK e \in [0..m -> Int] : LinkedBy(NextOf(k), 0, first, set, m, e) BY <1>1
<1>3. m <= k.size
  <2>1. set \in SUBSET Places(k) OBVIOUS
  <2> QED BY <1>2, <2>1, LinkedShort
<1>4. /\ e[0] = first /\ e[m] = 0
      /\ \A i \in 0..(m - 1) : e[i] \in set /\ e[i] # 0 /\ e[i + 1] = k.node[e[i]].next
      /\ \A n \in set : \E i \in 0..(m - 1) : e[i] = n
  <2>1. \A i \in 0..(m - 1) : e[i] \in set /\ e[i + 1] = NextOf(k)[e[i]] BY <1>2 DEF LinkedBy
  <2>2. \A i \in 0..(m - 1) : NextOf(k)[e[i]] = k.node[e[i]].next BY <2>1, NextIs
  <2> QED BY <1>2, <2>1, <2>2 DEF LinkedBy
<1>5. Chain(k, first) = f[<<k.size, first>>] BY DEF Chain, ChainBy
<1>6. ChainBy(k, f) BY ChainExists
<1> HIDE DEF f
<1>7. \A fuel \in 0..k.size, n \in Places(k) :
        f[<<fuel, n>>] = IF fuel = 0 \/ n = 0 THEN <<>>
                         ELSE <<n>> \o f[<<fuel - 1, k.node[n].next>>]
  BY <1>0, <1>6 DEF ChainBy
\* What is met from the i-th element on.
<1> DEFINE rest(i) == [x \in 1..(m - i) |-> e[i + x - 1]]
<1>8. \A i \in 0..m : rest(i) \in Seq(set) /\ Len(rest(i)) = m - i
  <2> SUFFICES ASSUME NEW i \in 0..m PROVE rest(i) \in Seq(set) /\ Len(rest(i)) = m - i
    OBVIOUS
  <2>1. m - i \in Nat /\ \A x \in 1..(m - i) : i + x - 1 \in 0..(m - 1) OBVIOUS
  <2>2. rest(i) \in [1..(m - i) -> set] BY <1>4, <2>1
  <2> DEFINE r == rest(i)
             l == m - i
  <2>3. r \in [1..l -> set] /\ DOMAIN r = 1..l /\ l \in Nat BY <2>1, <2>2
  <2> HIDE DEF r, l
  <2>4. r \in Seq(set) BY <2>3, SeqDef
  <2>5. Len(r) = l BY <2>3, <2>4, LenProperties
  <2> QED BY <2>4, <2>5 DEF r, l
<1>9. ASSUME NEW i \in 0..(m - 1) PROVE rest(i) = <<e[i]>> \o rest(i + 1)
  <2>1. i \in 0..m /\ i + 1 \in 0..m /\ e[i] \in set BY <1>4
  <2> DEFINE q == rest(i + 1)
             s == <<e[i]>>
             both == s \o q
  <2>2. q \in Seq(set) /\ Len(q) = m - (i + 1) BY <1>8, <2>1
  <2>3. s \in Seq(set) /\ Len(s) = 1 /\ s[1] = e[i] BY <2>1
  <2>4. \A x \in 1..(m - (i + 1)) : q[x] = e[(i + 1) + x - 1] OBVIOUS
  <2> HIDE DEF q, s
  <2>5. /\ both \in Seq(set) /\ Len(both) = 1 + (m - (i + 1))
        /\ \A x \in 1..(1 + (m - (i + 1))) : both[x] = IF x <= 1 THEN s[x] ELSE q[x - 1]
    <3>1. /\ both \in Seq(set) /\ Len(both) = Len(s) + Len(q)
          /\ \A x \in 1..(Len(s) + Len(q)) :
                both[x] = IF x <= Len(s) THEN s[x] ELSE q[x - Len(s)]
      BY <2>2, <2>3, ConcatProperties
    <3> HIDE DEF both
    <3> QED BY <2>2, <2>3, <3>1
  <2> HIDE DEF both
  <2>6. 1 + (m - (i + 1)) = m - i OBVIOUS
  <2>7. both = [x \in 1..(m - i) |-> both[x]] BY <2>5, <2>6, LenProperties
  <2>8. ASSUME NEW x \in 1..(m - i) PROVE both[x] = e[i + x - 1]
    <3>1. CASE x = 1
      <4>1. i + x - 1 = i BY <3>1
      <4> QED BY <2>3, <2>5, <2>6, <3>1, <4>1
    <3>2. CASE x # 1
      <4>1. x - 1 \in 1..(m - (i + 1)) /\ (i + 1) + (x - 1) - 1 = i + x - 1 /\ ~(x <= 1) BY <3>2
      <4> QED BY <2>4, <2>5, <2>6, <4>1
    <3> QED BY <3>1, <3>2
  <2>9. both = rest(i) BY <2>7, <2>8
  <2> QED BY <2>9 DEF both, s, q
<1>10. rest(m) = <<>>
  <2>1. m \in 0..m /\ m - m = 0 OBVIOUS
  <2>2. Len(rest(m)) = 0 /\ rest(m) \in Seq(set) BY <1>8, <2>1
  <2> QED BY <2>2, EmptySeq
<1>11. rest(0) = [x \in 1..m |-> e[x - 1]]
  <2>1. m - 0 = m /\ \A x \in 1..m : 0 + x - 1 = x - 1 OBVIOUS
  <2> QED BY <2>1
<1> HIDE DEF rest
<1> DEFINE S == {j \in 0..m : \A fuel \in j..k.size : f[<<fuel, e[m - j]>>] = rest(m - j)}
<1>12. 0 \in S
  <2>1. ASSUME NEW fuel \in 0..k.size PROVE f[<<fuel, e[m - 0]>>] = rest(m - 0)
    <3>1. m - 0 = m /\ 0 \in Places(k) BY <1>0 DEF Places
    <3>2. f[<<fuel, 0>>] = <<>> BY <1>7, <3>1
    <3> QED BY <1>4, <1>10, <3>1, <3>2
  <2> QED BY <2>1
<1>13. ASSUME NEW j \in 1..m, j - 1 \in S PROVE j \in S
  <2>1. ASSUME NEW fuel \in j..k.size PROVE f[<<fuel, e[m - j]>>] = rest(m - j)
    <3> DEFINE n == e[m - j]
    <3>1. /\ m - j \in 0..(m - 1) /\ (m - j) + 1 = m - (j - 1)
          /\ fuel \in 0..k.size /\ fuel # 0 /\ fuel - 1 \in (j - 1)..k.size
      BY <1>0
    <3>2. n \in set /\ n # 0 /\ e[m - (j - 1)] = k.node[n].next BY <1>4, <3>1
    <3>3. f[<<fuel, n>>] = <<n>> \o f[<<fuel - 1, e[m - (j - 1)]>>] BY <1>7, <3>1, <3>2
    <3>4. f[<<fuel - 1, e[m - (j - 1)]>>] = rest(m - (j - 1)) BY <1>13, <3>1
    <3>5. rest(m - j) = <<n>> \o rest(m - (j - 1)) BY <1>9, <3>1
    <3> QED BY <3>3, <3>4, <3>5
  <2> QED BY <2>1
<1>14. Chain(k, first) = rest(0)
  <2>1. m \in S
    <3> HIDE DEF S
    <3>1. 0..m \subseteq S BY <1>12, <1>13, IntervalInduction
    <3> QED BY <3>1
  <2>2. k.size \in m..k.size /\ m - m = 0 BY <1>0, <1>3
  <2>3. f[<<k.size, e[0]>>] = rest(0) BY <2>1, <2>2
  <2> QED BY <1>4, <1>5, <2>3
<1> DEFINE q == rest(0)
<1>15. q \in Seq(set) /\ Len(q) = m
  <2>1. 0 \in 0..m /\ m - 0 = m OBVIOUS
  <2> QED BY <1>8, <2>1
<1>16. Len(q) = Cardinality(set) BY <1>2, <1>15, LinkedLength
<1>17. Range(q) = set
  <2>1. DOMAIN q = 1..m /\ \A x \in 1..m : q[x] = e[x - 1] BY <1>11
  <2>2. \A x \in 1..m : x - 1 \in 0..(m - 1) OBVIOUS
  <2>3. \A y \in 0..(m - 1) : y + 1 \in 1..m /\ (y + 1) - 1 = y OBVIOUS
  <2> HIDE DEF q
  <2>4. ASSUME NEW n \in set PROVE n \in {q[x] : x \in 1..m}
    <3>1. PICK y \in 0..(m - 1) : e[y] = n BY <1>4
    <3> QED BY <2>1, <2>3, <3>1
  <2>5. \A x \in 1..m : q[x] \in set BY <1>4, <2>1, <2>2
  <2>6. Range(q) = {q[x] : x \in 1..m} BY <2>1 DEF Range
  <2> QED BY <2>4, <2>5, <2>6
<1> QED BY <1>14, <1>15, <1>16, <1>17

\* bdd_makenode looks through the chain of one bucket: it finds a node with the level and
\* the children asked for when the bucket has one, and finds no other.
LEMMA LookupRight ==
  ASSUME NEW k, Shape(k), NEW in \in SUBSET (Places(k) \ {0}), Hashed(k, in),
         NEW level \in Int, NEW low \in Int, NEW high \in Int
  PROVE  /\ \/ Lookup(k, level, low, high) = 0
            \/ /\ Lookup(k, level, low, high) \in in
               /\ Matches(k, Lookup(k, level, low, high), level, low, high)
         /\ \A n \in in : Matches(k, n, level, low, high) => Lookup(k, level, low, high) # 0
<1> DEFINE b == NODEHASH(k.size, level, low, high)
           set == {n \in in : Hash(k, n) = b}
           chain == Chain(k, k.node[b].hash)
           Match(n) == Matches(k, n, level, low, high)
           places == {i \in 1..Len(chain) : Match(chain[i])}
<1>1. k.size \in Nat \ {0, 1} BY DEF Shape
<1>2. b \in Places(k) BY <1>1, HashBound DEF Places
<1>3. \A n \in in : Match(n) => n \in set BY DEF Matches, Hash
<1>4. chain \in Seq(set) /\ Range(chain) = set
  <2>1. Linked(NextOf(k), 0, k.node[b].hash, set) BY <1>2 DEF Hashed
  <2>2. set \in SUBSET (Places(k) \ {0}) OBVIOUS
  <2> HIDE DEF set, b
  <2> QED BY <2>1, <2>2, ChainRight
<1>5. Lookup(k, level, low, high) = IF places = {} THEN 0 ELSE chain[Min(places)]
  <2>1. SelectInSeq(chain, LAMBDA n : Matches(k, n, level, low, high))
          = IF places # {} THEN Min(places) ELSE 0
    BY DEF SelectInSeq
  <2>2. places # {} => Min(places) # 0
    <3> HIDE DEF places
    <3>1. places \subseteq Nat \ {0} BY DEF places
    <3> QED BY <3>1, MinInSet
  <2> HIDE DEF places, chain
  <2> QED BY <2>1, <2>2 DEF Lookup, chain
<1>6. set \subseteq in /\ 0 \notin in BY DEF set
<1> HIDE DEF chain, b, set, Match
<1>7. Len(chain) \in Nat /\ DOMAIN chain = 1..Len(chain)
      /\ \A i \in 1..Len(chain) : chain[i] \in set
  BY <1>4, LenProperties, ElementOfSeq
<1>8. ASSUME places # {}
      PROVE  chain[Min(places)] \in in /\ Match(chain[Min(places)])
  <2>1. places \in SUBSET Nat OBVIOUS
  <2>2. Min(places) \in places
    <3> HIDE DEF places
    <3> QED BY <1>8, <2>1, MinInSet
  <2> QED BY <1>6, <1>7, <2>2
<1>9. ASSUME NEW n \in in, Match(n) PROVE places # {}
  <2>1. n \in Range(chain) BY <1>3, <1>4, <1>9
  <2>2. PICK i \in 1..Len(chain) : chain[i] = n BY <1>7, <2>1 DEF Range
  <2> QED BY <1>9, <2>2
<1> HIDE DEF places
<1>10. CASE places = {} BY <1>5, <1>9, <1>10 DEF Match
<1>11. CASE places # {} BY <1>5, <1>6, <1>8, <1>11 DEF Match
<1> QED BY <1>10, <1>11

----------------------------------------------------------------------------
(* The nodes and what can be reached from some of them.                    *)

Node(k, n) ==
    /\ {LOW(k, n), HIGH(k, n)} \subseteq InUse(k) \cup Terminals
    /\ LOW(k, n) # HIGH(k, n)
    /\ LEVEL(k, n) < k.varnum
    /\ LEVEL(k, n) < LEVEL(k, LOW(k, n)) /\ LEVEL(k, n) < LEVEL(k, HIGH(k, n))

Nodes(k) == k.varnum \in Nat /\ \A n \in InUse(k) : Node(k, n)

Closed(k, set) == \A n \in set : {LOW(k, n), HIGH(k, n)} \subseteq set \cup Terminals

Below(k, set) ==
    (set \cup {LOW(k, n) : n \in set} \cup {HIGH(k, n) : n \in set}) \ Terminals

\* What is reached is the least closed set of nodes with the roots in it: a path grows in
\* level at every step, so that it has no more nodes than there are levels.
LEMMA ReachableRight ==
  ASSUME NEW k, Shape(k), Nodes(k), NEW roots \in SUBSET (InUse(k) \cup Terminals)
  PROVE  /\ Reachable(k, roots) \subseteq InUse(k)
         /\ roots \ Terminals \subseteq Reachable(k, roots)
         /\ Closed(k, Reachable(k, roots))
         /\ \A set \in SUBSET InUse(k) :
              roots \ Terminals \subseteq set /\ Closed(k, set) => Reachable(k, roots) \subseteq set
<1> DEFINE V == SUBSET InUse(k)
           G == [set \in V |-> Below(k, set)]
           Body(h) == [i \in 0..k.varnum |-> IF i = 0 THEN roots \ Terminals
                                             ELSE Below(k, h[i - 1])]
           grow == CHOOSE h : h = Body(h)
<1>0. k.varnum \in Nat /\ \A n \in InUse(k) : Node(k, n) BY DEF Nodes
<1>1. G \in [V -> V]
  <2> SUFFICES ASSUME NEW set \in V PROVE Below(k, set) \in V OBVIOUS
  <2>1. \A n \in set : {LOW(k, n), HIGH(k, n)} \subseteq InUse(k) \cup Terminals BY <1>0 DEF Node
  <2> QED BY <2>1 DEF Below
<1>2. roots \ Terminals \in V OBVIOUS
<1>3. PICK h \in [0..k.varnum -> V] :
        h[0] = roots \ Terminals /\ \A i \in 1..k.varnum : h[i] = G[h[i-1]]
  <2> HIDE DEF G, V
  <2>1. IterationsOf(V, G, roots \ Terminals, k.varnum) # {}
    BY <1>0, <1>1, <1>2, IterationExists, Zenon
  <2> QED BY <2>1 DEF IterationsOf
<1>4. h = Body(h)
  <2>1. \A i \in 0..k.varnum : i # 0 => i \in 1..k.varnum /\ i - 1 \in 0..k.varnum BY <1>0
  <2>2. \A i \in 0..k.varnum : i # 0 => h[i - 1] \in V BY <1>3, <2>1
  <2>3. \A i \in 0..k.varnum : h[i] = IF i = 0 THEN roots \ Terminals ELSE Below(k, h[i - 1])
    BY <1>3, <2>1, <2>2
  <2> QED BY <1>3, <2>3
<1>5. Reachable(k, roots) = grow[k.varnum] BY DEF Reachable, Below
<1>6. grow = Body(grow)
  <2> HIDE DEF Body
  <2> QED BY <1>4
<1> HIDE DEF grow
<1>7. grow[0] = roots \ Terminals /\ \A i \in 1..k.varnum : grow[i] = Below(k, grow[i - 1])
  <2>1. \A i \in 1..k.varnum : i \in 0..k.varnum /\ i # 0 BY <1>0
  <2>2. 0 \in 0..k.varnum BY <1>0
  <2> QED BY <1>6, <2>1, <2>2
<1> DEFINE Low(i) == \A n \in grow[i] :
                       LEVEL(k, n) < i => {LOW(k, n), HIGH(k, n)} \subseteq grow[i] \cup Terminals
           Least(i) == \A set \in SUBSET InUse(k) :
                         roots \ Terminals \subseteq set /\ Closed(k, set) => grow[i] \subseteq set
           S == {i \in 0..k.varnum : /\ grow[i] \in V /\ roots \ Terminals \subseteq grow[i]
                                     /\ Low(i) /\ Least(i)}
<1>8. \A n \in InUse(k) : LEVEL(k, n) \in Nat BY DEF InUse, Shape, EntryShape, LEVEL
<1>9. 0 \in S
  <2>1. Low(0) BY <1>2, <1>7, <1>8
  <2>2. Least(0) BY <1>7
  <2> HIDE DEF Low, Least
  <2> QED BY <1>0, <1>7, <2>1, <2>2
<1>10. ASSUME NEW i \in 1..k.varnum, i - 1 \in S PROVE i \in S
  <2>0. i \in 0..k.varnum /\ i - 1 \in Nat BY <1>0
  <2>1. /\ grow[i - 1] \in V /\ roots \ Terminals \subseteq grow[i - 1]
        /\ Low(i - 1) /\ Least(i - 1)
    BY <1>10
  <2>2. grow[i] = Below(k, grow[i - 1]) BY <1>7
  <2>3. grow[i] \in V BY <1>1, <2>1, <2>2
  <2>4. roots \ Terminals \subseteq grow[i] BY <2>1, <2>2 DEF Below
  <2>5. Low(i)
    <3> SUFFICES ASSUME NEW n \in grow[i], LEVEL(k, n) < i
                 PROVE  {LOW(k, n), HIGH(k, n)} \subseteq grow[i] \cup Terminals
      OBVIOUS
    <3>1. CASE n \in grow[i - 1] BY <2>2, <3>1 DEF Below
    <3>2. CASE n \notin grow[i - 1]
      <4>1. n \notin Terminals BY <2>2 DEF Below
      <4>2. PICK m \in grow[i - 1] : n = LOW(k, m) \/ n = HIGH(k, m) BY <2>2, <3>2 DEF Below
      <4>3. m \in InUse(k) /\ n \in InUse(k) BY <2>1, <2>3
      <4>4. LEVEL(k, m) < LEVEL(k, n) BY <1>0, <4>2, <4>3 DEF Node
      <4>5. LEVEL(k, m) < i - 1 BY <1>8, <2>0, <4>3, <4>4
      <4>6. {LOW(k, m), HIGH(k, m)} \subseteq grow[i - 1] \cup Terminals BY <2>1, <4>5
      <4> QED BY <3>2, <4>1, <4>2, <4>6
    <3> QED BY <3>1, <3>2
  <2>6. Least(i)
    <3> SUFFICES ASSUME NEW set \in SUBSET InUse(k), roots \ Terminals \subseteq set, Closed(k, set)
                 PROVE  grow[i] \subseteq set
      OBVIOUS
    <3>1. grow[i - 1] \subseteq set BY <2>1
    <3>2. \A n \in grow[i - 1] : {LOW(k, n), HIGH(k, n)} \subseteq set \cup Terminals
      BY <3>1 DEF Closed
    <3> QED BY <2>2, <3>1, <3>2 DEF Below
  <2> HIDE DEF Low, Least, V
  <2> QED BY <2>0, <2>3, <2>4, <2>5, <2>6
<1>11. k.varnum \in S
  <2> HIDE DEF S
  <2>1. 0..k.varnum \subseteq S BY <1>0, <1>9, <1>10, IntervalInduction
  <2> QED BY <1>0, <2>1
<1>12. Closed(k, grow[k.varnum])
  <2>1. grow[k.varnum] \in V /\ Low(k.varnum) BY <1>11
  <2>2. \A n \in grow[k.varnum] : LEVEL(k, n) < k.varnum BY <1>0, <2>1 DEF Node
  <2> QED BY <2>1, <2>2 DEF Closed
<1> QED BY <1>5, <1>11, <1>12

----------------------------------------------------------------------------
(* The table between two calls.                                            *)

Unused(k) == Places(k) \ (Terminals \cup InUse(k))

OddPrime(n) == n \in Nat /\ n >= 3 /\ n % 2 = 1 /\ IsPrime(n)

Unique(k) ==
    \A m, n \in InUse(k) : Matches(k, m, LEVEL(k, n), LOW(k, n), HIGH(k, n)) => m = n

\* The nodes of the variables are referenced for good.
Pinned(k) ==
    \A n \in Range(k.varset) : n \in InUse(k) /\ k.node[n].refcou = MAXREF

Table(k) ==
    /\ Shape(k) /\ OddPrime(k.size) /\ k.maxnodes \in Nat
    /\ Nodes(k) /\ Unique(k) /\ Pinned(k)
    /\ Hashed(k, InUse(k)) /\ Freed(k, Unused(k))

\* u is k with the nodes in stay and no others.
Keeps(k, u, stay) ==
    /\ Table(u) /\ InUse(u) = stay /\ SameRest(k, u) /\ k.size <= u.size
    /\ \A n \in stay \cup Terminals : SameNode(k.node[n], u.node[n])

\* A table keeps its own nodes.
LEMMA KeepsAll ==
  ASSUME NEW k, Table(k)
  PROVE  Keeps(k, k, InUse(k))
BY DEF Keeps, Table, Shape, SameRest, SameNode

\* What keeps nodes one after the other keeps them in the end.
LEMMA KeepsOn ==
  ASSUME NEW k, NEW u, NEW v, NEW stay, NEW left \in SUBSET stay,
         k.size \in Nat, Keeps(k, u, stay), Keeps(u, v, left)
  PROVE  Keeps(k, v, left)
<1>1. k.size <= v.size
  <2>1. u.size \in Nat /\ v.size \in Nat /\ k.size <= u.size /\ u.size <= v.size
    BY DEF Keeps, Table, OddPrime
  <2> QED BY <2>1
<1>2. SameRest(k, v) BY DEF Keeps, SameRest
<1>3. \A n \in left \cup Terminals : SameNode(k.node[n], v.node[n]) BY DEF Keeps, SameNode
<1> QED BY <1>1, <1>2, <1>3 DEF Keeps

\* A node that is in a closed set of nodes is one in the table that has just these.
LEMMA RebuildKeeps ==
  ASSUME NEW k, Table(k), NEW size, OddPrime(size), k.size <= size,
         NEW stay \in SUBSET InUse(k), Closed(k, stay), Range(k.varset) \subseteq stay
  PROVE  Keeps(k, Rebuild(k, size, stay), stay)
<1> DEFINE u == Rebuild(k, size, stay)
<1>1. Shape(k) /\ k.size \in Nat \ {0, 1} /\ size \in Nat \ {0, 1} BY DEF Table, Shape, OddPrime
<1>2. InUse(k) \subseteq 2..(k.size - 1)
  <2>1. \A n \in Places(k) : n \notin Terminals => n \in 2..(k.size - 1)
    BY <1>1 DEF Places, Terminals
  <2>2. DOMAIN k.node = Places(k) BY <1>1 DEF Shape
  <2> QED BY <2>1, <2>2 DEF InUse
<1>3. IsRebuilt(k, size, stay, u)
  <2>1. stay \in SUBSET (2..(k.size - 1)) BY <1>2
  <2> QED BY <1>1, <2>1, RebuildRight
<1> HIDE DEF u
<1>4. /\ Shape(u) /\ SameRest(k, u) /\ u.size = size
      /\ \A n \in stay \cup Terminals : SameNode(k.node[n], u.node[n])
      /\ \A n \in Others(size, stay) : u.node[n].low = -1
      /\ Hashed(u, stay) /\ Freed(u, Others(size, stay))
  BY <1>3 DEF IsRebuilt
<1>5. Places(u) = 0..(size - 1) /\ DOMAIN u.node = Places(u) BY <1>4 DEF Places, Shape
<1>6. stay \subseteq 2..(size - 1)
  <2>1. 2..(k.size - 1) \subseteq 2..(size - 1) BY <1>1
  <2> QED BY <1>2, <2>1
<1>7. 0..(size - 1) = (2..(size - 1)) \cup Terminals /\ (2..(size - 1)) \cap Terminals = {}
  BY <1>1 DEF Terminals
<1>8. \A n \in stay : LOW(u, n) = LOW(k, n) /\ HIGH(u, n) = HIGH(k, n) /\ LEVEL(u, n) = LEVEL(k, n)
  BY <1>4 DEF SameNode, LOW, HIGH, LEVEL
<1>9. InUse(u) = stay
  <2>1. \A n \in stay : LOW(k, n) # -1 BY DEF InUse
  <2>2. \A n \in stay : n \in InUse(u) BY <1>5, <1>6, <1>7, <1>8, <2>1 DEF InUse
  <2>3. \A n \in InUse(u) : n \in stay BY <1>4, <1>5, <1>7 DEF InUse, Others, LOW
  <2> QED BY <2>2, <2>3
<1>10. Nodes(u)
  <2>1. u.varnum = k.varnum /\ Nodes(k) BY <1>4 DEF SameRest, Table
  <2> SUFFICES ASSUME NEW n \in stay PROVE Node(u, n) BY <1>9, <2>1 DEF Nodes
  <2>2. Node(k, n) BY <2>1 DEF Nodes
  <2>3. {LOW(k, n), HIGH(k, n)} \subseteq stay \cup Terminals BY DEF Closed
  <2>4. \A m \in stay \cup Terminals : LEVEL(u, m) = LEVEL(k, m) BY <1>4 DEF SameNode, LEVEL
  <2> QED BY <1>8, <1>9, <2>1, <2>2, <2>3, <2>4 DEF Node
<1>11. Unique(u)
  <2>1. Unique(k) BY DEF Table
  <2> SUFFICES ASSUME NEW m \in stay, NEW n \in stay, Matches(u, m, LEVEL(u, n), LOW(u, n), HIGH(u, n))
               PROVE  m = n
    BY <1>9 DEF Unique
  <2>2. Matches(k, m, LEVEL(k, n), LOW(k, n), HIGH(k, n)) BY <1>8 DEF Matches
  <2> QED BY <2>1, <2>2 DEF Unique
<1>12. Pinned(u)
  <2>1. u.varset = k.varset BY <1>4 DEF SameRest
  <2>2. \A n \in Range(k.varset) : u.node[n].refcou = MAXREF BY <1>4 DEF Table, Pinned, SameNode
  <2> QED BY <1>9, <2>1, <2>2 DEF Pinned
<1>13. Unused(u) = Others(size, stay) BY <1>5, <1>6, <1>7, <1>9 DEF Unused, Others
<1>14. u.maxnodes \in Nat BY <1>4 DEF SameRest, Table
<1>15. Table(u) BY <1>4, <1>9, <1>10, <1>11, <1>12, <1>13, <1>14 DEF Table
<1>16. k.size <= u.size BY <1>4
<1>17. Keeps(k, u, stay) BY <1>4, <1>9, <1>15, <1>16 DEF Keeps
<1> QED BY <1>17 DEF u

\* A collection leaves the nodes that are reached from the operation in progress and from
\* those that are referenced (bdd_gbc).
LEMMA CollectRight ==
  ASSUME NEW k, Table(k), NEW p, NEW refs, Range(refs) \subseteq InUse(k) \cup Terminals
  PROVE  Keeps(k, bdd_gbc(k, p, refs).k, Reachable(k, Range(refs) \cup Referenced(k)))
<1> DEFINE roots == Range(refs) \cup Referenced(k)
           stay == Reachable(k, roots)
<1>1. roots \in SUBSET (InUse(k) \cup Terminals) BY DEF Referenced
<1>2. Shape(k) /\ Nodes(k) /\ OddPrime(k.size) /\ k.size <= k.size BY DEF Table, OddPrime
<1> HIDE DEF roots
<1>3. stay \in SUBSET InUse(k) /\ roots \ Terminals \subseteq stay /\ Closed(k, stay)
  BY <1>1, <1>2, ReachableRight
<1>4. Range(k.varset) \subseteq stay
  <2>1. \A n \in Range(k.varset) : n \in Referenced(k)
    BY NodeTableAssumption DEF Table, Pinned, Referenced
  <2>2. Referenced(k) \cap Terminals = {} BY DEF Referenced, InUse
  <2> QED BY <1>3, <2>1, <2>2 DEF roots
<1>5. bdd_gbc(k, p, refs).k = Rebuild(k, k.size, stay)
  <2>1. InUse(k) \ Collected(k, refs) = stay BY <1>3 DEF Collected, roots
  <2> QED BY <2>1 DEF bdd_gbc
<1> HIDE DEF stay
<1>6. Keeps(k, Rebuild(k, k.size, stay), stay) BY <1>2, <1>3, <1>4, RebuildKeeps
<1> QED BY <1>5, <1>6 DEF stay, roots

\* The largest odd prime up to n is no smaller than one that is known (bdd_prime_lte).
LEMMA PrimeBelow ==
  ASSUME NEW n \in Nat, NEW m, OddPrime(m), m <= n
  PROVE  OddPrime(bdd_prime_lte(n)) /\ m <= bdd_prime_lte(n)
<1> DEFINE s == {l \in 3..n : l % 2 = 1 /\ IsPrime(l)}
           Largest(l) == /\ l % 2 = 1 /\ IsPrime(l)
                         /\ \A x \in (l + 1)..n : ~(x % 2 = 1 /\ IsPrime(x))
<1>1. m \in Nat /\ m >= 3 /\ m % 2 = 1 /\ IsPrime(m) BY DEF OddPrime
<1>2. m \in s BY <1>1
<1>3. Max(s) \in s /\ \A l \in s : Max(s) >= l
  <2>1. s \in SUBSET (1..n) OBVIOUS
  <2> HIDE DEF s
  <2> QED BY <1>2, <2>1, MaxInSet
<1>4. Max(s) \in 3..n /\ Max(s) % 2 = 1 /\ IsPrime(Max(s)) BY <1>3
<1>5. ASSUME NEW x \in (Max(s) + 1)..n PROVE ~(x % 2 = 1 /\ IsPrime(x))
  <2>1. x \in 3..n /\ ~(Max(s) >= x) BY <1>4
  <2>2. x \notin s BY <1>3, <2>1
  <2> QED BY <2>1, <2>2
<1>6. \E l \in 3..n : Largest(l)
  <2> HIDE DEF s
  <2> QED BY <1>4, <1>5
<1> DEFINE c == bdd_prime_lte(n)
<1>7. c \in 3..n /\ Largest(c)
  <2>1. c = CHOOSE l \in 3..n : Largest(l) BY DEF bdd_prime_lte
  <2> HIDE DEF Largest, c
  <2> QED BY <1>6, <2>1
<1> HIDE DEF c
<1>8. m <= c
  <2> SUFFICES ASSUME ~(m <= c) PROVE FALSE OBVIOUS
  <2>1. m \in (c + 1)..n BY <1>1, <1>7
  <2> QED BY <1>1, <1>7, <2>1
<1>9. OddPrime(c) BY <1>7 DEF OddPrime
<1> QED BY <1>8, <1>9 DEF c

\* The smaller of two numbers is one of them.
LEMMA MinOfTwo ==
  ASSUME NEW a \in Int, NEW b \in Int
  PROVE  Min({a, b}) \in {a, b}
<1>1. \E x \in {a, b} : \A y \in {a, b} : x <= y OBVIOUS
<1> QED BY <1>1 DEF Min

\* The table never shrinks (bdd_noderesize).
LEMMA GrownRight ==
  ASSUME NEW k, OddPrime(k.size), k.maxnodes \in Nat, ~(k.maxnodes > 0 /\ k.size >= k.maxnodes)
  PROVE  OddPrime(GrownSize(k)) /\ k.size <= GrownSize(k)
<1> DEFINE grown == Min({2 * k.size, k.size + MaxNodeIncrease})
           limit == IF k.maxnodes > 0 THEN Min({grown, k.maxnodes}) ELSE grown
<1>1. k.size \in Nat /\ MaxNodeIncrease \in Nat BY NodeTableAssumption DEF OddPrime
<1>2. grown \in Nat /\ k.size <= grown
  <2>1. grown \in {2 * k.size, k.size + MaxNodeIncrease} BY <1>1, MinOfTwo
  <2> QED BY <1>1, <2>1
<1> HIDE DEF grown
<1>3. limit \in Nat /\ k.size <= limit
  <2>1. CASE k.maxnodes > 0
    <3>1. Min({grown, k.maxnodes}) \in {grown, k.maxnodes} BY <1>2, MinOfTwo
    <3> QED BY <1>1, <1>2, <2>1, <3>1
  <2>2. CASE ~(k.maxnodes > 0) BY <1>2, <2>2
  <2> QED BY <2>1, <2>2
<1>4. GrownSize(k) = bdd_prime_lte(limit) BY DEF GrownSize, grown
<1> HIDE DEF limit
<1> QED BY <1>3, <1>4, PrimeBelow

\* What differs from k in neither nodes nor links.
SameLinks(k, u) ==
    /\ u.size = k.size /\ u.freepos = k.freepos /\ u.freenum = k.freenum /\ u.varnum = k.varnum
    /\ \A n \in Places(k) :
         /\ LOW(u, n) = LOW(k, n) /\ HIGH(u, n) = HIGH(k, n)
         /\ u.node[n].hash = k.node[n].hash /\ u.node[n].next = k.node[n].next
         /\ LEVEL(u, n) = LEVEL(k, n) \/ (n \in Terminals /\ LEVEL(u, n) = k.varnum)

\* Such a change leaves the table sound, as long as the variables stay referenced.
LEMMA SameLinksRight ==
  ASSUME NEW k, Table(k), NEW u, Shape(u), SameLinks(k, u), u.maxnodes \in Nat, Pinned(u)
  PROVE  Table(u) /\ InUse(u) = InUse(k)
<1>1. Places(u) = Places(k) BY DEF SameLinks, Places
<1>2. DOMAIN u.node = Places(k) /\ DOMAIN k.node = Places(k) BY <1>1 DEF Table, Shape
<1>3. \A n \in Places(k) : /\ LOW(u, n) = LOW(k, n) /\ HIGH(u, n) = HIGH(k, n)
                            /\ u.node[n].hash = k.node[n].hash /\ u.node[n].next = k.node[n].next
  BY DEF SameLinks
<1>4. InUse(u) = InUse(k) BY <1>2, <1>3 DEF InUse
<1>5. \A n \in InUse(k) : n \in Places(k) /\ n \notin Terminals BY <1>2 DEF InUse
<1>6. \A n \in InUse(k) : LEVEL(u, n) = LEVEL(k, n) BY <1>5 DEF SameLinks
<1>7. u.size = k.size /\ u.varnum = k.varnum BY DEF SameLinks
<1>8. Nodes(u)
  <2>1. Nodes(k) BY DEF Table
  <2> SUFFICES ASSUME NEW n \in InUse(k) PROVE Node(u, n) BY <1>4, <1>7, <2>1 DEF Nodes
  <2>2. Node(k, n) BY <2>1 DEF Nodes
  <2>3. LOW(u, n) = LOW(k, n) /\ HIGH(u, n) = HIGH(k, n) /\ LEVEL(u, n) = LEVEL(k, n)
    BY <1>3, <1>5, <1>6
  <2>4. Terminals \subseteq Places(k)
    <3>1. k.size \in Nat \ {0, 1} BY DEF Table, Shape
    <3> QED BY <3>1 DEF Places, Terminals
  <2>5. ASSUME NEW m \in {LOW(k, n), HIGH(k, n)} PROVE LEVEL(u, n) < LEVEL(u, m)
    <3>1. LEVEL(k, n) < LEVEL(k, m) /\ LEVEL(k, n) < k.varnum BY <2>2 DEF Node
    <3>2. m \in InUse(k) \cup Terminals BY <2>2 DEF Node
    <3>3. LEVEL(u, m) = LEVEL(k, m) \/ LEVEL(u, m) = k.varnum
      BY <1>5, <2>4, <3>2 DEF SameLinks
    <3> QED BY <2>3, <3>1, <3>3
  <2> QED BY <1>4, <1>7, <2>2, <2>3, <2>5 DEF Node
<1>9. Unique(u)
  <2>1. Unique(k) BY DEF Table
  <2> SUFFICES ASSUME NEW m \in InUse(k), NEW n \in InUse(k),
                      Matches(u, m, LEVEL(u, n), LOW(u, n), HIGH(u, n))
               PROVE  m = n
    BY <1>4 DEF Unique
  <2>2. Matches(k, m, LEVEL(k, n), LOW(k, n), HIGH(k, n)) BY <1>3, <1>5, <1>6 DEF Matches
  <2> QED BY <2>1, <2>2 DEF Unique
<1>10. NextOf(u) = NextOf(k) BY <1>1, <1>3 DEF NextOf
<1>11. \A n \in InUse(k) : Hash(u, n) = Hash(k, n) BY <1>3, <1>5, <1>6, <1>7 DEF Hash
<1>12. Hashed(u, InUse(k))
  <2> SUFFICES ASSUME NEW b \in Places(k)
               PROVE  Linked(NextOf(u), 0, u.node[b].hash, {n \in InUse(k) : Hash(u, n) = b})
    BY <1>1 DEF Hashed
  <2>1. Linked(NextOf(k), 0, k.node[b].hash, {n \in InUse(k) : Hash(k, n) = b})
    BY DEF Table, Hashed
  <2>2. {n \in InUse(k) : Hash(u, n) = b} = {n \in InUse(k) : Hash(k, n) = b} BY <1>11
  <2> QED BY <1>3, <1>10, <2>1, <2>2
<1>13. Freed(u, Unused(u))
  <2>1. Unused(u) = Unused(k) BY <1>1, <1>4 DEF Unused
  <2> QED BY <1>10, <2>1 DEF Freed, Table, SameLinks
<1>14. OddPrime(u.size) BY <1>7 DEF Table
<1> QED BY <1>4, <1>8, <1>9, <1>12, <1>13, <1>14 DEF Table

\* Growing leaves every node (bdd_noderesize).
LEMMA GrowRight ==
  ASSUME NEW k, Table(k)
  PROVE  Keeps(k, bdd_noderesize(k), InUse(k))
<1>1. CASE k.maxnodes > 0 /\ k.size >= k.maxnodes
  <2>1. bdd_noderesize(k) = k BY <1>1 DEF bdd_noderesize
  <2> QED BY <2>1, KeepsAll
<1>2. CASE ~(k.maxnodes > 0 /\ k.size >= k.maxnodes)
  <2> DEFINE v == Rebuild(k, GrownSize(k), InUse(k))
             u == [v EXCEPT !.resized = TRUE]
  <2>1. bdd_noderesize(k) = u BY <1>2 DEF bdd_noderesize
  <2>2. OddPrime(GrownSize(k)) /\ k.size <= GrownSize(k) BY <1>2, GrownRight DEF Table
  <2>3. Closed(k, InUse(k)) BY DEF Table, Nodes, Node, Closed
  <2>4. Range(k.varset) \subseteq InUse(k) BY DEF Table, Pinned
  <2>5. Keeps(k, v, InUse(k)) BY <2>2, <2>3, <2>4, RebuildKeeps
  <2> HIDE DEF v
  <2>6. Table(v) /\ InUse(v) = InUse(k) BY <2>5 DEF Keeps
  <2>7. u = [node |-> v.node, size |-> v.size, freepos |-> v.freepos, freenum |-> v.freenum,
             produced |-> v.produced, resized |-> TRUE, maxnodes |-> v.maxnodes,
             varnum |-> v.varnum, varset |-> v.varset, level2var |-> v.level2var,
             ready |-> v.ready, nextreorder |-> v.nextreorder]
    <3> DEFINE yes == TRUE
    <3>1. Fields(v) BY <2>6 DEF Table, Shape
    <3>2. u = [v EXCEPT !.resized = yes] OBVIOUS
    <3> HIDE DEF yes, u
    <3>3. u = [node |-> v.node, size |-> v.size, freepos |-> v.freepos, freenum |-> v.freenum,
               produced |-> v.produced, resized |-> yes, maxnodes |-> v.maxnodes,
               varnum |-> v.varnum, varset |-> v.varset, level2var |-> v.level2var,
               ready |-> v.ready, nextreorder |-> v.nextreorder]
      BY <3>1, <3>2 DEF Fields
    <3> QED BY <3>3 DEF yes
  <2> HIDE DEF u
  <2>8. /\ u.node = v.node /\ u.size = v.size /\ u.freepos = v.freepos /\ u.freenum = v.freenum
        /\ u.varnum = v.varnum /\ u.varset = v.varset /\ u.maxnodes = v.maxnodes
        /\ Fields(u) /\ SameRest(v, u)
    BY <2>7 DEF Fields, SameRest
  <2>9. Places(u) = Places(v) BY <2>8 DEF Places
  <2>10. Shape(u) BY <2>6, <2>8, <2>9 DEF Table, Shape
  <2>11. SameLinks(v, u) BY <2>8 DEF SameLinks, LOW, HIGH, LEVEL
  <2>12. InUse(u) = InUse(v) BY <2>8 DEF InUse, LOW
  <2>13. Pinned(u) /\ u.maxnodes \in Nat BY <2>6, <2>8, <2>12 DEF Table, Pinned
  <2>14. Table(u) BY <2>6, <2>10, <2>11, <2>13, SameLinksRight
  <2>15. Keeps(k, u, InUse(k)) BY <2>5, <2>6, <2>8, <2>12, <2>14 DEF Keeps, SameRest
  <2> QED BY <2>1, <2>15
<1> QED BY <1>1, <1>2

----------------------------------------------------------------------------
(* bdd_makenode.                                                           *)

\* What no call of bdd_makenode changes.
SameSession(k, u) ==
    /\ u.maxnodes = k.maxnodes /\ u.varnum = k.varnum /\ u.varset = k.varset
    /\ u.level2var = k.level2var /\ u.ready = k.ready /\ u.nextreorder = k.nextreorder

\* A node that may be made: the low and high children are there, and below the level.
Makeable(k, level, low, high) ==
    /\ level \in Nat /\ level < k.varnum
    /\ low \in InUse(k) \cup Terminals /\ high \in InUse(k) \cup Terminals

\* u is k with one more node, n.
Adds(k, u, n, level, low, high) ==
    /\ Table(u) /\ n \in Unused(k) /\ InUse(u) = InUse(k) \cup {n} /\ SameSession(k, u)
    /\ Matches(u, n, level, low, high)
    /\ \A m \in InUse(k) \cup Terminals : SameNode(k.node[m], u.node[m])

\* The table with the first free entry taken and not linked yet.
Taken(k, entry) ==
    [k EXCEPT !.node[k.freepos] = entry, !.freepos = k.node[k.freepos].next,
              !.freenum = @ - 1, !.produced = @ + 1]

\* The entry taken leaves the free list, and the chains stay.
LEMMA TakenRight ==
  ASSUME NEW k, Table(k), k.freepos # 0, NEW entry, EntryShape(entry),
         entry.hash = k.node[k.freepos].hash, entry.next = k.node[k.freepos].next
  PROVE  /\ Shape(Taken(k, entry)) /\ SameSession(k, Taken(k, entry))
         /\ Taken(k, entry).size = k.size /\ Taken(k, entry).produced = k.produced + 1
         /\ k.freepos \in Unused(k)
         /\ \A m \in Places(k) : Taken(k, entry).node[m] = IF m = k.freepos THEN entry ELSE k.node[m]
         /\ Hashed(Taken(k, entry), InUse(k))
         /\ Freed(Taken(k, entry), Unused(k) \ {k.freepos})
<1> DEFINE n == k.freepos
           u == Taken(k, entry)
           node == [k.node EXCEPT ![n] = entry]
           free == Unused(k)
<1>1. Shape(k) /\ k.freenum \in Nat /\ n \in Places(k) /\ k.size \in Nat \ {0, 1} BY DEF Table, Shape
<1>2. u = [node |-> node, size |-> k.size, freepos |-> k.node[n].next, freenum |-> k.freenum - 1,
           produced |-> k.produced + 1, resized |-> k.resized, maxnodes |-> k.maxnodes,
           varnum |-> k.varnum, varset |-> k.varset, level2var |-> k.level2var,
           ready |-> k.ready, nextreorder |-> k.nextreorder]
  <2>1. Fields(k) BY <1>1 DEF Shape
  <2>2. u = [k EXCEPT !.node = node, !.freepos = k.node[n].next, !.freenum = k.freenum - 1,
                      !.produced = k.produced + 1]
    BY DEF Taken
  <2> HIDE DEF u, node
  <2> QED BY <2>1, <2>2 DEF Fields
<1> HIDE DEF u
<1>3. node = [m \in Places(k) |-> IF m = n THEN entry ELSE k.node[m]] BY <1>1 DEF Shape
<1> HIDE DEF node
<1>4. /\ u.node = node /\ u.size = k.size /\ u.freepos = k.node[n].next
      /\ u.freenum = k.freenum - 1 /\ u.produced = k.produced + 1
      /\ SameSession(k, u) /\ Places(u) = Places(k)
  BY <1>2 DEF SameSession, Places
<1>5. \A m \in Places(k) : u.node[m].hash = k.node[m].hash /\ u.node[m].next = k.node[m].next
  BY <1>3, <1>4
<1>6. Linked(NextOf(k), 0, n, free) /\ k.freenum = Cardinality(free) BY DEF Table, Freed
<1>7. free \in SUBSET Nat /\ free \in SUBSET Places(k) /\ IsFiniteSet(free)
  <2>1. IsFiniteSet(Places(k)) /\ Places(k) \subseteq Nat BY <1>1, FS_Interval DEF Places
  <2>2. free \subseteq Places(k) BY DEF Unused
  <2> HIDE DEF free
  <2> QED BY <2>1, <2>2, FS_Subset
<1>8. NextOf(u) = NextOf(k) BY <1>4, <1>5 DEF NextOf
<1> HIDE DEF free
<1>9. n \in free /\ Linked(NextOf(u), 0, NextOf(k)[n], free \ {n})
  <2>1. \A i \in free \ {n} : NextOf(u)[i] = NextOf(k)[i] BY <1>8
  <2> QED BY <1>6, <1>7, <2>1, LinkedRest
<1>10. Freed(u, free \ {n})
  <2>1. NextOf(k)[n] = k.node[n].next BY <1>1, NextIs
  <2>2. Cardinality(free \ {n}) = Cardinality(free) - 1
    <3>1. n \in free /\ IsFiniteSet(free) BY <1>7, <1>9
    <3> HIDE DEF n
    <3> QED BY <3>1, FS_RemoveElement
  <2> QED BY <1>4, <1>6, <1>9, <2>1, <2>2 DEF Freed
<1>11. u.freenum \in Nat
  <2>1. free # {} BY <1>9
  <2>2. Cardinality(free) \in Nat /\ Cardinality(free) # 0 BY <1>7, <2>1, FS_EmptySet, FS_CardinalityType
  <2> QED BY <1>4, <1>6, <2>2
<1>12. Shape(u)
  <2>1. Fields(u) BY <1>2, <1>4 DEF Fields
  <2>2. \A m \in Places(u) : EntryShape(u.node[m]) BY <1>1, <1>3, <1>4 DEF Shape
  <2>3. \A m \in Places(u) : u.node[m].hash \in Places(u) /\ u.node[m].next \in Places(u)
    BY <1>1, <1>4, <1>5 DEF Shape
  <2>4. u.node = [m \in Places(u) |-> u.node[m]] BY <1>3, <1>4
  <2>5. u.freepos \in Places(u) BY <1>1, <1>4 DEF Shape
  <2> QED BY <1>1, <1>4, <1>11, <2>1, <2>2, <2>3, <2>4, <2>5 DEF Shape
<1>13. \A m \in InUse(k) : m \in Places(k) /\ m # n
  <2>1. DOMAIN k.node = Places(k) BY <1>1 DEF Shape
  <2> QED BY <1>9, <2>1 DEF InUse, free, Unused
<1>14. \A m \in InUse(k) : Hash(u, m) = Hash(k, m)
  BY <1>3, <1>4, <1>13 DEF Hash, LEVEL, LOW, HIGH
<1>15. Hashed(u, InUse(k))
  <2> SUFFICES ASSUME NEW b \in Places(k)
               PROVE  Linked(NextOf(u), 0, u.node[b].hash, {m \in InUse(k) : Hash(u, m) = b})
    BY <1>4 DEF Hashed
  <2>1. Linked(NextOf(k), 0, k.node[b].hash, {m \in InUse(k) : Hash(k, m) = b})
    BY DEF Table, Hashed
  <2>2. {m \in InUse(k) : Hash(u, m) = b} = {m \in InUse(k) : Hash(k, m) = b} BY <1>14
  <2> QED BY <1>5, <1>8, <2>1, <2>2
<1> QED BY <1>3, <1>4, <1>9, <1>10, <1>12, <1>15 DEF u, free

\* How a call that makes a node may end.
Succeeds(r) == r.error = ""
Exhausted(r) == r.error = "BDD_NODENUM"

\* A call ends in one way.
LEMMA SucceedsOrNot ==
  ASSUME NEW r, Succeeds(r) PROVE ~Exhausted(r)
BY Zenon DEF Succeeds, Exhausted

\* The fields that name the definition of a node generated after p.
Named(p, e) == e.xvar = p.variable + 1 /\ e.dclause = p.counter + 1

\* A wanted node is added to the table in the first free entry.
LEMMA NewNodeRight ==
  ASSUME NEW k, Table(k), k.freepos # 0, NEW p, NEW level, NEW low, NEW high,
         Makeable(k, level, low, high), low # high,
         level < LEVEL(k, low), level < LEVEL(k, high),
         \A m \in InUse(k) : ~Matches(k, m, level, low, high)
  PROVE  /\ Adds(k, NewNode(k, p, level, low, high).k, k.freepos, level, low, high)
         /\ NewNode(k, p, level, low, high).k.size = k.size
         /\ NewNode(k, p, level, low, high).n = k.freepos
         /\ NewNode(k, p, level, low, high).k.produced = k.produced + 1
         /\ p.type # "NONE" /\ level # 0 =>
              Named(p, NewNode(k, p, level, low, high).k.node[k.freepos])
         /\ Succeeds(NewNode(k, p, level, low, high))
<1> DEFINE n == k.freepos
           defined == p.type # "NONE" /\ level # 0
           xvar == IF level = 0 THEN 0 ELSE IF defined THEN p.variable + 1 ELSE n
           dclause == IF defined THEN p.counter + 1 ELSE 0
           old == k.node[n]
           entry == [old EXCEPT !.level = level, !.low = low, !.high = high,
                                !.xvar = xvar, !.dclause = dclause]
           v == Taken(k, entry)
           u == Link(v, n)
<1>1. Shape(k) /\ k.size \in Nat \ {0, 1} /\ n \in Places(k) BY DEF Table, Shape
<1>2. DOMAIN k.node = Places(k) /\ Places(k) \subseteq Nat BY <1>1 DEF Shape, Places
<1>3. level \in Nat /\ low \in Int /\ high \in Int /\ low # -1
  <2>1. InUse(k) \cup Terminals \subseteq Nat BY <1>1, <1>2 DEF InUse, Terminals
  <2>2. low \in Nat /\ high \in Nat BY <2>1 DEF Makeable
  <2> QED BY <2>2 DEF Makeable
<1>4. /\ NewNode(k, p, level, low, high).k = u
      /\ NewNode(k, p, level, low, high).n = n
  BY DEF NewNode, Taken
<1>24. Succeeds(NewNode(k, p, level, low, high)) BY Zenon DEF NewNode, Succeeds
<1>25. p.type # "NONE" /\ level # 0 => xvar = p.variable + 1 /\ dclause = p.counter + 1
  BY Zenon
<1> HIDE DEF xvar, dclause, defined
<1>5. entry = [level |-> level, low |-> low, high |-> high, hash |-> old.hash, next |-> old.next,
               refcou |-> old.refcou, xvar |-> xvar, dclause |-> dclause]
  <2>1. EntryShape(old) BY <1>1 DEF Shape
  <2>2. entry = [old EXCEPT !.level = level, !.low = low, !.high = high,
                            !.xvar = xvar, !.dclause = dclause]
    OBVIOUS
  <2> HIDE DEF old, entry
  <2> QED BY <2>1, <2>2 DEF EntryShape
<1>6. /\ EntryShape(entry) /\ entry.hash = old.hash /\ entry.next = old.next
      /\ entry.level = level /\ entry.low = low /\ entry.high = high
      /\ entry.xvar = xvar /\ entry.dclause = dclause
  <2>1. old.hash \in Nat /\ old.next \in Nat /\ old.refcou \in Nat BY <1>1 DEF Shape, EntryShape
  <2> HIDE DEF old, entry
  <2> QED BY <1>3, <1>5, <2>1 DEF EntryShape
<1> HIDE DEF entry
<1>7. /\ Shape(v) /\ SameSession(k, v) /\ v.size = k.size /\ n \in Unused(k)
      /\ \A m \in Places(k) : v.node[m] = IF m = n THEN entry ELSE k.node[m]
      /\ Hashed(v, InUse(k)) /\ Freed(v, Unused(k) \ {n})
  BY <1>6, TakenRight
<1>28. v.produced = k.produced + 1 BY <1>6, TakenRight
<1> HIDE DEF v
<1>8. Places(v) = Places(k) BY <1>7 DEF Places
<1>9. /\ InUse(k) \in SUBSET (Places(v) \ {0}) /\ Unused(k) \ {n} \in SUBSET (Places(v) \ {0})
      /\ n \in Places(v) \ (InUse(k) \cup (Unused(k) \ {n})) /\ n # 0
  BY <1>2, <1>7, <1>8 DEF InUse, Unused, Terminals
<1>10. Relinked(v, u) /\ Hashed(u, InUse(k) \cup {n}) /\ Freed(u, Unused(k) \ {n})
  <2> HIDE DEF n, u
  <2>1. u = Link(v, n) BY DEF u
  <2> QED BY <1>7, <1>9, <2>1, LinkHashed
<1> HIDE DEF u
<1>11. /\ Shape(u) /\ SameRest(v, u) /\ u.size = k.size /\ Places(u) = Places(k)
       /\ \A m \in Places(k) : SameNode(v.node[m], u.node[m])
  BY <1>7, <1>8, <1>10 DEF Relinked, Places
<1>12. SameSession(k, u) BY <1>7, <1>11 DEF SameSession, SameRest
<1>13. Matches(u, n, level, low, high)
  <2>1. v.node[n] = entry BY <1>1, <1>7
  <2> QED BY <1>1, <1>6, <1>11, <2>1 DEF Matches, SameNode, LEVEL, LOW, HIGH
<1>14. ASSUME NEW m \in Places(k), m # n PROVE SameNode(k.node[m], u.node[m])
  <2>1. v.node[m] = k.node[m] BY <1>7, <1>14
  <2> QED BY <1>11, <2>1
<1>15. InUse(k) \cup Terminals \subseteq Places(k) /\ n \notin InUse(k) \cup Terminals
  BY <1>1, <1>2, <1>7 DEF InUse, Terminals, Unused, Places
<1>16. \A m \in InUse(k) \cup Terminals :
         /\ SameNode(k.node[m], u.node[m])
         /\ LEVEL(u, m) = LEVEL(k, m) /\ LOW(u, m) = LOW(k, m) /\ HIGH(u, m) = HIGH(k, m)
  BY <1>14, <1>15 DEF SameNode, LEVEL, LOW, HIGH
<1>17. InUse(u) = InUse(k) \cup {n}
  <2>1. DOMAIN u.node = Places(k) BY <1>11 DEF Shape
  <2>2. n \in InUse(u) BY <1>1, <1>3, <1>13, <1>15, <2>1 DEF InUse, Matches
  <2>3. ASSUME NEW m \in Places(k), m # n PROVE m \in InUse(u) <=> m \in InUse(k)
    <3>1. LOW(u, m) = LOW(k, m) BY <1>14, <2>3 DEF SameNode, LOW
    <3> QED BY <1>2, <2>1, <3>1 DEF InUse
  <2>4. InUse(u) \subseteq Places(k) BY <2>1 DEF InUse
  <2> QED BY <1>15, <2>2, <2>3, <2>4
<1>18. Nodes(u)
  <2>1. Nodes(k) /\ u.varnum = k.varnum BY <1>12 DEF Table, SameSession
  <2>2. ASSUME NEW m \in InUse(k) PROVE Node(u, m)
    <3>1. Node(k, m) BY <2>1 DEF Nodes
    <3>2. LEVEL(u, m) = LEVEL(k, m) /\ LOW(u, m) = LOW(k, m) /\ HIGH(u, m) = HIGH(k, m)
      BY <1>16
    <3>3. {LOW(k, m), HIGH(k, m)} \subseteq InUse(k) \cup Terminals BY <3>1 DEF Node
    <3>4. LEVEL(u, LOW(k, m)) = LEVEL(k, LOW(k, m)) /\ LEVEL(u, HIGH(k, m)) = LEVEL(k, HIGH(k, m))
      BY <1>16, <3>3
    <3> QED BY <1>17, <2>1, <3>1, <3>2, <3>3, <3>4 DEF Node
  <2>3. Node(u, n)
    <3>1. LEVEL(u, n) = level /\ LOW(u, n) = low /\ HIGH(u, n) = high BY <1>13 DEF Matches
    <3>2. LEVEL(u, low) = LEVEL(k, low) /\ LEVEL(u, high) = LEVEL(k, high)
      BY <1>16 DEF Makeable
    <3> QED BY <1>17, <2>1, <3>1, <3>2 DEF Node, Makeable
  <2> QED BY <1>17, <2>1, <2>2, <2>3 DEF Nodes
<1>19. Unique(u)
  <2> SUFFICES ASSUME NEW a \in InUse(k) \cup {n}, NEW b \in InUse(k) \cup {n},
                      Matches(u, a, LEVEL(u, b), LOW(u, b), HIGH(u, b))
               PROVE  a = b
    BY <1>17 DEF Unique
  <2>1. CASE a \in InUse(k) /\ b \in InUse(k)
    <3>1. Matches(k, a, LEVEL(k, b), LOW(k, b), HIGH(k, b)) BY <1>16, <2>1 DEF Matches
    <3> QED BY <2>1, <3>1 DEF Table, Unique
  <2>2. CASE a \in InUse(k) /\ b = n
    <3>1. Matches(k, a, level, low, high) BY <1>13, <1>16, <2>2 DEF Matches
    <3> QED BY <2>2, <3>1
  <2>3. CASE a = n /\ b \in InUse(k)
    <3>1. Matches(k, b, level, low, high) BY <1>13, <1>16, <2>3 DEF Matches
    <3> QED BY <2>3, <3>1
  <2> QED BY <2>1, <2>2, <2>3
<1>20. Pinned(u) BY <1>12, <1>16, <1>17 DEF Table, Pinned, SameSession, SameNode
<1>21. Unused(u) = Unused(k) \ {n} BY <1>11, <1>17 DEF Unused
<1>22. Table(u)
  BY <1>10, <1>11, <1>12, <1>17, <1>18, <1>19, <1>20, <1>21 DEF Table, SameSession
<1>23. Adds(k, u, n, level, low, high)
  BY <1>7, <1>12, <1>13, <1>16, <1>17, <1>22 DEF Adds
<1>26. p.type # "NONE" /\ level # 0 => Named(p, u.node[n])
  <2>1. v.node[n] = entry BY <1>1, <1>7
  <2>2. u.node[n].xvar = xvar /\ u.node[n].dclause = dclause
    BY <1>1, <1>6, <1>11, <2>1 DEF SameNode
  <2> QED BY <1>25, <2>2, Zenon DEF Named
<1>27. u.produced = k.produced + 1 BY <1>11, <1>28 DEF SameRest
<1> QED BY <1>4, <1>11, <1>23, <1>24, <1>26, <1>27, Zenon

\* The call that returned r left the nodes in stay alone, and more room could not be made
\* when it says so.
Made(k, r, stay) ==
    /\ Table(r.k) /\ SameSession(k, r.k)
    /\ stay \subseteq InUse(r.k) /\ \A n \in stay \cup Terminals : SameNode(k.node[n], r.k.node[n])
    /\ Succeeds(r) => r.n \in InUse(r.k)
    /\ Exhausted(r) => InUse(r.k) = stay /\ Unused(r.k) = {}

\* There is no node of the level with the two children, which come below it.
Wanted(k, level, low, high) ==
    /\ Makeable(k, level, low, high) /\ low # high
    /\ level < LEVEL(k, low) /\ level < LEVEL(k, high)
    /\ \A m \in InUse(k) : ~Matches(k, m, level, low, high)

\* A table that keeps the children keeps it that way.
LEMMA WantedStill ==
  ASSUME NEW k, NEW u, NEW stay \in SUBSET InUse(k), Keeps(k, u, stay),
         NEW level, NEW low \in stay \cup Terminals, NEW high \in stay \cup Terminals,
         Wanted(k, level, low, high)
  PROVE  Wanted(u, level, low, high)
<1>1. InUse(u) = stay /\ u.varnum = k.varnum BY DEF Keeps, SameRest
<1>2. \A m \in stay \cup Terminals :
        LEVEL(u, m) = LEVEL(k, m) /\ LOW(u, m) = LOW(k, m) /\ HIGH(u, m) = HIGH(k, m)
  BY DEF Keeps, SameNode, LEVEL, LOW, HIGH
<1>3. \A m \in InUse(u) : ~Matches(u, m, level, low, high) BY <1>1, <1>2 DEF Wanted, Matches
<1>4. Makeable(u, level, low, high) BY <1>1 DEF Wanted, Makeable
<1> QED BY <1>2, <1>3, <1>4 DEF Wanted

\* Also after a collection.
LEMMA NewNodeMade ==
  ASSUME NEW k, NEW u, NEW stay, Keeps(k, u, stay), u.freepos # 0, NEW left \in SUBSET stay,
         NEW p, NEW level, NEW low, NEW high, Wanted(u, level, low, high)
  PROVE  Made(k, NewNode(u, p, level, low, high), left)
<1> DEFINE r == NewNode(u, p, level, low, high)
<1>1. Table(u) BY DEF Keeps
<1>2. Adds(u, r.k, u.freepos, level, low, high) /\ r.n = u.freepos /\ Succeeds(r)
  BY <1>1, NewNodeRight DEF Wanted
<1> HIDE DEF r
<1>3. ~Exhausted(r) BY <1>2, SucceedsOrNot
<1>4. InUse(u) = stay /\ SameRest(k, u) BY DEF Keeps
<1>5. Table(r.k) /\ SameSession(u, r.k) /\ InUse(r.k) = stay \cup {u.freepos}
  BY <1>2, <1>4 DEF Adds
<1>6. SameSession(k, r.k) BY <1>4, <1>5 DEF SameSession, SameRest
<1>7. \A n \in left \cup Terminals : SameNode(k.node[n], r.k.node[n])
  BY <1>2, <1>4 DEF Adds, Keeps, SameNode
<1>8. r.n \in InUse(r.k) BY <1>2, <1>5
<1>9. left \subseteq InUse(r.k) BY <1>5
<1>10. Made(k, r, left) BY <1>3, <1>5, <1>6, <1>7, <1>8, <1>9 DEF Made
<1> QED BY <1>10 DEF r

\* There is an entry to take unless every entry stays.
LEMMA TakeEntryMade ==
  ASSUME NEW k, NEW c, NEW stay, Keeps(k, c.k, stay),
         NEW level, NEW low, NEW high, Wanted(c.k, level, low, high)
  PROVE  Made(k, TakeEntry(c, level, low, high), stay)
<1> DEFINE r == TakeEntry(c, level, low, high)
<1>1. CASE c.k.freepos # 0
  <2>1. r = NewNode(c.k, c.p, level, low, high) BY <1>1 DEF TakeEntry
  <2>2. Made(k, NewNode(c.k, c.p, level, low, high), stay) BY <1>1, NewNodeMade
  <2> QED BY <2>1, <2>2
<1>2. CASE c.k.freepos = 0
  <2>1. r.k = c.k /\ r.error = "BDD_NODENUM" BY <1>2 DEF TakeEntry
  <2> HIDE DEF r
  <2>2. ~Succeeds(r) BY <2>1, Zenon DEF Succeeds
  <2>3. Table(c.k) /\ InUse(c.k) = stay /\ SameRest(k, c.k) BY DEF Keeps
  <2>4. Unused(c.k) = {}
    <3>1. Linked(NextOf(c.k), 0, 0, Unused(c.k)) BY <1>2, <2>3 DEF Table, Freed
    <3>2. 0 \notin Unused(c.k) BY DEF Unused, Terminals
    <3> QED BY <3>1, <3>2, LinkedEmpty
  <2>5. SameSession(k, c.k) BY <2>3 DEF SameSession, SameRest
  <2>6. \A n \in stay \cup Terminals : SameNode(k.node[n], c.k.node[n]) BY DEF Keeps
  <2>7. Made(k, r, stay) BY <2>1, <2>2, <2>3, <2>4, <2>5, <2>6 DEF Made
  <2> QED BY <2>7 DEF r
<1> QED BY <1>1, <1>2

\* Whether it grows or not, the table keeps its nodes (bdd_makenode).
LEMMA ScarceRight ==
  ASSUME NEW k, NEW u, NEW stay, k.size \in Nat, Keeps(k, u, stay), NEW p
  PROVE  Keeps(k, GrowWhenScarce([k |-> u, p |-> p]).k, stay)
<1> DEFINE c == [k |-> u, p |-> p]
<1>1. GrowWhenScarce(c).k \in {u, bdd_noderesize(u)} BY DEF GrowWhenScarce
<1>2. Keeps(u, bdd_noderesize(u), stay)
  <2>1. Table(u) /\ InUse(u) = stay BY DEF Keeps
  <2> QED BY <2>1, GrowRight
<1>3. Keeps(k, bdd_noderesize(u), stay) BY <1>2, KeepsOn
<1> QED BY <1>1, <1>3

\* With no entry free, the table is collected and grows if few are free then.
LEMMA MakeNewRight ==
  ASSUME NEW k, Table(k), NEW p, NEW refs, Range(refs) \subseteq InUse(k) \cup Terminals,
         NEW level, NEW low \in Range(refs) \cup Terminals, NEW high \in Range(refs) \cup Terminals,
         Wanted(k, level, low, high)
  PROVE  Made(k, MakeNew(k, p, level, low, high, refs), Reachable(k, Range(refs) \cup Referenced(k)))
<1> DEFINE roots == Range(refs) \cup Referenced(k)
           stay == Reachable(k, roots)
           r == MakeNew(k, p, level, low, high, refs)
<1>1. stay \subseteq InUse(k) /\ roots \ Terminals \subseteq stay
  <2>1. Shape(k) /\ Nodes(k) BY DEF Table
  <2>2. roots \in SUBSET (InUse(k) \cup Terminals) BY DEF Referenced
  <2> HIDE DEF roots
  <2> QED BY <2>1, <2>2, ReachableRight
<1>2. low \in stay \cup Terminals /\ high \in stay \cup Terminals BY <1>1 DEF roots
<1>3. CASE k.freepos # 0
  <2>1. r = NewNode(k, p, level, low, high) BY <1>3 DEF MakeNew, TakeEntry
  <2>2. Keeps(k, k, InUse(k)) BY KeepsAll
  <2> HIDE DEF stay
  <2>3. Made(k, NewNode(k, p, level, low, high), stay) BY <1>1, <1>3, <2>2, NewNodeMade
  <2> QED BY <2>1, <2>3 DEF stay
<1>4. CASE k.freepos = 0
  <2> DEFINE c == bdd_gbc(k, p, refs)
  <2>1. r = AfterSweep(c, level, low, high) BY <1>4 DEF MakeNew
  <2>2. Keeps(k, c.k, stay) BY CollectRight
  <2>3. c = [k |-> c.k, p |-> c.p] BY DEF bdd_gbc
  <2> HIDE DEF c, r, stay
  <2>4. CASE c.k.ready /\ c.k.size - c.k.freenum >= c.k.nextreorder
    <3>1. r.k = c.k /\ r.error = "reorder" BY <2>1, <2>4 DEF AfterSweep
    <3>2. ~Succeeds(r) /\ ~Exhausted(r) BY <3>1, Zenon DEF Succeeds, Exhausted
    <3>3. Made(k, r, stay) BY <2>2, <3>1, <3>2 DEF Made, Keeps, SameSession, SameRest
    <3> QED BY <3>3 DEF stay, r
  <2>5. CASE ~(c.k.ready /\ c.k.size - c.k.freenum >= c.k.nextreorder)
    <3>1. r = TakeEntry(GrowWhenScarce(c), level, low, high) BY <2>1, <2>5 DEF AfterSweep
    <3>2. k.size \in Nat BY DEF Table, OddPrime
    <3>3. Keeps(k, GrowWhenScarce(c).k, stay) BY <2>2, <2>3, <3>2, ScarceRight
    <3>4. Wanted(GrowWhenScarce(c).k, level, low, high) BY <1>1, <1>2, <3>3, WantedStill
    <3>5. Made(k, r, stay) BY <3>1, <3>3, <3>4, TakeEntryMade
    <3> QED BY <3>5 DEF stay, r
  <2> QED BY <2>4, <2>5
<1> QED BY <1>3, <1>4

\* With equal children there is no node to make.
LEMMA MakenodeSame ==
  ASSUME NEW k, NEW p, NEW refs, NEW level, NEW low
  PROVE  LET r == bdd_makenode(k, p, level, low, low, refs)
         IN  r.k = k /\ r.n = low /\ Succeeds(r)
BY Zenon DEF bdd_makenode, MakeUnlessFound, Succeeds

\* bdd_makenode returns the node or makes it, and the nodes in use by the operation in
\* progress and those that are referenced stay what they were.
LEMMA MakenodeRight ==
  ASSUME NEW k, Table(k), NEW p, NEW refs, Range(refs) \subseteq InUse(k) \cup Terminals,
         NEW level, NEW low \in Range(refs) \cup Terminals, NEW high \in Range(refs) \cup Terminals,
         low # high, level \in Nat, level < k.varnum
  PROVE  Made(k, bdd_makenode(k, p, level, low, high, refs),
              Reachable(k, Range(refs) \cup Referenced(k)))
<1> DEFINE roots == Range(refs) \cup Referenced(k)
           stay == Reachable(k, roots)
           found == Lookup(k, level, low, high)
           r == bdd_makenode(k, p, level, low, high, refs)
<1>0. Shape(k) /\ Nodes(k) /\ k.size \in Nat \ {0, 1} BY DEF Table, Shape
<1>1. stay \subseteq InUse(k)
  <2>1. roots \in SUBSET (InUse(k) \cup Terminals) BY DEF Referenced
  <2> HIDE DEF roots
  <2> QED BY <1>0, <2>1, ReachableRight
<1>2. Makeable(k, level, low, high) BY DEF Makeable
<1>3. InUse(k) \in SUBSET (Places(k) \ {0}) /\ InUse(k) \cup Terminals \subseteq Int
  <2>1. DOMAIN k.node = Places(k) /\ Places(k) \subseteq Int BY <1>0 DEF Shape, Places
  <2> QED BY <2>1 DEF InUse, Terminals
<1>4. /\ found = 0 \/ found \in InUse(k)
      /\ found = 0 => \A n \in InUse(k) : ~Matches(k, n, level, low, high)
  <2>1. Hashed(k, InUse(k)) /\ level \in Int /\ low \in Int /\ high \in Int
    BY <1>2, <1>3 DEF Table, Makeable
  <2> QED BY <1>0, <1>3, <2>1, LookupRight
<1>5. SameSession(k, k) /\ \A n \in stay \cup Terminals : SameNode(k.node[n], k.node[n])
  BY DEF SameSession, SameNode
<1>6. r = MakeUnlessFound(k, p, level, low, high, refs, found) BY DEF bdd_makenode
<1> HIDE DEF found, r, stay
<1>7. CASE found # 0
  <2>1. r.k = k /\ r.n = found
    BY <1>6, <1>7, Zenon DEF MakeUnlessFound
  <2>5. Succeeds(r) BY <1>6, <1>7, Zenon DEF MakeUnlessFound, Succeeds
  <2>2. r.n \in InUse(k) BY <1>4, <1>7, <2>1
  <2>3. ~Exhausted(r) BY <2>5, SucceedsOrNot
  <2>4. Made(k, r, stay) BY <1>1, <1>5, <2>1, <2>2, <2>3 DEF Made
  <2> QED BY <2>4 DEF r, stay
<1>8. CASE found = 0 /\ (level >= LEVEL(k, low) \/ level >= LEVEL(k, high))
  <2>1. r.k = k /\ r.error = "BDD_ILLBDD"
    BY <1>6, <1>8, Zenon DEF MakeUnlessFound
  <2>2. ~Exhausted(r) /\ ~Succeeds(r) BY <2>1, Zenon DEF Exhausted, Succeeds
  <2>3. Made(k, r, stay) BY <1>1, <1>5, <2>1, <2>2 DEF Made
  <2> QED BY <2>3 DEF r, stay
<1>9. CASE found = 0 /\ ~(level >= LEVEL(k, low) \/ level >= LEVEL(k, high))
  <2>1. r = MakeNew(k, p, level, low, high, refs) BY <1>6, <1>9, Zenon DEF MakeUnlessFound
  <2>2. level < LEVEL(k, low) /\ level < LEVEL(k, high)
    <3>1. low \in Places(k) /\ high \in Places(k) BY <1>0, <1>2, <1>3 DEF Makeable, Terminals, Places
    <3>2. LEVEL(k, low) \in Nat /\ LEVEL(k, high) \in Nat BY <1>0, <3>1 DEF Shape, EntryShape, LEVEL
    <3> QED BY <1>9, <3>2
  <2>3. Wanted(k, level, low, high) BY <1>2, <1>4, <1>9, <2>2 DEF Wanted
  <2>4. Made(k, MakeNew(k, p, level, low, high, refs), stay) BY <2>3, MakeNewRight DEF stay
  <2> QED BY <2>1, <2>4 DEF r, stay
<1> QED BY <1>7, <1>8, <1>9

----------------------------------------------------------------------------
(* References, the limit on the nodes, and the start.                      *)

Revised(k, node, maxnodes, varset) ==
    [k EXCEPT !.node = node, !.maxnodes = maxnodes, !.varset = varset]

\* What changes neither the nodes nor their links.
LEMMA RevisedRight ==
  ASSUME NEW k, Table(k), NEW maxnodes \in Nat, NEW varset, NEW node,
         node = [m \in Places(k) |-> node[m]],
         \A m \in Places(k) :
            /\ EntryShape(node[m])
            /\ node[m].low = k.node[m].low /\ node[m].high = k.node[m].high
            /\ node[m].hash = k.node[m].hash /\ node[m].next = k.node[m].next
            /\ \/ node[m].level = k.node[m].level
               \/ m \in Terminals /\ node[m].level = k.varnum,
         \A n \in Range(varset) : n \in InUse(k) /\ node[n].refcou = MAXREF
  PROVE  LET u == Revised(k, node, maxnodes, varset)
         IN  /\ Table(u) /\ InUse(u) = InUse(k)
             /\ u.node = node /\ u.varset = varset /\ u.varnum = k.varnum
             /\ u.level2var = k.level2var /\ u.size = k.size /\ u.produced = k.produced
<1> DEFINE u == Revised(k, node, maxnodes, varset)
<1>1. Shape(k) /\ Fields(k) BY DEF Table, Shape
<1>2. u = [node |-> node, size |-> k.size, freepos |-> k.freepos, freenum |-> k.freenum,
           produced |-> k.produced, resized |-> k.resized, maxnodes |-> maxnodes,
           varnum |-> k.varnum, varset |-> varset, level2var |-> k.level2var,
           ready |-> k.ready, nextreorder |-> k.nextreorder]
  <2>1. u = [k EXCEPT !.node = node, !.maxnodes = maxnodes, !.varset = varset] BY DEF Revised
  <2> HIDE DEF u
  <2> QED BY <1>1, <2>1 DEF Fields
<1> HIDE DEF u
<1>3. /\ u.node = node /\ u.varset = varset /\ u.maxnodes = maxnodes /\ u.size = k.size
      /\ u.freepos = k.freepos /\ u.freenum = k.freenum /\ u.varnum = k.varnum
      /\ u.level2var = k.level2var /\ u.produced = k.produced /\ Fields(u)
  BY <1>2 DEF Fields
<1>4. Places(u) = Places(k) BY <1>3 DEF Places
<1>5. Shape(u)
  <2>1. \A m \in Places(u) : EntryShape(u.node[m]) BY <1>3, <1>4
  <2>2. \A m \in Places(u) : u.node[m].hash \in Places(u) /\ u.node[m].next \in Places(u)
    BY <1>1, <1>3, <1>4 DEF Shape
  <2>3. u.node = [m \in Places(u) |-> u.node[m]] BY <1>3, <1>4
  <2>4. u.size \in Nat \ {0, 1} /\ u.freepos \in Places(u) /\ u.freenum \in Nat
    BY <1>1, <1>3, <1>4 DEF Shape
  <2> QED BY <1>3, <2>1, <2>2, <2>3, <2>4 DEF Shape
<1>6. SameLinks(k, u) BY <1>3 DEF SameLinks, LOW, HIGH, LEVEL
<1>7. InUse(u) = InUse(k)
  <2>1. DOMAIN u.node = Places(k) /\ DOMAIN k.node = Places(k) BY <1>1, <1>4, <1>5 DEF Shape
  <2>2. \A m \in Places(k) : LOW(u, m) = LOW(k, m) BY <1>6 DEF SameLinks
  <2> QED BY <2>1, <2>2 DEF InUse
<1>8. Pinned(u) BY <1>3, <1>7 DEF Pinned
<1>9. u.maxnodes \in Nat BY <1>3
<1>10. Table(u) BY <1>5, <1>6, <1>8, <1>9, SameLinksRight
<1> QED BY <1>3, <1>7, <1>10 DEF u

\* One entry with another number of references.
Recounted(k, n, count) == [k.node EXCEPT ![n].refcou = count]

\* The count of one entry, and nothing else, is another.
LEMMA RecountedRight ==
  ASSUME NEW k, Table(k), NEW n \in Places(k), NEW count \in Nat
  PROVE  LET node == Recounted(k, n, count)
         IN  /\ node = [m \in Places(k) |-> node[m]]
             /\ \A m \in Places(k) :
                  /\ EntryShape(node[m])
                  /\ node[m].low = k.node[m].low /\ node[m].high = k.node[m].high
                  /\ node[m].hash = k.node[m].hash /\ node[m].next = k.node[m].next
                  /\ node[m].level = k.node[m].level /\ node[m].xvar = k.node[m].xvar
                  /\ node[m].dclause = k.node[m].dclause
                  /\ node[m].refcou = IF m = n THEN count ELSE k.node[m].refcou
<1> DEFINE node == Recounted(k, n, count)
           old == k.node[n]
           entry == [old EXCEPT !.refcou = count]
<1>1. \A m \in Places(k) : EntryShape(k.node[m]) BY DEF Table, Shape
<1>2. entry = [level |-> old.level, low |-> old.low, high |-> old.high, hash |-> old.hash,
               next |-> old.next, refcou |-> count, xvar |-> old.xvar, dclause |-> old.dclause]
  <2>1. EntryShape(old) BY <1>1
  <2>2. entry = [old EXCEPT !.refcou = count] OBVIOUS
  <2> HIDE DEF old, entry
  <2> QED BY <2>1, <2>2 DEF EntryShape
<1>3. node = [m \in Places(k) |-> IF m = n THEN entry ELSE k.node[m]]
  <2>1. k.node = [m \in Places(k) |-> k.node[m]] BY DEF Table, Shape
  <2>2. node = [k.node EXCEPT ![n] = entry] BY DEF Recounted
  <2> HIDE DEF node, entry
  <2> QED BY <2>1, <2>2
<1>4. EntryShape(old) BY <1>1
<1> HIDE DEF node, entry, old
<1>5. /\ EntryShape(entry) /\ entry.low = old.low /\ entry.high = old.high
      /\ entry.hash = old.hash /\ entry.next = old.next /\ entry.level = old.level
      /\ entry.xvar = old.xvar /\ entry.dclause = old.dclause /\ entry.refcou = count
  BY <1>2, <1>4 DEF EntryShape
<1>6. node = [m \in Places(k) |-> node[m]] BY <1>3
<1>7. ASSUME NEW m \in Places(k)
      PROVE  /\ EntryShape(node[m])
             /\ node[m].low = k.node[m].low /\ node[m].high = k.node[m].high
             /\ node[m].hash = k.node[m].hash /\ node[m].next = k.node[m].next
             /\ node[m].level = k.node[m].level /\ node[m].xvar = k.node[m].xvar
             /\ node[m].dclause = k.node[m].dclause
             /\ node[m].refcou = IF m = n THEN count ELSE k.node[m].refcou
  <2>1. CASE m = n
    <3>1. node[m] = entry BY <1>3, <2>1
    <3> QED BY <1>5, <2>1, <3>1 DEF old
  <2>2. CASE m # n
    <3>1. node[m] = k.node[m] BY <1>3, <2>2
    <3> QED BY <1>1, <2>2, <3>1
  <2> QED BY <2>1, <2>2
<1> QED BY <1>6, <1>7 DEF node

\* A table with the same nodes, apart from their references.
Referred(k, u) ==
    /\ Table(u) /\ InUse(u) = InUse(k) /\ u.varnum = k.varnum
    /\ u.produced = k.produced /\ u.varset = k.varset /\ Survive(k, u, InUse(k))
    /\ \A n \in InUse(k) : /\ Matches(u, n, LEVEL(k, n), LOW(k, n), HIGH(k, n))
                           /\ XVAR(u, n) = XVAR(k, n)

\* Any count may change except those of the variables.
LEMMA CountRight ==
  ASSUME NEW k, Table(k), NEW n \in InUse(k), NEW count \in Nat, k.node[n].refcou # MAXREF
  PROVE  Referred(k, [k EXCEPT !.node[n].refcou = count])
<1> DEFINE node == Recounted(k, n, count)
           u == Revised(k, node, k.maxnodes, k.varset)
<1>1. k.maxnodes \in Nat /\ Shape(k) /\ Pinned(k) BY DEF Table
<1>2. n \in Places(k) /\ InUse(k) \subseteq Places(k) BY <1>1 DEF InUse, Shape
<1>3. [k EXCEPT !.node[n].refcou = count] = u
  <2>1. [k EXCEPT !.node[n].refcou = count] = [k EXCEPT !.node = node] BY DEF Recounted
  <2>2. Fields(k) BY <1>1 DEF Shape
  <2> HIDE DEF node
  <2>3. [k EXCEPT !.node = node] = Revised(k, node, k.maxnodes, k.varset)
    BY <2>2 DEF Fields, Revised
  <2> QED BY <2>1, <2>3
<1>4. /\ node = [m \in Places(k) |-> node[m]]
      /\ \A m \in Places(k) :
           /\ EntryShape(node[m])
           /\ node[m].low = k.node[m].low /\ node[m].high = k.node[m].high
           /\ node[m].hash = k.node[m].hash /\ node[m].next = k.node[m].next
           /\ node[m].level = k.node[m].level /\ node[m].xvar = k.node[m].xvar
           /\ node[m].dclause = k.node[m].dclause
           /\ node[m].refcou = IF m = n THEN count ELSE k.node[m].refcou
  BY <1>2, RecountedRight
<1> HIDE DEF node
<1>5. \A m \in Range(k.varset) : m \in InUse(k) /\ node[m].refcou = MAXREF
  BY <1>1, <1>2, <1>4 DEF Pinned
<1>6. /\ Table(u) /\ InUse(u) = InUse(k) /\ u.node = node /\ u.varnum = k.varnum
      /\ u.produced = k.produced /\ u.level2var = k.level2var /\ u.varset = k.varset
  BY <1>1, <1>4, <1>5, RevisedRight
<1> HIDE DEF u
<1>7. \A m \in InUse(k) : /\ Matches(u, m, LEVEL(k, m), LOW(k, m), HIGH(k, m))
                          /\ XVAR(u, m) = XVAR(k, m)
  BY <1>2, <1>4, <1>6 DEF Matches, LEVEL, LOW, HIGH, XVAR
<1>9. Survive(k, u, InUse(k))
  <2> SUFFICES ASSUME NEW m \in InUse(k)
               PROVE  /\ SameEntry(k.node[m], u.node[m])
                      /\ k.node[m].refcou = MAXREF => u.node[m].refcou = MAXREF
    BY <1>6 DEF Survive
  <2> QED BY <1>2, <1>4, <1>6 DEF SameEntry
<1>8. Referred(k, u) BY <1>6, <1>7, <1>9 DEF Referred
<1> QED BY <1>3, <1>8

\* A table has its own nodes.
LEMMA ReferredSelf ==
  ASSUME NEW k, Table(k) PROVE Referred(k, k)
BY DEF Referred, Matches, Survive, SameEntry

\* Referencing and releasing a node.
LEMMA AddrefRight ==
  ASSUME NEW k, Table(k), NEW n \in InUse(k) \cup Terminals
  PROVE  Referred(k, bdd_addref(k, n)) /\ Referred(k, bdd_delref(k, n))
<1>1. CASE n \in Terminals BY <1>1, ReferredSelf DEF bdd_addref, bdd_delref
<1>2. CASE n \in InUse(k)
  <2> DEFINE old == k.node[n].refcou
  <2>1. n \in Places(k) BY <1>2 DEF InUse, Table, Shape
  <2>2. old \in Nat BY <2>1 DEF Table, Shape, EntryShape
  <2>3. MAXREF \in Nat BY NodeTableAssumption
  <2>4. Referred(k, bdd_addref(k, n))
    <3>1. CASE old >= MAXREF BY <3>1, ReferredSelf DEF bdd_addref
    <3>2. CASE old < MAXREF
      <4>1. ~(n \in Terminals \/ old >= MAXREF) BY <1>2, <2>2, <2>3, <3>2 DEF InUse
      <4>2. bdd_addref(k, n) = [k EXCEPT !.node[n].refcou = old + 1] BY <4>1 DEF bdd_addref
      <4>3. old + 1 \in Nat /\ old # MAXREF BY <2>2, <2>3, <3>2
      <4> QED BY <1>2, <4>2, <4>3, CountRight
    <3> QED BY <2>2, <2>3, <3>1, <3>2
  <2>5. Referred(k, bdd_delref(k, n))
    <3>1. CASE old \in {0, MAXREF} BY <3>1, ReferredSelf DEF bdd_delref
    <3>2. CASE old \notin {0, MAXREF}
      <4>1. ~(n \in Terminals \/ old \in {0, MAXREF}) BY <1>2, <3>2 DEF InUse
      <4>2. bdd_delref(k, n) = [k EXCEPT !.node[n].refcou = old - 1] BY <4>1 DEF bdd_delref
      <4>3. old - 1 \in Nat /\ old # MAXREF BY <2>2, <3>2
      <4> QED BY <1>2, <4>2, <4>3, CountRight
    <3> QED BY <3>1, <3>2
  <2> QED BY <2>4, <2>5
<1> QED BY <1>1, <1>2

\* The smallest odd prime from n on, when there is one up to 2 * n + 3 (bdd_prime_gte).
LEMMA PrimeAbove ==
  ASSUME NEW n \in Nat, n >= 2, \E m \in n..(2 * n + 3) : m % 2 = 1 /\ IsPrime(m)
  PROVE  OddPrime(bdd_prime_gte(n))
<1> DEFINE s == {m \in n..(2 * n + 3) : m % 2 = 1 /\ IsPrime(m)}
           Smallest(m) == /\ m % 2 = 1 /\ IsPrime(m)
                          /\ \A l \in n..(m - 1) : ~(l % 2 = 1 /\ IsPrime(l))
           c == bdd_prime_gte(n)
<1>1. PICK m \in s : \A y \in s : m <= y
  <2>1. s \in SUBSET Nat /\ s # {} OBVIOUS
  <2> HIDE DEF s
  <2> QED BY <2>1, LeastOfSet
<1>2. m \in n..(2 * n + 3) /\ m % 2 = 1 /\ IsPrime(m) OBVIOUS
<1>3. ASSUME NEW l \in n..(m - 1) PROVE ~(l % 2 = 1 /\ IsPrime(l))
  <2>1. l \in n..(2 * n + 3) /\ ~(m <= l) BY <1>2
  <2>2. l \notin s BY <1>1, <2>1
  <2> QED BY <2>1, <2>2
<1>4. \E x \in n..(2 * n + 3) : Smallest(x)
  <2> HIDE DEF s
  <2> QED BY <1>2, <1>3
<1>5. c \in n..(2 * n + 3) /\ Smallest(c)
  <2>1. c = CHOOSE x \in n..(2 * n + 3) : Smallest(x) BY DEF bdd_prime_gte
  <2> HIDE DEF Smallest, c, s
  <2> QED BY <1>4, <2>1
<1> HIDE DEF c
<1>6. c \in Nat /\ c % 2 = 1 /\ IsPrime(c) /\ c >= 2 BY <1>5
<1>7. c >= 3 BY <1>6
<1> QED BY <1>6, <1>7 DEF OddPrime, c

\* An empty table for variables to be added to.
Empty(k) == Table(k) /\ InUse(k) = {} /\ k.varset = <<>>

\* bdd_init makes one entry for each terminal and frees the others.
LEMMA InitRight ==
  ASSUME NEW order, NEW num \in Nat, OddPrime(bdd_prime_gte(InitNodes))
  PROVE  LET k == [bdd_init(InitNodes, order) EXCEPT !.varnum = num]
         IN  Empty(k) /\ k.varnum = num /\ k.level2var = order
<1> DEFINE size == bdd_prime_gte(InitNodes)
           terminal == [UnusedEntry EXCEPT !.level = MAXVAR, !.refcou = MAXREF]
           entry(n) == IF n \in Terminals THEN [terminal EXCEPT !.low = n, !.high = n]
                       ELSE [UnusedEntry EXCEPT !.next = IF n = size - 1 THEN 0 ELSE n + 1]
           node == [n \in 0..(size - 1) |-> entry(n)]
           start == bdd_init(InitNodes, order)
           k == [start EXCEPT !.varnum = num]
           no == FALSE
           none == <<>>
<1>1. size \in Nat /\ size >= 3 /\ OddPrime(size) /\ size \in Nat \ {0, 1} BY DEF OddPrime
<1>2. k = [node |-> node, size |-> size, freepos |-> 2, freenum |-> size - 2, produced |-> 0,
           resized |-> no, maxnodes |-> 0, varnum |-> num, varset |-> none,
           level2var |-> order, ready |-> no, nextreorder |-> size]
  <2>1. start = [node |-> node, size |-> size, freepos |-> 2, freenum |-> size - 2, produced |-> 0,
                 resized |-> no, maxnodes |-> 0, varnum |-> 0, varset |-> none,
                 level2var |-> order, ready |-> no, nextreorder |-> size]
    BY DEF bdd_init
  <2>2. k = [start EXCEPT !.varnum = num] OBVIOUS
  <2> HIDE DEF k, size, node, start, no, none
  <2> QED BY <2>1, <2>2
<1> HIDE DEF k, size, start, node, no, none
<1>3. /\ k.node = node /\ k.size = size /\ k.freepos = 2 /\ k.freenum = size - 2
      /\ k.maxnodes = 0 /\ k.varnum = num /\ k.varset = none /\ k.level2var = order
      /\ Fields(k)
  BY <1>2 DEF Fields
<1>4. ASSUME NEW n \in Nat
      PROVE  /\ n \in Terminals =>
                 entry(n) = [level |-> MAXVAR, low |-> n, high |-> n, hash |-> 0, next |-> 0,
                             refcou |-> MAXREF, xvar |-> 0, dclause |-> 0]
             /\ n \notin Terminals =>
                 entry(n) = [level |-> 0, low |-> -1, high |-> 0, hash |-> 0,
                             next |-> IF n = size - 1 THEN 0 ELSE n + 1,
                             refcou |-> 0, xvar |-> 0, dclause |-> 0]
  BY DEF UnusedEntry
<1> HIDE DEF entry
<1>5. Places(k) = 0..(size - 1) /\ Places(k) \subseteq Nat BY <1>1, <1>3 DEF Places
<1>6. k.node = [n \in Places(k) |-> k.node[n]] /\ \A n \in Places(k) : k.node[n] = entry(n)
  BY <1>3, <1>5 DEF node
<1>7. ASSUME NEW n \in Places(k)
      PROVE  /\ EntryShape(k.node[n]) /\ k.node[n].hash = 0 /\ k.node[n].next \in Places(k)
             /\ n \notin Terminals => /\ k.node[n].low = -1
                                      /\ k.node[n].next = IF n = size - 1 THEN 0 ELSE n + 1
  <2>1. k.node[n] = entry(n) /\ n \in Nat BY <1>5, <1>6
  <2>2. CASE n \in Terminals
    <3> DEFINE e == k.node[n]
    <3>1. e = [level |-> MAXVAR, low |-> n, high |-> n, hash |-> 0, next |-> 0,
               refcou |-> MAXREF, xvar |-> 0, dclause |-> 0]
      BY <1>4, <2>1, <2>2
    <3> HIDE DEF e
    <3>2. /\ EntryShape(e) /\ e.hash = 0 /\ e.next = 0
      BY <2>1, <3>1, NodeTableAssumption DEF EntryShape, MAXVAR
    <3> QED BY <1>1, <1>5, <2>2, <3>2 DEF e
  <2>3. CASE n \notin Terminals
    <3> DEFINE e == k.node[n]
               next == IF n = size - 1 THEN 0 ELSE n + 1
    <3>1. e = [level |-> 0, low |-> -1, high |-> 0, hash |-> 0, next |-> next,
               refcou |-> 0, xvar |-> 0, dclause |-> 0]
      BY <1>4, <2>1, <2>3
    <3>2. next \in Places(k) /\ next \in Nat BY <1>1, <1>5
    <3> HIDE DEF e, next
    <3>3. /\ EntryShape(e) /\ e.hash = 0 /\ e.next = next /\ e.low = -1
      BY <3>1, <3>2 DEF EntryShape
    <3> QED BY <3>2, <3>3 DEF e, next
  <2> QED BY <2>2, <2>3
<1>8. DOMAIN k.node = Places(k) BY <1>6
<1>9. InUse(k) = {} BY <1>7, <1>8 DEF InUse, LOW
<1>10. Unused(k) = 2..(size - 1)
  <2>1. \A n \in 0..(size - 1) : n \notin Terminals <=> n \in 2..(size - 1)
    BY <1>1 DEF Terminals
  <2>2. 2..(size - 1) \subseteq 0..(size - 1) BY <1>1
  <2> QED BY <1>5, <1>9, <2>1, <2>2 DEF Unused
<1>11. Shape(k)
  <2>1. k.size \in Nat \ {0, 1} /\ k.freenum \in Nat BY <1>1, <1>3
  <2>2. 0 \in Places(k) /\ k.freepos \in Places(k) BY <1>1, <1>3, <1>5
  <2> QED BY <1>3, <1>6, <1>7, <2>1, <2>2 DEF Shape
<1>12. Hashed(k, InUse(k))
  <2> SUFFICES ASSUME NEW b \in Places(k)
               PROVE  Linked(NextOf(k), 0, k.node[b].hash, {n \in InUse(k) : Hash(k, n) = b})
    BY DEF Hashed
  <2>1. {n \in InUse(k) : Hash(k, n) = b} = {} BY <1>9
  <2>2. k.node[b].hash = 0 BY <1>7
  <2>3. Linked(NextOf(k), 0, 0, {}) BY LinkedNone
  <2> QED BY <2>1, <2>2, <2>3
<1>13. Freed(k, Unused(k))
  <2> DEFINE e == [n \in 0..(size - 2) |-> IF n = size - 2 THEN 0 ELSE n + 2]
             set == 2..(size - 1)
  <2>1. size - 2 \in Nat /\ e \in [0..(size - 2) -> Int] BY <1>1
  <2>2. e[0] = 2 /\ e[size - 2] = 0 BY <1>1
  <2>3. \A n \in 0..((size - 2) - 1) : /\ e[n] = n + 2 /\ n + 2 \in set
                                       /\ e[n + 1] = IF n + 2 = size - 1 THEN 0 ELSE n + 3
    BY <1>1
  <2>4. \A i \in set : i - 2 \in 0..((size - 2) - 1) /\ (i - 2) + 2 = i BY <1>1
  <2> HIDE DEF e
  <2>5. ASSUME NEW n \in 0..((size - 2) - 1) PROVE e[n + 1] = NextOf(k)[e[n]]
    <3>1. n + 2 \in Places(k) /\ n + 2 \notin Terminals BY <1>5, <2>3 DEF Terminals
    <3>2. NextOf(k)[n + 2] = k.node[n + 2].next BY <3>1, NextIs
    <3>3. (n + 2) + 1 = n + 3 OBVIOUS
    <3> QED BY <1>7, <2>3, <3>1, <3>2, <3>3
  <2>6. LinkedBy(NextOf(k), 0, 2, set, size - 2, e)
    <3>1. \A i \in set : \E n \in 0..((size - 2) - 1) : e[n] = i BY <2>3, <2>4
    <3>2. \A m, n \in 0..((size - 2) - 1) : e[m] = e[n] => m = n BY <2>3
    <3> HIDE DEF set
    <3> QED BY <2>2, <2>3, <2>5, <3>1, <3>2 DEF LinkedBy
  <2>7. Linked(NextOf(k), 0, 2, set) BY <2>1, <2>6 DEF Linked
  <2>8. Cardinality(set) = size - 2
    <3> HIDE DEF set
    <3> QED BY <2>1, <2>6, LinkedLength
  <2> QED BY <1>3, <1>10, <2>7, <2>8 DEF Freed
<1>14. Nodes(k) /\ Unique(k) BY <1>3, <1>9 DEF Nodes, Unique
<1>15. Pinned(k)
  <2>1. Range(<<>>) = {} BY DEF Range
  <2> QED BY <1>3, <2>1 DEF Pinned, none
<1>16. Table(k) BY <1>1, <1>3, <1>11, <1>12, <1>13, <1>14, <1>15 DEF Table
<1> QED BY <1>3, <1>9, <1>16 DEF Empty, k, none, start

\* The table while the variables are added.
Ready(num, order, c) ==
    /\ c = [k |-> c.k, p |-> c.p, error |-> c.error]
    /\ Table(c.k) /\ c.k.varnum = num /\ c.k.level2var = order /\ c.k.varset \in Seq(Nat)

Pin(k, n) == [k EXCEPT !.node[n].refcou = MAXREF, !.varset = Append(@, n)]

\* The node of a variable is referenced for good.
LEMMA PinRight ==
  ASSUME NEW k, Table(k), k.varset \in Seq(Nat), NEW n \in InUse(k)
  PROVE  /\ Table(Pin(k, n)) /\ Pin(k, n).varnum = k.varnum
         /\ Pin(k, n).level2var = k.level2var /\ Pin(k, n).varset \in Seq(Nat)
         /\ Len(Pin(k, n).varset) = Len(k.varset) + 1 /\ Pin(k, n).produced = k.produced
         /\ InUse(Pin(k, n)) = InUse(k) /\ Survive(k, Pin(k, n), InUse(k))
         /\ Pin(k, n).node[n].refcou = MAXREF
<1> DEFINE node == Recounted(k, n, MAXREF)
           varset == Append(k.varset, n)
           u == Revised(k, node, k.maxnodes, varset)
<1>1. k.maxnodes \in Nat /\ Shape(k) /\ Pinned(k) BY DEF Table
<1>2. n \in Places(k) /\ InUse(k) \subseteq Places(k) /\ Places(k) \subseteq Nat
  BY <1>1 DEF InUse, Shape, Places
<1>3. Pin(k, n) = u
  <2>1. Pin(k, n) = [k EXCEPT !.node = node, !.varset = varset] BY DEF Recounted, Pin
  <2>2. Fields(k) BY <1>1 DEF Shape
  <2> HIDE DEF node, varset
  <2>3. [k EXCEPT !.node = node, !.varset = varset] = Revised(k, node, k.maxnodes, varset)
    BY <2>2 DEF Fields, Revised
  <2> QED BY <2>1, <2>3
<1>4. /\ node = [m \in Places(k) |-> node[m]]
      /\ \A m \in Places(k) :
           /\ EntryShape(node[m])
           /\ node[m].low = k.node[m].low /\ node[m].high = k.node[m].high
           /\ node[m].hash = k.node[m].hash /\ node[m].next = k.node[m].next
           /\ node[m].level = k.node[m].level /\ node[m].xvar = k.node[m].xvar
           /\ node[m].dclause = k.node[m].dclause
           /\ node[m].refcou = IF m = n THEN MAXREF ELSE k.node[m].refcou
  BY <1>2, NodeTableAssumption, RecountedRight
<1>5. varset \in Seq(Nat) /\ Len(varset) = Len(k.varset) + 1 BY <1>2, AppendProperties
<1>6. \A m \in Range(varset) : m \in Range(k.varset) \cup {n}
  <2> SUFFICES ASSUME NEW i \in DOMAIN varset PROVE varset[i] \in Range(k.varset) \cup {n}
    BY DEF Range
  <2>1. DOMAIN varset = 1..(Len(k.varset) + 1) /\ Len(k.varset) \in Nat
    BY <1>2, <1>5, AppendProperties, LenProperties
  <2>2. DOMAIN k.varset = 1..Len(k.varset) BY LenProperties
  <2>3. CASE i = Len(k.varset) + 1 BY <1>2, <2>3, AppendProperties
  <2>4. CASE i # Len(k.varset) + 1
    <3>1. i \in 1..Len(k.varset) BY <2>1, <2>4
    <3>2. varset[i] = k.varset[i] BY <1>2, <3>1, AppendProperties
    <3> QED BY <2>2, <3>1, <3>2 DEF Range
  <2> QED BY <2>3, <2>4
<1> HIDE DEF node, varset
<1>7. \A m \in Range(varset) : m \in InUse(k) /\ node[m].refcou = MAXREF
  BY <1>1, <1>2, <1>4, <1>6 DEF Pinned
<1>8. /\ Table(u) /\ u.varset = varset /\ u.varnum = k.varnum /\ u.level2var = k.level2var
      /\ InUse(u) = InUse(k) /\ u.node = node /\ u.produced = k.produced
  <2> HIDE DEF u
  <2> DEFINE max == k.maxnodes
  <2>1. max \in Nat BY <1>1
  <2> HIDE DEF max
  <2>3. \A m \in Places(k) :
           /\ EntryShape(node[m])
           /\ node[m].low = k.node[m].low /\ node[m].high = k.node[m].high
           /\ node[m].hash = k.node[m].hash /\ node[m].next = k.node[m].next
           /\ \/ node[m].level = k.node[m].level
              \/ m \in Terminals /\ node[m].level = k.varnum
    BY <1>4
  <2>4. node = [m \in Places(k) |-> node[m]] BY <1>4
  <2>2. LET v == Revised(k, node, max, varset)
        IN  /\ Table(v) /\ v.varset = varset /\ v.varnum = k.varnum /\ v.level2var = k.level2var
            /\ InUse(v) = InUse(k) /\ v.node = node /\ v.produced = k.produced
    BY <1>7, <2>1, <2>3, <2>4, RevisedRight
  <2> QED BY <2>2, Zenon DEF max, u
<1>9. Survive(k, u, InUse(k))
  <2> SUFFICES ASSUME NEW m \in InUse(k)
               PROVE  /\ SameEntry(k.node[m], u.node[m])
                      /\ k.node[m].refcou = MAXREF => u.node[m].refcou = MAXREF
    BY <1>8 DEF Survive
  <2> QED BY <1>2, <1>4, <1>8 DEF SameEntry
<1>10. u.node[n].refcou = MAXREF BY <1>2, <1>4, <1>8
<1> QED BY <1>3, <1>5, <1>8, <1>9, <1>10

\* One node of a variable.
LEMMA AddLiteralRight ==
  ASSUME NEW num, NEW order, NEW c, Ready(num, order, c), NEW level \in Nat, level < num,
         NEW low \in Terminals, NEW high \in Terminals, low # high
  PROVE  Ready(num, order, AddLiteral(c, level, low, high))
<1> DEFINE r == bdd_makenode(c.k, c.p, level, low, high, <<>>)
           d == AddLiteral(c, level, low, high)
<1>1. CASE c.error # ""
  <2>1. d = c BY <1>1, Zenon DEF AddLiteral
  <2> QED BY <2>1
<1>2. CASE c.error = ""
  <2>1. d = [k |-> IF Succeeds(r) THEN Pin(r.k, r.n) ELSE r.k, p |-> r.p, error |-> r.error]
    BY <1>2, Zenon DEF AddLiteral, Succeeds, Pin
  <2>2. d = [k |-> d.k, p |-> d.p, error |-> d.error]
    <3> HIDE DEF d, r
    <3> QED BY <2>1, SMT
  <2>3. d.k = IF Succeeds(r) THEN Pin(r.k, r.n) ELSE r.k
    <3> HIDE DEF d, r
    <3> QED BY <2>1
  <2>4. Made(c.k, r, Reachable(c.k, Range(<<>>) \cup Referenced(c.k)))
    <3>1. Range(<<>>) \subseteq InUse(c.k) \cup Terminals BY DEF Range
    <3>2. Table(c.k) /\ level < c.k.varnum BY DEF Ready
    <3>3. low \in Range(<<>>) \cup Terminals /\ high \in Range(<<>>) \cup Terminals OBVIOUS
    <3> HIDE DEF r
    <3> QED BY <3>1, <3>2, <3>3, MakenodeRight DEF r
  <2> HIDE DEF r, d
  <2>5. /\ Table(r.k) /\ r.k.varnum = num /\ r.k.level2var = order /\ r.k.varset \in Seq(Nat)
        /\ Succeeds(r) => r.n \in InUse(r.k)
    BY <2>4 DEF Made, SameSession, Ready
  <2>6. CASE Succeeds(r)
    <3>1. d.k = Pin(r.k, r.n) BY <2>3, <2>6
    <3>2. r.n \in InUse(r.k) BY <2>5, <2>6
    <3>3. Table(d.k) /\ d.k.varnum = num /\ d.k.level2var = order /\ d.k.varset \in Seq(Nat)
      BY <2>5, <3>1, <3>2, PinRight
    <3>4. Ready(num, order, d) BY <2>2, <3>3 DEF Ready
    <3> QED BY <3>4 DEF d
  <2>7. CASE ~Succeeds(r)
    <3>1. d.k = r.k BY <2>3, <2>7
    <3>2. Ready(num, order, d) BY <2>2, <2>5, <3>1 DEF Ready
    <3> QED BY <3>2 DEF d
  <2> QED BY <2>6, <2>7
<1> QED BY <1>1, <1>2, Zenon

\* Both nodes of a variable.
LEMMA AddVariableRight ==
  ASSUME NEW num, NEW order, NEW c, Ready(num, order, c), NEW level \in Nat, level < num
  PROVE  Ready(num, order, AddVariable(c, level))
<1>1. 0 \in Terminals /\ 1 \in Terminals /\ 0 # 1 BY DEF Terminals
<1>2. Ready(num, order, AddLiteral(c, level, 0, 1)) BY <1>1, AddLiteralRight
<1>3. Ready(num, order, AddLiteral(AddLiteral(c, level, 0, 1), level, 1, 0))
  BY <1>1, <1>2, AddLiteralRight
<1> QED BY <1>3 DEF AddVariable

LevelOf(k, num, v) == CHOOSE l \in 0..(num - 1) : k.level2var[l] = v

\* One variable after the other.
AddedBy(k, p, num, f) ==
    f = [v \in k.varnum..num |->
           IF v = k.varnum THEN [k |-> [k EXCEPT !.varnum = num], p |-> p, error |-> ""]
           ELSE AddVariable(f[v - 1], LevelOf(k, num, v - 1))]

\* The recursive function of bdd_setvarnum exists.
LEMMA AddedExists ==
  ASSUME NEW k, k.varnum = 0, NEW p, NEW num \in Nat
  PROVE  \E f : AddedBy(k, p, num, f)
<1> DEFINE start == [k |-> [k EXCEPT !.varnum = num], p |-> p, error |-> ""]
           Step(c, v) == AddVariable(c, LevelOf(k, num, v - 1))
           At(f, v) == f[v] = IF v = 0 THEN start ELSE Step(f[v - 1], v)
           Part(n) == \E f : \A v \in 0..n : At(f, v)
           S == {n \in 0..num : Part(n)}
<1> HIDE DEF start
<1>1. 0 \in S
  <2> DEFINE g == [v \in {0} |-> start]
  <2>1. \A v \in 0..0 : v = 0 /\ g[v] = start OBVIOUS
  <2> HIDE DEF g, Step
  <2>2. Part(0) BY <2>1
  <2> HIDE DEF Part
  <2> QED BY <2>2
<1>2. ASSUME NEW n \in 1..num, n - 1 \in S PROVE n \in S
  <2> HIDE DEF Step
  <2>1. PICK f : \A v \in 0..(n - 1) : At(f, v) BY <1>2
  <2> DEFINE g == [v \in 0..n |-> IF v = n THEN Step(f[n - 1], n) ELSE f[v]]
  <2>2. ASSUME NEW v \in 0..n PROVE At(g, v)
    <3>1. CASE v = n
      <4>1. n - 1 \in 0..n /\ n - 1 # n /\ n # 0 OBVIOUS
      <4>2. g[n - 1] = f[n - 1] BY <4>1
      <4>3. g[v] = Step(f[n - 1], n) BY <3>1
      <4> HIDE DEF g
      <4> QED BY <3>1, <4>1, <4>2, <4>3
    <3>2. CASE v # n
      <4>1. v \in 0..(n - 1) BY <3>2
      <4>2. g[v] = f[v] BY <3>2
      <4>3. v # 0 => g[v - 1] = f[v - 1]
        <5>1. v # 0 => v - 1 \in 0..n /\ v - 1 # n OBVIOUS
        <5> QED BY <5>1
      <4> HIDE DEF g
      <4> QED BY <2>1, <4>1, <4>2, <4>3
    <3> QED BY <3>1, <3>2
  <2> HIDE DEF g, At
  <2>3. Part(n) BY <2>2
  <2> QED BY <2>3
<1>3. num \in S
  <2> HIDE DEF S
  <2>1. 0..num \subseteq S BY <1>1, <1>2, IntervalInduction
  <2> QED BY <2>1
<1>4. PICK f : \A v \in 0..num : At(f, v)
  <2> HIDE DEF At
  <2> QED BY <1>3
<1> DEFINE g == [v \in 0..num |-> f[v]]
<1>5. g = [v \in 0..num |-> IF v = 0 THEN start ELSE Step(g[v - 1], v)]
  <2> HIDE DEF Step
  <2> SUFFICES ASSUME NEW v \in 0..num
               PROVE  f[v] = IF v = 0 THEN start ELSE Step(g[v - 1], v)
    OBVIOUS
  <2>1. v # 0 => v - 1 \in 0..num OBVIOUS
  <2>2. v # 0 => g[v - 1] = f[v - 1] BY <2>1
  <2> HIDE DEF g
  <2> QED BY <1>4, <2>2
<1> HIDE DEF g
<1>6. AddedBy(k, p, num, g) BY <1>5, Zenon DEF AddedBy, start
<1> QED BY <1>6

\* The terminals come below every level.
Place(k, num) == [k EXCEPT !.node[0].level = num, !.node[1].level = num]

\* Moving the terminals changes no node.
LEMMA PlaceRight ==
  ASSUME NEW k, Table(k), NEW num \in Nat, k.varnum = num
  PROVE  /\ Table(Place(k, num)) /\ Place(k, num).varnum = num
         /\ InUse(Place(k, num)) = InUse(k) /\ Survive(k, Place(k, num), InUse(k))
         /\ Place(k, num).produced = k.produced /\ Place(k, num).varset = k.varset
<1> DEFINE first == k.node[0]
           second == k.node[1]
           zero == [first EXCEPT !.level = num]
           one == [second EXCEPT !.level = num]
           node == [[k.node EXCEPT ![0] = zero] EXCEPT ![1] = one]
<1>1. Shape(k) /\ Fields(k) /\ k.maxnodes \in Nat /\ Pinned(k) BY DEF Table, Shape
<1>2. 0 \in Places(k) /\ 1 \in Places(k) /\ 0 # 1 BY <1>1 DEF Shape, Places
<1>3. k.node = [n \in Places(k) |-> k.node[n]] /\ \A n \in Places(k) : EntryShape(k.node[n])
  BY <1>1 DEF Shape
<1>4. /\ zero = [level |-> num, low |-> first.low, high |-> first.high, hash |-> first.hash,
                 next |-> first.next, refcou |-> first.refcou, xvar |-> first.xvar,
                 dclause |-> first.dclause]
      /\ one = [level |-> num, low |-> second.low, high |-> second.high, hash |-> second.hash,
                next |-> second.next, refcou |-> second.refcou, xvar |-> second.xvar,
                dclause |-> second.dclause]
  <2>1. EntryShape(first) /\ EntryShape(second) BY <1>2, <1>3
  <2>2. zero = [first EXCEPT !.level = num] /\ one = [second EXCEPT !.level = num] OBVIOUS
  <2> HIDE DEF zero, one, first, second
  <2> QED BY <2>1, <2>2 DEF EntryShape
<1>5. Place(k, num) = [k EXCEPT !.node = node]
  <2>1. node = [[k.node EXCEPT ![0].level = num] EXCEPT ![1].level = num]
    <3>1. [k.node EXCEPT ![0] = zero][1] = second BY <1>2, <1>3
    <3> QED BY <3>1
  <2> HIDE DEF node
  <2>2. Place(k, num) = [k EXCEPT !.node = [[k.node EXCEPT ![0].level = num] EXCEPT ![1].level = num]]
    BY <1>1 DEF Place, Fields
  <2> QED BY <2>1, <2>2
<1> HIDE DEF zero, one
<1>6. node = [n \in Places(k) |-> IF n = 0 THEN zero ELSE IF n = 1 THEN one ELSE k.node[n]]
  BY <1>2, <1>3
<1> HIDE DEF node
<1>7. /\ EntryShape(zero) /\ zero.level = num /\ zero.low = first.low /\ zero.high = first.high
      /\ zero.hash = first.hash /\ zero.next = first.next /\ zero.refcou = first.refcou
      /\ EntryShape(one) /\ one.level = num /\ one.low = second.low /\ one.high = second.high
      /\ one.hash = second.hash /\ one.next = second.next /\ one.refcou = second.refcou
  <2>1. EntryShape(first) /\ EntryShape(second) BY <1>2, <1>3
  <2> HIDE DEF first, second
  <2> QED BY <1>4, <2>1 DEF EntryShape
<1>8. ASSUME NEW n \in Places(k)
      PROVE  /\ EntryShape(node[n])
             /\ node[n].low = k.node[n].low /\ node[n].high = k.node[n].high
             /\ node[n].hash = k.node[n].hash /\ node[n].next = k.node[n].next
             /\ \/ node[n].level = k.node[n].level
                \/ n \in Terminals /\ node[n].level = k.varnum
             /\ node[n].refcou = k.node[n].refcou
  <2>1. CASE n = 0
    <3>1. node[n] = zero BY <1>6, <2>1
    <3> QED BY <1>7, <2>1, <3>1 DEF Terminals
  <2>2. CASE n = 1
    <3>1. node[n] = one BY <1>6, <2>2
    <3> QED BY <1>7, <2>2, <3>1 DEF Terminals
  <2>3. CASE n # 0 /\ n # 1
    <3>1. node[n] = k.node[n] BY <1>6, <2>3
    <3> QED BY <1>3, <3>1
  <2> QED BY <2>1, <2>2, <2>3
<1>9. node = [n \in Places(k) |-> node[n]] BY <1>6
<1>10. \A n \in Range(k.varset) : n \in InUse(k) /\ node[n].refcou = MAXREF
  <2>1. InUse(k) \subseteq Places(k) BY <1>1 DEF InUse, Shape
  <2> QED BY <1>1, <1>8, <2>1 DEF Pinned
<1> DEFINE max == k.maxnodes
           varset == k.varset
<1>11. Place(k, num) = Revised(k, node, max, varset)
  BY <1>1, <1>5 DEF Fields, Revised
<1>12. max \in Nat /\ \A n \in Range(varset) : n \in InUse(k) /\ node[n].refcou = MAXREF
  BY <1>1, <1>10
<1> HIDE DEF max, varset
<1> DEFINE u == Revised(k, node, max, varset)
<1>13. /\ Table(u) /\ u.varnum = k.varnum /\ InUse(u) = InUse(k) /\ u.node = node
       /\ u.level2var = k.level2var /\ u.produced = k.produced /\ u.varset = varset
  BY <1>8, <1>9, <1>12, RevisedRight
<1> HIDE DEF u
<1>14. Survive(k, u, InUse(k))
  <2> SUFFICES ASSUME NEW n \in InUse(k)
               PROVE  /\ SameEntry(k.node[n], u.node[n])
                      /\ k.node[n].refcou = MAXREF => u.node[n].refcou = MAXREF
    BY <1>13 DEF Survive
  <2>1. n \in Places(k) /\ n # 0 /\ n # 1 BY <1>1 DEF InUse, Shape, Terminals
  <2>2. u.node[n] = k.node[n] BY <1>6, <1>13, <2>1
  <2> QED BY <2>2 DEF SameEntry
<1> QED BY <1>11, <1>13, <1>14 DEF u, varset

Placed(c, num) ==
    IF c.error # "" THEN c ELSE [c EXCEPT !.k.node[0].level = num, !.k.node[1].level = num]

\* bdd_setvarnum adds every variable, then puts the terminals below them.
LEMMA PlacedIs ==
  ASSUME NEW k, NEW p, NEW num
  PROVE  bdd_setvarnum(k, p, num) = Placed((CHOOSE f : AddedBy(k, p, num, f))[num], num)
BY Zenon DEF bdd_setvarnum, Placed, AddedBy, LevelOf

Fresh(order, num, p) ==
    [k |-> [bdd_init(InitNodes, order) EXCEPT !.varnum = num], p |-> p, error |-> ""]

\* The tables from a new one to that with every variable.
IsAdded(order, p, num, f) ==
    /\ f[0] = Fresh(order, num, p)
    /\ \A v \in 1..num : \E level \in 0..(num - 1) : f[v] = AddVariable(f[v - 1], level)
    /\ \A v \in 0..num : Ready(num, order, f[v])
    /\ bdd_setvarnum(bdd_init(InitNodes, order), p, num) = Placed(f[num], num)

\* bdd_setvarnum on a new table adds one variable after the other.
LEMMA AddedRight ==
  ASSUME NEW num \in Nat, NEW order, NEW p, OddPrime(bdd_prime_gte(InitNodes)),
         \A v \in 0..(num - 1) : \E l \in 0..(num - 1) : order[l] = v
  PROVE  \E f : IsAdded(order, p, num, f)
<1> DEFINE k == bdd_init(InitNodes, order)
           start == [k |-> [k EXCEPT !.varnum = num], p |-> p, error |-> ""]
           added == CHOOSE f : AddedBy(k, p, num, f)
           c == added[num]
           S == {v \in 0..num : Ready(num, order, added[v])}
<1>1. k.varnum = 0 /\ k.level2var = order BY DEF bdd_init
<1>2. [k EXCEPT !.varnum = num].varset = <<>> /\ Empty([k EXCEPT !.varnum = num])
      /\ [k EXCEPT !.varnum = num].varnum = num /\ [k EXCEPT !.varnum = num].level2var = order
  BY InitRight DEF Empty
<1>3. Ready(num, order, start)
  <2> DEFINE u == [k EXCEPT !.varnum = num]
             none == ""
             s == [k |-> u, p |-> p, error |-> none]
  <2>1. Table(u) /\ u.varnum = num /\ u.level2var = order /\ u.varset = <<>> BY <1>2 DEF Empty
  <2> HIDE DEF u, none
  <2>2. u.varset \in Seq(Nat) BY <2>1
  <2>3. Ready(num, order, s) BY <2>1, <2>2 DEF Ready
  <2> QED BY <2>3, Zenon DEF u, none
<1>10. start = Fresh(order, num, p) BY DEF Fresh
<1> HIDE DEF k, start
<1>4. bdd_setvarnum(k, p, num) = Placed(c, num) BY PlacedIs
<1>5. AddedBy(k, p, num, added)
  <2>1. \E f : AddedBy(k, p, num, f) BY <1>1, AddedExists
  <2> HIDE DEF AddedBy
  <2> QED BY <2>1
<1> HIDE DEF added
<1>6. added = [v \in 0..num |-> IF v = 0 THEN start
                                ELSE AddVariable(added[v - 1], LevelOf(k, num, v - 1))]
  BY <1>1, <1>5, Zenon DEF AddedBy, start
<1>7. added[0] = start BY <1>6
<1>8. ASSUME NEW v \in 1..num
      PROVE  \E level \in 0..(num - 1) : added[v] = AddVariable(added[v - 1], level)
  <2>1. LevelOf(k, num, v - 1) \in 0..(num - 1)
    <3>1. v - 1 \in 0..(num - 1) OBVIOUS
    <3>2. \E l \in 0..(num - 1) : k.level2var[l] = v - 1 BY <1>1, <3>1
    <3> QED BY <3>2 DEF LevelOf
  <2>2. added[v] = AddVariable(added[v - 1], LevelOf(k, num, v - 1))
    <3>1. v \in 0..num /\ v # 0 OBVIOUS
    <3> QED BY <1>6, <3>1
  <2> QED BY <2>1, <2>2
<1>9. \A v \in 0..num : Ready(num, order, added[v])
  <2>1. 0 \in S BY <1>3, <1>7
  <2>2. ASSUME NEW v \in 1..num, v - 1 \in S PROVE v \in S
    <3>1. PICK level \in 0..(num - 1) : added[v] = AddVariable(added[v - 1], level) BY <1>8
    <3>2. Ready(num, order, added[v - 1]) /\ level \in Nat /\ level < num BY <2>2
    <3> QED BY <3>1, <3>2, AddVariableRight
  <2> HIDE DEF S
  <2>3. 0..num \subseteq S BY <2>1, <2>2, IntervalInduction
  <2> QED BY <2>3 DEF S
<1>11. IsAdded(order, p, num, added) BY <1>4, <1>7, <1>8, <1>9, <1>10 DEF IsAdded, k
<1> QED BY <1>11

\* What Placed gives is a table with the terminals moved, if all nodes were made.
LEMMA PlacedTable ==
  ASSUME NEW num \in Nat, NEW order, NEW c, Ready(num, order, c)
  PROVE  /\ Placed(c, num).error = c.error /\ Placed(c, num).p = c.p
         /\ Placed(c, num).k = IF Succeeds(c) THEN Place(c.k, num) ELSE c.k
<1>1. c = [k |-> c.k, p |-> c.p, error |-> c.error] BY DEF Ready
<1> DEFINE placed == [c EXCEPT !.k.node[0].level = num, !.k.node[1].level = num]
<1>2. placed.k = Place(c.k, num) /\ placed.p = c.p /\ placed.error = c.error
  BY <1>1 DEF Place
<1>3. CASE Succeeds(c)
  <2>1. Placed(c, num) = placed BY <1>3, Zenon DEF Placed, Succeeds
  <2> HIDE DEF placed
  <2> QED BY <1>2, <1>3, <2>1
<1>4. CASE ~Succeeds(c)
  <2>1. Placed(c, num) = c BY <1>4, Zenon DEF Placed, Succeeds
  <2> QED BY <1>4, <2>1
<1> QED BY <1>3, <1>4

\* Its result is a table.
LEMMA SetvarnumRight ==
  ASSUME NEW num \in Nat, NEW order, NEW p, OddPrime(bdd_prime_gte(InitNodes)),
         \A v \in 0..(num - 1) : \E l \in 0..(num - 1) : order[l] = v
  PROVE  LET k == bdd_setvarnum(bdd_init(InitNodes, order), p, num).k
         IN  Table(k) /\ k.varnum = num
<1>1. PICK f : IsAdded(order, p, num, f) BY AddedRight
<1> DEFINE c == f[num]
<1>2. Ready(num, order, c) /\ bdd_setvarnum(bdd_init(InitNodes, order), p, num) = Placed(c, num)
  BY <1>1 DEF IsAdded
<1> HIDE DEF c
<1>3. Placed(c, num).k = IF Succeeds(c) THEN Place(c.k, num) ELSE c.k BY <1>2, PlacedTable
<1>4. Table(c.k) /\ c.k.varnum = num BY <1>2 DEF Ready
<1>5. Table(Place(c.k, num)) /\ Place(c.k, num).varnum = num BY <1>4, PlaceRight
<1> QED BY <1>2, <1>3, <1>4, <1>5

\* A limit on the nodes changes none (bdd_setmaxnodenum).
LEMMA SetmaxRight ==
  ASSUME NEW k, Table(k), NEW limit \in Nat
  PROVE  Referred(k, bdd_setmaxnodenum(k, limit))
<1>1. Shape(k) /\ Fields(k) /\ Pinned(k) BY DEF Table, Shape
<1>2. [k EXCEPT !.maxnodes = limit] = Revised(k, k.node, limit, k.varset)
  BY <1>1 DEF Fields, Revised
<1> DEFINE node == k.node
           varset == k.varset
<1>3. node = [m \in Places(k) |-> node[m]] /\ \A m \in Places(k) : EntryShape(node[m])
  BY <1>1 DEF Shape
<1>4. \A n \in Range(varset) : n \in InUse(k) /\ node[n].refcou = MAXREF BY <1>1 DEF Pinned
<1>5. \A m \in Places(k) :
            /\ node[m].low = k.node[m].low /\ node[m].high = k.node[m].high
            /\ node[m].hash = k.node[m].hash /\ node[m].next = k.node[m].next
            /\ node[m].level = k.node[m].level
  OBVIOUS
<1> DEFINE u == Revised(k, node, limit, varset)
<1> HIDE DEF node, varset
<1>6. /\ Table(u) /\ u.varnum = k.varnum /\ InUse(u) = InUse(k) /\ u.node = node
      /\ u.level2var = k.level2var /\ u.produced = k.produced /\ u.varset = varset
  BY <1>3, <1>4, <1>5, RevisedRight
<1> HIDE DEF u
<1>8. Referred(k, u)
  BY <1>6 DEF Referred, Survive, SameEntry, Matches, LEVEL, LOW, HIGH, XVAR, node, varset
<1>9. Referred(k, k) BY ReferredSelf
<1>7. bdd_setmaxnodenum(k, limit) \in {k, [k EXCEPT !.maxnodes = limit]} BY DEF bdd_setmaxnodenum
<1> QED BY <1>2, <1>7, <1>8, <1>9 DEF u, node, varset

----------------------------------------------------------------------------
(* The session.                                                            *)

\* The table is sound, and what waits on the reference stack is in use.
IInv ==
    /\ Table(kernel) /\ kernel.varnum = VarCount + 1
    /\ stack \in Seq(InUse(kernel) \cup Terminals)
    /\ GivesUpOnlyWhenFull

\* What the client can reach.
Roots(k, refs) == Range(refs) \cup Referenced(k)

\* A sequence of what is in B.
LEMMA SeqIn ==
  ASSUME NEW A, NEW s \in Seq(A), NEW B, Range(s) \subseteq B
  PROVE  s \in Seq(B)
<1>1. Len(s) \in Nat /\ s \in [1..Len(s) -> A] /\ DOMAIN s = 1..Len(s) BY LenProperties
<1>2. \A i \in 1..Len(s) : s[i] \in B BY <1>1 DEF Range
<1>3. s \in [1..Len(s) -> B] BY <1>1, <1>2
<1> QED BY <1>1, <1>3, SeqDef

\* Two more on top of a stack.
LEMMA OnTop ==
  ASSUME NEW A, NEW s \in Seq(A), NEW low \in A, NEW high \in A
  PROVE  Range(s \o <<low, high>>) = Range(s) \cup {low, high}
<1> DEFINE top == <<low, high>>
<1>1. top \in Seq(A) /\ Range(top) = {low, high} BY DEF Range
<1> HIDE DEF top
<1>2. Range(s \o top) = Range(s) \cup Range(top) BY <1>1, RangeConcatenation
<1> QED BY <1>1, <1>2 DEF top

\* Roots that are reached already add nothing.
LEMMA ReachableNoMore ==
  ASSUME NEW k, Table(k), NEW roots \in SUBSET (InUse(k) \cup Terminals),
         NEW more \in SUBSET (InUse(k) \cup Terminals),
         more \ Terminals \subseteq Reachable(k, roots)
  PROVE  Reachable(k, more) \subseteq Reachable(k, roots)
<1>1. Shape(k) /\ Nodes(k) BY DEF Table
<1>2. Reachable(k, roots) \in SUBSET InUse(k) /\ Closed(k, Reachable(k, roots))
  BY <1>1, ReachableRight
<1> QED BY <1>1, <1>2, ReachableRight

\* The nodes that can be reached are still reached when they have stayed as they were.
LEMMA ReachedStill ==
  ASSUME NEW k, Table(k), NEW u, Table(u), NEW refs, Range(refs) \subseteq InUse(k) \cup Terminals,
         InUse(u) = Reachable(k, Roots(k, refs)),
         \A n \in InUse(u) \cup Terminals : SameNode(k.node[n], u.node[n])
  PROVE  Reachable(u, Roots(u, refs)) = InUse(u)
<1>1. Shape(k) /\ Nodes(k) /\ Shape(u) /\ Nodes(u) BY DEF Table
<1>2. Roots(k, refs) \in SUBSET (InUse(k) \cup Terminals) BY DEF Roots, Referenced
<1>3. InUse(u) \subseteq InUse(k) /\ Roots(k, refs) \ Terminals \subseteq InUse(u)
  BY <1>1, <1>2, ReachableRight
<1>4. Roots(k, refs) \ Terminals \subseteq Roots(u, refs)
  <2> SUFFICES ASSUME NEW n \in Referenced(k), n \notin Terminals PROVE n \in Referenced(u)
    BY DEF Roots
  <2>1. n \in InUse(u) BY <1>3 DEF Roots
  <2>2. k.node[n].refcou = u.node[n].refcou BY <2>1 DEF SameNode
  <2> QED BY <2>1, <2>2 DEF Referenced
<1>5. Roots(u, refs) \in SUBSET (InUse(u) \cup Terminals) BY <1>3 DEF Roots, Referenced
<1> DEFINE all == Reachable(u, Roots(u, refs))
<1>6. all \subseteq InUse(u) /\ Roots(u, refs) \ Terminals \subseteq all /\ Closed(u, all)
  BY <1>1, <1>5, ReachableRight
<1> HIDE DEF all
<1>7. Closed(k, all) BY <1>6 DEF Closed, SameNode, LOW, HIGH
<1>8. all \in SUBSET InUse(k) /\ Roots(k, refs) \ Terminals \subseteq all BY <1>3, <1>4, <1>6
<1>9. Reachable(k, Roots(k, refs)) \subseteq all BY <1>1, <1>2, <1>7, <1>8, ReachableRight
<1> QED BY <1>6, <1>9 DEF all

\* What the client knows without the stack is referenced.
LEMMA KnownRight ==
  ASSUME Table(kernel)
  PROVE  Known \subseteq Referenced(kernel) \cup Terminals
<1>1. VariableNodes \subseteq Referenced(kernel)
  BY NodeTableAssumption DEF VariableNodes, Table, Pinned, Referenced
<1>2. Bottom \subseteq VariableNodes BY DEF Bottom
<1>3. Held \subseteq Referenced(kernel) BY DEF Held
<1> QED BY <1>1, <1>2, <1>3 DEF Known, Terminals

\* The table and the stack are sound to begin with.
LEMMA InitInv == Init => IInv
<1> SUFFICES ASSUME Init PROVE IInv OBVIOUS
<1>1. PICK setup \in Setups :
        LET c == bdd_setvarnum(bdd_init(InitNodes, setup.order),
                               ProverInit(setup.type, VarCount, <<>>), VarCount + 1)
        IN  kernel = bdd_setmaxnodenum(c.k, setup.limit) /\ stack = <<>> /\ status = "running"
  BY Zenon DEF Init
<1> DEFINE p == ProverInit(setup.type, VarCount, <<>>)
           k == bdd_setvarnum(bdd_init(InitNodes, setup.order), p, VarCount + 1).k
<1>2. kernel = bdd_setmaxnodenum(k, setup.limit) BY <1>1
<1> HIDE DEF p
<1>3. /\ VarCount + 1 \in Nat /\ (VarCount + 1) - 1 = VarCount /\ setup.limit \in Nat
      /\ \A v \in 0..VarCount : \E l \in 0..VarCount : setup.order[l] = v
  BY SessionAssumption
<1>4. OddPrime(bdd_prime_gte(InitNodes)) BY SessionAssumption, PrimeAbove
<1>5. Table(k) /\ k.varnum = VarCount + 1 BY <1>3, <1>4, SetvarnumRight
<1> HIDE DEF k
<1>6. Table(kernel) /\ kernel.varnum = VarCount + 1 BY <1>2, <1>3, <1>5, SetmaxRight DEF Referred
<1>7. stack \in Seq(InUse(kernel) \cup Terminals) BY <1>1
<1>8. GivesUpOnlyWhenFull BY <1>1 DEF GivesUpOnlyWhenFull
<1> QED BY <1>6, <1>7, <1>8 DEF IInv

\* What a call of bdd_makenode leaves, whether it makes a node or not.
Leaves(k, r, stay) ==
    /\ Table(r.k) /\ r.k.varnum = k.varnum
    /\ stay \subseteq InUse(r.k)
    /\ \A n \in stay \cup Terminals : SameNode(k.node[n], r.k.node[n])
    /\ Succeeds(r) => r.n \in InUse(r.k) \cup Terminals
    /\ Exhausted(r) => InUse(r.k) = stay /\ Unused(r.k) = {}

\* The operands of a step are on the stack or referenced, so that they add no roots.
LEMMA BuildLeaves ==
  ASSUME NEW k, Table(k), NEW p, NEW refs \in Seq(InUse(k) \cup Terminals),
         NEW low \in Roots(k, refs) \cup Terminals, NEW high \in Roots(k, refs) \cup Terminals,
         NEW level \in Nat, level < k.varnum
  PROVE  Leaves(k, bdd_makenode(k, p, level, low, high, refs \o <<low, high>>),
                Reachable(k, Roots(k, refs)))
<1> DEFINE all == refs \o <<low, high>>
           r == bdd_makenode(k, p, level, low, high, all)
           nodes == InUse(k) \cup Terminals
           stay == Reachable(k, Roots(k, refs))
           more == Reachable(k, Roots(k, all))
<1>1. low \in nodes /\ high \in nodes
  <2>1. Range(refs) \subseteq nodes BY RangeOfSeq
  <2> QED BY <2>1 DEF Roots, Referenced
<1>2. Range(all) = Range(refs) \cup {low, high}
  <2>1. refs \in Seq(nodes) OBVIOUS
  <2> HIDE DEF nodes
  <2> QED BY <1>1, <2>1, OnTop
<1> HIDE DEF all
<1>3. Range(refs) \subseteq nodes /\ Range(all) \subseteq nodes BY <1>1, <1>2, RangeOfSeq
<1>4. Roots(k, refs) \in SUBSET nodes /\ Roots(k, all) \in SUBSET nodes
  BY <1>3 DEF Roots, Referenced
<1>5. Roots(k, all) \subseteq Roots(k, refs) \cup Terminals /\ Roots(k, refs) \subseteq Roots(k, all)
  BY <1>2 DEF Roots
<1>6. /\ stay \subseteq InUse(k) /\ Roots(k, refs) \ Terminals \subseteq stay
      /\ Roots(k, all) \ Terminals \subseteq more
  <2>1. Shape(k) /\ Nodes(k) BY DEF Table
  <2> QED BY <1>4, <2>1, ReachableRight
<1>7. stay = more
  <2>1. Roots(k, all) \ Terminals \subseteq stay BY <1>5, <1>6
  <2>2. Roots(k, refs) \ Terminals \subseteq more BY <1>5, <1>6
  <2>3. more \subseteq stay BY <1>4, <2>1, ReachableNoMore
  <2>4. stay \subseteq more BY <1>4, <2>2, ReachableNoMore
  <2> QED BY <2>3, <2>4
<1>8. CASE low = high
  <2>1. r.k = k /\ r.n = low /\ Succeeds(r) BY <1>8, MakenodeSame
  <2>2. ~Exhausted(r) BY <2>1, SucceedsOrNot
  <2> HIDE DEF r, stay
  <2>3. \A n \in stay \cup Terminals : SameNode(k.node[n], r.k.node[n]) BY <2>1 DEF SameNode
  <2>4. Leaves(k, r, stay) BY <1>1, <1>6, <2>1, <2>2, <2>3 DEF Leaves
  <2> QED BY <2>4 DEF r, stay, all
<1>9. CASE low # high
  <2>1. low \in Range(all) \cup Terminals /\ high \in Range(all) \cup Terminals BY <1>2
  <2>2. Made(k, r, Reachable(k, Range(all) \cup Referenced(k)))
    BY <1>3, <1>9, <2>1, MakenodeRight
  <2> HIDE DEF r, stay
  <2>3. Made(k, r, stay) BY <1>7, <2>2 DEF Roots
  <2>4. Leaves(k, r, stay) BY <2>3 DEF Leaves, Made, SameSession
  <2> QED BY <2>4 DEF r, stay, all
<1> QED BY <1>8, <1>9

\* Nodes that were reached are as they were.
Untouched ==
    \A n \in Reachable(kernel, Roots(kernel, stack)) :
        /\ Matches(kernel', n, LEVEL(kernel, n), LOW(kernel, n), HIGH(kernel, n))
        /\ XVAR(kernel', n) = XVAR(kernel, n)

\* A step of an operator.
LEMMA BuildStep ==
  ASSUME IInv, NEW level \in 1..VarCount,
         NEW low \in Known \cup Range(stack), NEW high \in Known \cup Range(stack),
         NEW keep \in {0, Len(stack)}, Build(level, low, high, keep)
  PROVE  IInv' /\ Untouched
<1> DEFINE r == bdd_makenode(kernel, Quiet(prover), level, low, high, stack \o <<low, high>>)
           old == Reachable(kernel, Roots(kernel, stack))
           nodes == InUse(kernel) \cup Terminals
           after == InUse(r.k) \cup Terminals
<1>1. /\ Table(kernel) /\ kernel.varnum = VarCount + 1 /\ stack \in Seq(nodes)
      /\ VarCount \in Nat
  BY SessionAssumption DEF IInv
<1>2. /\ status = "running" /\ kernel' = r.k
      /\ stack' = IF ~Succeeds(r) THEN stack ELSE Append(SubSeq(stack, 1, keep), r.n)
      /\ Succeeds(r) => status' = "running"
      /\ status' = "BDD_NODENUM" => Exhausted(r)
  BY Zenon DEF Build, Succeeds, Exhausted
<1>3. Leaves(kernel, r, old)
  <2>1. low \in Roots(kernel, stack) \cup Terminals /\ high \in Roots(kernel, stack) \cup Terminals
    BY <1>1, KnownRight DEF Roots
  <2>2. level \in Nat /\ level < kernel.varnum BY <1>1
  <2> QED BY <1>1, <2>1, <2>2, BuildLeaves
<1>4. old \subseteq InUse(kernel) /\ Range(stack) \ Terminals \subseteq old
  <2>1. Shape(kernel) /\ Nodes(kernel) BY <1>1 DEF Table
  <2>2. Roots(kernel, stack) \in SUBSET (InUse(kernel) \cup Terminals)
    BY <1>1, RangeOfSeq DEF Roots, Referenced
  <2>3. old \subseteq InUse(kernel) /\ Roots(kernel, stack) \ Terminals \subseteq old
    BY <2>1, <2>2, ReachableRight
  <2> QED BY <2>3 DEF Roots
<1> HIDE DEF r, old
<1>5. Untouched
  <2>1. ASSUME NEW n \in old
        PROVE  /\ Matches(r.k, n, LEVEL(kernel, n), LOW(kernel, n), HIGH(kernel, n))
               /\ XVAR(r.k, n) = XVAR(kernel, n)
    <3>1. SameNode(kernel.node[n], r.k.node[n]) BY <1>3 DEF Leaves
    <3> QED BY <3>1 DEF SameNode, Matches, XVAR, LEVEL, LOW, HIGH
  <2> QED BY <1>2, <2>1 DEF Untouched, old
<1>6. stack \in Seq(after)
  <2>1. Range(stack) \subseteq after BY <1>3, <1>4 DEF Leaves
  <2> HIDE DEF after, nodes
  <2> QED BY <1>1, <2>1, SeqIn
<1>7. stack' \in Seq(after)
  <2>1. CASE Succeeds(r)
    <3>1. r.n \in after BY <1>3, <2>1 DEF Leaves
    <3> HIDE DEF after
    <3>2. Len(stack) \in Nat /\ stack \in [1..Len(stack) -> after] BY <1>6, LenProperties
    <3>3. \A i \in 1..keep : stack[i] \in after BY <3>2
    <3>4. 1 \in Int /\ keep \in Int
      <4> DEFINE len == Len(stack)
      <4>1. keep \in {0, len} BY Zenon
      <4>2. len \in Nat BY <3>2, Zenon
      <4> HIDE DEF len
      <4> QED BY <4>1, <4>2
    <3>5. SubSeq(stack, 1, keep) \in Seq(after) BY <3>3, <3>4, SubSeqProperties
    <3>6. Append(SubSeq(stack, 1, keep), r.n) \in Seq(after) BY <3>1, <3>5, AppendProperties
    <3> QED BY <1>2, <2>1, <3>6
  <2>2. CASE ~Succeeds(r) BY <1>2, <1>6, <2>2
  <2> QED BY <2>1, <2>2
<1>8. GivesUpOnlyWhenFull'
  <2> SUFFICES ASSUME status' = "BDD_NODENUM"
               PROVE  Reachable(r.k, Range(stack') \cup Referenced(r.k)) = DOMAIN r.k.node \ Terminals
    BY <1>2 DEF GivesUpOnlyWhenFull, Terminals
  <2>1. Exhausted(r) /\ ~Succeeds(r) BY <1>2, SucceedsOrNot
  <2>2. stack' = stack BY <1>2, <2>1
  <2>3. InUse(r.k) = old /\ Unused(r.k) = {} /\ Table(r.k) BY <1>3, <2>1 DEF Leaves
  <2>4. Range(stack) \subseteq InUse(kernel) \cup Terminals BY <1>1, RangeOfSeq
  <2>5. \A n \in InUse(r.k) \cup Terminals : SameNode(kernel.node[n], r.k.node[n])
    BY <1>3, <2>3 DEF Leaves
  <2>6. Reachable(r.k, Roots(r.k, stack)) = InUse(r.k)
    BY <1>1, <2>3, <2>4, <2>5, ReachedStill DEF old
  <2>7. DOMAIN r.k.node = Places(r.k) BY <2>3 DEF Table, Shape
  <2>8. DOMAIN r.k.node \ Terminals = InUse(r.k) BY <2>3, <2>7 DEF Unused, InUse
  <2> QED BY <2>2, <2>6, <2>8 DEF Roots
<1>9. (Table(kernel) /\ kernel.varnum = VarCount + 1)' BY <1>1, <1>2, <1>3 DEF Leaves
<1>10. (stack \in Seq(InUse(kernel) \cup Terminals))' BY <1>2, <1>7 DEF Terminals
<1> QED BY <1>5, <1>8, <1>9, <1>10 DEF IInv

\* The steps that make no node.
LEMMA ReferStep ==
  ASSUME IInv, Referred(kernel, kernel'), stack' \in {<<>>, stack},
         status' = "BDD_NODENUM" => UNCHANGED <<kernel, stack, status>>
  PROVE  IInv' /\ Untouched
<1>1. /\ Table(kernel') /\ InUse(kernel') = InUse(kernel) /\ kernel'.varnum = kernel.varnum
      /\ \A n \in InUse(kernel) :
           /\ Matches(kernel', n, LEVEL(kernel, n), LOW(kernel, n), HIGH(kernel, n))
           /\ XVAR(kernel', n) = XVAR(kernel, n)
  BY DEF Referred
<1>2. /\ Table(kernel) /\ kernel.varnum = VarCount + 1
      /\ stack \in Seq(InUse(kernel) \cup Terminals) /\ GivesUpOnlyWhenFull
  BY DEF IInv
<1>3. Untouched
  <2>1. Shape(kernel) /\ Nodes(kernel) BY <1>2 DEF Table
  <2>2. Roots(kernel, stack) \in SUBSET (InUse(kernel) \cup Terminals)
    BY <1>2, RangeOfSeq DEF Roots, Referenced
  <2>3. Reachable(kernel, Roots(kernel, stack)) \subseteq InUse(kernel)
    BY <2>1, <2>2, ReachableRight
  <2> QED BY <1>1, <2>3 DEF Untouched
<1>4. (stack \in Seq(InUse(kernel) \cup Terminals))'
  <2>1. stack' \in Seq(InUse(kernel) \cup Terminals)
    <3>1. CASE stack' = stack BY <1>2, <3>1
    <3>2. CASE stack' = <<>> BY <3>2
    <3> QED BY <3>1, <3>2
  <2> QED BY <1>1, <2>1 DEF Terminals
<1>5. GivesUpOnlyWhenFull'
  BY <1>2 DEF GivesUpOnlyWhenFull, Terminals
<1>6. (Table(kernel) /\ kernel.varnum = VarCount + 1)' BY <1>1, <1>2
<1> QED BY <1>3, <1>4, <1>5, <1>6 DEF IInv

\* An operation returns.
LEMMA ReturnStep ==
  ASSUME IInv, Return
  PROVE  IInv' /\ Untouched
<1>1. /\ status' = "running" /\ Len(stack) = 1 /\ kernel' = bdd_addref(kernel, Last(stack))
      /\ stack' = <<>>
  BY DEF Return
<1>2. Table(kernel) /\ stack \in Seq(InUse(kernel) \cup Terminals) BY DEF IInv
<1>3. Last(stack) \in InUse(kernel) \cup Terminals
  <2>1. stack[1] \in InUse(kernel) \cup Terminals BY <1>1, <1>2, ElementOfSeq
  <2> QED BY <1>1, <2>1 DEF Last
<1>4. Referred(kernel, kernel') BY <1>1, <1>2, <1>3, AddrefRight
<1> QED BY <1>1, <1>4, ReferStep

\* The client lets go of a node.
LEMMA ReleaseStep ==
  ASSUME IInv, NEW n \in Held, Release(n)
  PROVE  IInv' /\ Untouched
<1>1. status' = "running" /\ kernel' = bdd_delref(kernel, n) /\ stack' = stack BY DEF Release
<1>2. Table(kernel) BY DEF IInv
<1>3. n \in InUse(kernel) BY DEF Held, Referenced
<1>4. Referred(kernel, kernel') BY <1>1, <1>2, <1>3, AddrefRight
<1> QED BY <1>1, <1>4, ReferStep

\* Every step.
LEMMA NextStep ==
  ASSUME IInv, [Next]_vars
  PROVE  IInv' /\ Untouched
<1>1. ASSUME NEW level \in 1..VarCount, NEW low \in Known \cup Range(stack),
             NEW high \in Known \cup Range(stack), NEW keep \in {0, Len(stack)},
             Build(level, low, high, keep)
      PROVE  IInv' /\ Untouched
  BY <1>1, BuildStep
<1>2. CASE Return BY <1>2, ReturnStep
<1>3. ASSUME NEW n \in Held, Release(n) PROVE IInv' /\ Untouched
  BY <1>3, ReleaseStep
<1>4. ASSUME UNCHANGED <<kernel, stack>>, status' = "done" \/ status' = status
      PROVE  IInv' /\ Untouched
  <2>1. Table(kernel) BY DEF IInv
  <2>2. Referred(kernel, kernel') BY <1>4, <2>1, ReferredSelf
  <2>3. stack' \in {<<>>, stack} /\ (status' = "BDD_NODENUM" => UNCHANGED <<kernel, stack, status>>)
    BY <1>4
  <2> QED BY <2>2, <2>3, ReferStep
<1>5. CASE Done
  <2>1. UNCHANGED <<kernel, stack>> /\ status' = "done" BY <1>5 DEF Done
  <2> QED BY <1>4, <2>1
<1>6. CASE UNCHANGED vars
  <2>1. UNCHANGED <<kernel, stack>> /\ status' = status BY <1>6 DEF vars
  <2> QED BY <1>4, <2>1
<1> QED BY <1>1, <1>2, <1>3, <1>5, <1>6 DEF Next

\* The table and the stack stay sound.
LEMMA Invariance == Spec => []IInv
<1>1. Init => IInv BY InitInv
<1>2. IInv /\ [Next]_vars => IInv' BY NextStep
<1> QED BY <1>1, <1>2, PTL DEF Spec

\* The node table of a session of any length, whatever the number of variables, the
\* initial size and the limit on the nodes: reduced, shared and ordered, with each node
\* where bdd_makenode looks for it.
THEOREM CanonicalHolds == Spec => []Canonical
<1>1. IInv => Canonical
  <2> SUFFICES ASSUME IInv, NEW n \in InUse(kernel)
               PROVE  /\ {LOW(kernel, n), HIGH(kernel, n)} \subseteq Live \cup Terminals
                      /\ LOW(kernel, n) # HIGH(kernel, n)
                      /\ LEVEL(kernel, n) < LEVEL(kernel, LOW(kernel, n))
                      /\ LEVEL(kernel, n) < LEVEL(kernel, HIGH(kernel, n))
                      /\ Lookup(kernel, LEVEL(kernel, n), LOW(kernel, n), HIGH(kernel, n)) = n
                      /\ \A m \in Live :
                            Matches(kernel, m, LEVEL(kernel, n), LOW(kernel, n), HIGH(kernel, n))
                              => m = n
    BY DEF Canonical, Live
  <2>1. /\ Shape(kernel) /\ Nodes(kernel) /\ Unique(kernel) /\ Hashed(kernel, InUse(kernel))
        /\ Node(kernel, n)
    BY DEF IInv, Table, Nodes
  <2>2. InUse(kernel) \in SUBSET (Places(kernel) \ {0}) /\ n \in Places(kernel)
    BY <2>1 DEF Shape, InUse, Terminals
  <2>3. LEVEL(kernel, n) \in Int /\ LOW(kernel, n) \in Int /\ HIGH(kernel, n) \in Int
    <3>1. EntryShape(kernel.node[n]) BY <2>1, <2>2 DEF Shape
    <3>2. \A e : EntryShape(e) => e.level \in Int /\ e.low \in Int /\ e.high \in Int
      BY DEF EntryShape
    <3> QED BY <3>1, <3>2 DEF LEVEL, LOW, HIGH
  <2> DEFINE found == Lookup(kernel, LEVEL(kernel, n), LOW(kernel, n), HIGH(kernel, n))
  <2>4. Matches(kernel, n, LEVEL(kernel, n), LOW(kernel, n), HIGH(kernel, n)) BY DEF Matches
  <2>5. /\ found # 0
        /\ found \in InUse(kernel)
        /\ Matches(kernel, found, LEVEL(kernel, n), LOW(kernel, n), HIGH(kernel, n))
    BY <2>1, <2>2, <2>3, <2>4, LookupRight
  <2> HIDE DEF found
  <2>6. found = n BY <2>1, <2>5 DEF Unique
  <2> QED BY <2>1, <2>6 DEF Node, Unique, Live, found
<1> QED BY <1>1, Invariance, PTL

\* The free list of such a session has each unused entry once, and they are counted.
THEOREM FreeListExactHolds == Spec => []FreeListExact
<1>1. IInv => FreeListExact
  <2> SUFFICES ASSUME IInv PROVE FreeListExact OBVIOUS
  <2> DEFINE free == Unused(kernel)
  <2>1. /\ Shape(kernel) /\ Linked(NextOf(kernel), 0, kernel.freepos, free)
        /\ kernel.freenum = Cardinality(free)
    BY DEF IInv, Table, Freed
  <2>2. free \in SUBSET (Places(kernel) \ {0}) BY DEF Unused, Terminals
  <2>3. free = DOMAIN kernel.node \ (Terminals \cup Live) BY <2>1 DEF Shape, Unused, Live
  <2> HIDE DEF free
  <2>4. /\ Range(Chain(kernel, kernel.freepos)) = free
        /\ Len(Chain(kernel, kernel.freepos)) = Cardinality(free)
    BY <2>1, <2>2, ChainRight
  <2> QED BY <2>1, <2>3, <2>4 DEF FreeListExact
<1> QED BY <1>1, Invariance, PTL

\* The program gives up for want of nodes only when every entry can be reached.
THEOREM GivesUpOnlyWhenFullHolds == Spec => []GivesUpOnlyWhenFull
<1>1. IInv => GivesUpOnlyWhenFull BY DEF IInv
<1> QED BY <1>1, Invariance, PTL

\* No step collects or reuses an entry that the client can reach.
THEOREM ReachableUntouchedHolds == Spec => ReachableUntouched
<1>1. IInv /\ [Next]_vars =>
        [\A n \in Reachable(kernel, Range(stack) \cup Referenced(kernel)) :
            Matches(kernel', n, LEVEL(kernel, n), LOW(kernel, n), HIGH(kernel, n))
            /\ XVAR(kernel', n) = XVAR(kernel, n)]_vars
  BY NextStep DEF Untouched, Roots
<1> QED BY <1>1, Invariance, PTL DEF Spec, ReachableUntouched

----------------------------------------------------------------------------
(* What a checker knows after the lines the generator printed.             *)

Seen(c, p) == File!AbsorbAll(c, p.out)

ReplayedBy(c, lines, f) ==
    f = [n \in 0..Len(lines) |-> IF n = 0 THEN c ELSE File!Absorb(f[n - 1], lines[n])]

\* The recursive function of Replay exists.
LEMMA ReplayExists ==
  ASSUME NEW c, NEW lines, Len(lines) \in Nat
  PROVE  \E f : ReplayedBy(c, lines, f)
<1> DEFINE num == Len(lines)
           At(f, n) == f[n] = IF n = 0 THEN c ELSE File!Absorb(f[n - 1], lines[n])
           Part(n) == \E f : \A m \in 0..n : At(f, m)
           S == {n \in 0..num : Part(n)}
<1>1. 0 \in S
  <2> DEFINE g == [n \in {0} |-> c]
  <2>1. \A n \in 0..0 : n = 0 /\ g[n] = c OBVIOUS
  <2> HIDE DEF g
  <2>2. Part(0) BY <2>1
  <2> HIDE DEF Part
  <2> QED BY <2>2
<1>2. ASSUME NEW n \in 1..num, n - 1 \in S PROVE n \in S
  <2>1. PICK f : \A m \in 0..(n - 1) : At(f, m) BY <1>2
  <2> DEFINE g == [m \in 0..n |-> IF m = n THEN File!Absorb(f[n - 1], lines[n]) ELSE f[m]]
  <2>2. ASSUME NEW m \in 0..n PROVE At(g, m)
    <3>1. CASE m = n
      <4>1. n - 1 \in 0..n /\ n - 1 # n /\ n # 0 OBVIOUS
      <4>2. g[n - 1] = f[n - 1] BY <4>1
      <4>3. g[m] = File!Absorb(f[n - 1], lines[n]) BY <3>1
      <4> HIDE DEF g
      <4> QED BY <3>1, <4>1, <4>2, <4>3
    <3>2. CASE m # n
      <4>1. m \in 0..(n - 1) BY <3>2
      <4>2. g[m] = f[m] BY <3>2
      <4>3. m # 0 => g[m - 1] = f[m - 1]
        <5>1. m # 0 => m - 1 \in 0..n /\ m - 1 # n OBVIOUS
        <5> QED BY <5>1
      <4> HIDE DEF g
      <4> QED BY <2>1, <4>1, <4>2, <4>3
    <3> QED BY <3>1, <3>2
  <2> HIDE DEF g, At
  <2>3. Part(n) BY <2>2
  <2> QED BY <2>3
<1>3. num \in S
  <2> HIDE DEF S
  <2>1. 0..num \subseteq S BY <1>1, <1>2, IntervalInduction
  <2> QED BY <2>1
<1>4. PICK f : \A n \in 0..num : At(f, n)
  <2> HIDE DEF At
  <2> QED BY <1>3
<1> DEFINE g == [n \in 0..num |-> f[n]]
<1>5. g = [n \in 0..num |-> IF n = 0 THEN c ELSE File!Absorb(g[n - 1], lines[n])]
  <2> SUFFICES ASSUME NEW n \in 0..num
               PROVE  f[n] = IF n = 0 THEN c ELSE File!Absorb(g[n - 1], lines[n])
    OBVIOUS
  <2>1. n # 0 => n - 1 \in 0..num OBVIOUS
  <2>2. n # 0 => g[n - 1] = f[n - 1] BY <2>1
  <2> HIDE DEF g
  <2> QED BY <1>4, <2>2
<1> HIDE DEF g
<1>6. ReplayedBy(c, lines, g) BY <1>5, Zenon DEF ReplayedBy
<1> QED BY <1>6

\* Replaying lines reads one after the other.
LEMMA ReplayRight ==
  ASSUME NEW c, NEW lines, Len(lines) \in Nat
  PROVE  LET f == File!Replay(c, lines)
         IN  f[0] = c /\ \A n \in 1..Len(lines) : f[n] = File!Absorb(f[n - 1], lines[n])
<1> DEFINE f == CHOOSE g : ReplayedBy(c, lines, g)
<1>1. File!Replay(c, lines) = f BY Zenon DEF File!Replay, ReplayedBy
<1>2. ReplayedBy(c, lines, f)
  <2>1. \E g : ReplayedBy(c, lines, g) BY ReplayExists
  <2> HIDE DEF ReplayedBy
  <2> QED BY <2>1
<1> HIDE DEF f
<1>3. \A n \in 0..Len(lines) : f[n] = IF n = 0 THEN c ELSE File!Absorb(f[n - 1], lines[n])
  BY <1>2 DEF ReplayedBy
<1> QED BY <1>1, <1>3

\* With no lines a checker knows what it knew.
LEMMA NothingRead ==
  ASSUME NEW c PROVE File!AbsorbAll(c, <<>>) = c
<1>1. Len(<<>>) = 0 OBVIOUS
<1> QED BY <1>1, ReplayRight DEF File!AbsorbAll

\* One line more is read after the others.
LEMMA LineMore ==
  ASSUME NEW c, NEW out, out \in Seq(Range(out)), NEW line
  PROVE  /\ Append(out, line) \in Seq(Range(Append(out, line)))
         /\ File!AbsorbAll(c, Append(out, line)) = File!Absorb(File!AbsorbAll(c, out), line)
<1> DEFINE E == Range(out) \cup {line}
           more == Append(out, line)
           n == Len(out)
           before == File!Replay(c, out)
           after == File!Replay(c, more)
<1>1. out \in Seq(E) /\ line \in E
  <2>1. Range(out) \subseteq E OBVIOUS
  <2> HIDE DEF E
  <2> QED BY <2>1, SeqIn DEF E
<1> HIDE DEF E
<1>2. /\ more \in Seq(E) /\ n \in Nat /\ Len(more) = n + 1
      /\ \A i \in 1..n : more[i] = out[i]
      /\ more[n + 1] = line
  BY <1>1, AppendProperties, LenProperties
<1> HIDE DEF more
<1>3. more \in Seq(Range(more)) BY <1>2, SeqIn
<1>4. before[0] = c /\ \A i \in 1..n : before[i] = File!Absorb(before[i - 1], out[i])
  BY <1>2, ReplayRight
<1>5. after[0] = c /\ \A i \in 1..Len(more) : after[i] = File!Absorb(after[i - 1], more[i])
  BY <1>2, ReplayRight
<1>6. File!AbsorbAll(c, out) = before[n] /\ File!AbsorbAll(c, more) = after[n + 1]
  BY <1>2 DEF File!AbsorbAll
<1> HIDE DEF before, after, n
<1> DEFINE S == {i \in 0..n : after[i] = before[i]}
<1>7. 0 \in S BY <1>2, <1>4, <1>5
<1>8. ASSUME NEW i \in 1..n, i - 1 \in S PROVE i \in S
  <2>1. i \in 1..Len(more) /\ i \in 0..n BY <1>2
  <2>2. after[i - 1] = before[i - 1] /\ more[i] = out[i] BY <1>2, <1>8
  <2>3. after[i] = before[i] BY <2>1, <2>2, <1>4, <1>5
  <2> QED BY <2>1, <2>3
<1>9. n \in S
  <2> HIDE DEF S
  <2>1. 0..n \subseteq S BY <1>2, <1>7, <1>8, IntervalInduction
  <2> QED BY <1>2, <2>1
<1>10. n + 1 \in 1..Len(more) /\ (n + 1) - 1 = n BY <1>2
<1>11. after[n + 1] = File!Absorb(before[n], line) BY <1>2, <1>5, <1>9, <1>10
<1> QED BY <1>3, <1>6, <1>11 DEF more

----------------------------------------------------------------------------
(* What the calls of the generator do to what a checker knows.             *)

\* What one more element adds.
LEMMA RangeOfMore ==
  ASSUME NEW A, NEW s \in Seq(A), NEW x \in A
  PROVE  Range(Append(s, x)) = Range(s) \cup {x}
<1> DEFINE n == Len(s)
           t == Append(s, x)
<1>1. /\ n \in Nat /\ DOMAIN s = 1..n /\ DOMAIN t = 1..(n + 1)
      /\ \A i \in 1..n : t[i] = s[i]
      /\ t[n + 1] = x
  BY LenProperties, AppendProperties
<1> HIDE DEF n, t
<1>2. 1..(n + 1) = (1..n) \cup {n + 1} BY <1>1
<1>3. Range(t) = Range(s) \cup {x} BY <1>1, <1>2 DEF Range
<1> QED BY <1>3 DEF t

\* clean_hints leaves out the hints that say nothing.
LEMMA CleanHintsRight ==
  ASSUME NEW ids \in Seq(Int)
  PROVE  CleanHints(ids) \in Seq(Int) /\ Range(CleanHints(ids)) = Range(ids) \ {TAUTOLOGY}
<1> DEFINE n == Len(ids)
           G == [s \in Seq(Int) |-> [id \in Int |-> IF id = TAUTOLOGY THEN s ELSE Append(s, id)]]
           Body(f) == [i \in 0..n |-> IF i = 0 THEN <<>>
                                      ELSE IF ids[i] = TAUTOLOGY THEN f[i - 1]
                                           ELSE Append(f[i - 1], ids[i])]
           kept == CHOOSE f : f = Body(f)
<1>0. n \in Nat /\ DOMAIN ids = 1..n /\ \A i \in 1..n : ids[i] \in Int
  BY LenProperties, ElementOfSeq
<1>1. G \in [Seq(Int) -> [Int -> Seq(Int)]]
  <2>1. \A s \in Seq(Int), id \in Int : Append(s, id) \in Seq(Int) BY AppendProperties
  <2> QED BY <2>1
<1>2. \A s \in Seq(Int), id \in Int : G[s][id] = IF id = TAUTOLOGY THEN s ELSE Append(s, id)
  OBVIOUS
<1>3. PICK h \in [0..n -> Seq(Int)] : h[0] = <<>> /\ \A i \in 1..n : h[i] = G[h[i-1]][ids[i]]
  <2> HIDE DEF G
  <2>1. <<>> \in Seq(Int) OBVIOUS
  <2>2. RunsOf(Seq(Int), G, <<>>, ids) # {} BY <1>1, <2>1, RunExists, Zenon
  <2> QED BY <2>2 DEF RunsOf
<1> HIDE DEF G
<1>4. h = Body(h)
  <2>1. ASSUME NEW i \in 0..n, i # 0
        PROVE  h[i] = IF ids[i] = TAUTOLOGY THEN h[i - 1] ELSE Append(h[i - 1], ids[i])
    <3>1. i \in 1..n /\ i - 1 \in 0..n BY <1>0, <2>1
    <3> QED BY <3>1, <1>0, <1>2, <1>3
  <2>2. \A i \in 0..n : h[i] = IF i = 0 THEN <<>>
                               ELSE IF ids[i] = TAUTOLOGY THEN h[i - 1] ELSE Append(h[i - 1], ids[i])
    BY <1>3, <2>1
  <2> QED BY <2>2
<1>5. kept = Body(kept)
  <2> HIDE DEF Body
  <2> QED BY <1>4
<1>6. CleanHints(ids) = kept[n] BY Zenon DEF CleanHints
<1> HIDE DEF kept
<1> DEFINE First(i) == {ids[j] : j \in 1..i} \ {TAUTOLOGY}
           S == {i \in 0..n : kept[i] \in Seq(Int) /\ Range(kept[i]) = First(i)}
<1>7. 0 \in S
  <2>1. kept[0] = <<>> BY <1>0, <1>5
  <2>2. <<>> \in Seq(Int) /\ Range(<<>>) = {} BY DEF Range
  <2>3. First(0) = {} OBVIOUS
  <2>4. 0 \in 0..n BY <1>0
  <2> HIDE DEF First, n
  <2>5. kept[0] \in Seq(Int) BY <2>1, <2>2, Zenon
  <2>6. Range(kept[0]) = First(0) BY <2>1, <2>2, <2>3, Zenon
  <2> QED BY <2>4, <2>5, <2>6, Zenon
<1>8. ASSUME NEW i \in 1..n, i - 1 \in S PROVE i \in S
  <2>1. i \in 0..n /\ i # 0 BY <1>0
  <2>2. kept[i] = IF ids[i] = TAUTOLOGY THEN kept[i - 1] ELSE Append(kept[i - 1], ids[i])
    BY <1>5, <2>1
  <2>3. First(i) = First(i - 1) \cup ({ids[i]} \ {TAUTOLOGY})
    <3>1. 1..i = (1..(i - 1)) \cup {i} BY <1>0
    <3> QED BY <3>1
  <2>4. kept[i - 1] \in Seq(Int) /\ Range(kept[i - 1]) = First(i - 1) /\ ids[i] \in Int
    BY <1>0, <1>8
  <2> HIDE DEF First
  <2>5. CASE ids[i] = TAUTOLOGY BY <2>1, <2>2, <2>3, <2>4, <2>5
  <2>6. CASE ids[i] # TAUTOLOGY
    <3>1. Range(Append(kept[i - 1], ids[i])) = Range(kept[i - 1]) \cup {ids[i]}
      BY <2>4, RangeOfMore
    <3>2. Append(kept[i - 1], ids[i]) \in Seq(Int) BY <2>4, AppendProperties
    <3> QED BY <2>1, <2>2, <2>3, <2>4, <2>6, <3>1, <3>2
  <2> QED BY <2>5, <2>6
<1>9. n \in S
  <2> HIDE DEF S
  <2>1. 0..n \subseteq S BY <1>0, <1>7, <1>8, IntervalInduction
  <2> QED BY <1>0, <2>1
<1>10. First(n) = Range(ids) \ {TAUTOLOGY} BY <1>0 DEF Range
<1> QED BY <1>6, <1>9, <1>10

Generator(p) ==
    p = [type |-> p.type, variable |-> p.variable, counter |-> p.counter, live |-> p.live,
         deletions |-> p.deletions, stored |-> p.stored, deferred |-> p.deferred,
         empty |-> p.empty, finalized |-> p.finalized, out |-> p.out]

IsChecker(c) ==
    /\ c = [db |-> c.db, last |-> c.last, final |-> c.final]
    /\ c.db = [id \in DOMAIN c.db |-> c.db[id]]

\* The generator has printed lines and no refutation, and has stored what a checker holds.
Shown(c, p) ==
    /\ Generator(p) /\ p.type \in {"LRAT", "DRAT", "FRAT"} /\ p.counter \in Nat
    /\ p.empty = TAUTOLOGY
    /\ p.out \in Seq(Range(p.out))
    /\ IsChecker(Seen(c, p))
    /\ StoresClauses(p) => p.stored = Seen(c, p).db

\* One clause more.
With(d, id, clause) == [i \in DOMAIN d \cup {id} |-> IF i = id THEN clause ELSE d[i]]

\* Some clauses less.
Without(d, gone) == [i \in DOMAIN d \ gone |-> d[i]]

SameCounters(p, q) == q.type = p.type /\ q.variable = p.variable /\ q.counter = p.counter

\* A checker that reads a clause has it.
LEMMA AddAbsorbed ==
  ASSUME NEW c, IsChecker(c), NEW id, NEW clause, NEW hints
  PROVE  LET d == File!Absorb(c, Line!AddLine(id, clause, hints))
         IN  IsChecker(d) /\ d.db = With(c.db, id, clause)
<1> DEFINE line == Line!AddLine(id, clause, hints)
           db == With(c.db, id, clause)
           d == File!Absorb(c, line)
<1>1. line.kind = "add" /\ line.id = id /\ line.clause = clause BY DEF Line!AddLine
<1> HIDE DEF line
<1>2. d = [c EXCEPT !.last = id, !.db = db]
  BY <1>1 DEF File!Absorb, With
<1>3. db = [i \in DOMAIN db |-> db[i]] BY DEF With
<1> HIDE DEF d, db
<1>4. d = [db |-> db, last |-> id, final |-> c.final] BY <1>2 DEF IsChecker
<1>5. IsChecker(d) /\ d.db = db BY <1>3, <1>4 DEF IsChecker
<1> QED BY <1>5 DEF d, db, line

\* A checker that reads a deletion has the clauses no more.
LEMMA DeleteAbsorbed ==
  ASSUME NEW c, IsChecker(c), NEW ids \in Seq(Int)
  PROVE  LET d == File!Absorb(c, Line!DeleteLine(ids))
         IN  IsChecker(d) /\ d.db = Without(c.db, Range(ids))
<1> DEFINE line == Line!DeleteLine(ids)
           db == Without(c.db, Range(ids))
           d == File!Absorb(c, line)
<1>1. line.kind = "delete" /\ line.ids = ids BY DEF Line!DeleteLine
<1> HIDE DEF line
<1>2. {ids[i] : i \in 1..Len(ids)} = Range(ids) BY LenProperties DEF Range
<1>3. d = [c EXCEPT !.db = db]
  BY <1>1, <1>2 DEF File!Absorb, Without
<1>4. db = [i \in DOMAIN db |-> db[i]] BY DEF Without
<1> HIDE DEF d, db
<1>5. d = [db |-> db, last |-> c.last, final |-> c.final] BY <1>3 DEF IsChecker
<1>6. IsChecker(d) /\ d.db = db BY <1>4, <1>5 DEF IsChecker
<1> QED BY <1>6 DEF d, db, line

\* generate_clause takes an identifier, and the checker has the clause under it unless
\* the clause says nothing.
LEMMA GenerateShown ==
  ASSUME NEW c, NEW p, Shown(c, p), NEW literals, NEW hints, CleanClause(literals) # {}
  PROVE  LET q == GenerateClause(p, literals, hints)
         IN  /\ Shown(c, q) /\ q.type = p.type /\ q.variable = p.variable
             /\ q.counter = p.counter + 1
             /\ Seen(c, q).db = IF CleanClause(literals) = TautologyClause THEN Seen(c, p).db
                                ELSE With(Seen(c, p).db, p.counter + 1, CleanClause(literals))
<1> DEFINE q == GenerateClause(p, literals, hints)
           clause == CleanClause(literals)
           cleaned == CleanHints(hints)
           id == p.counter + 1
           line == Line!AddLine(id, clause, cleaned)
           out == Append(p.out, line)
           db == With(Seen(c, p).db, id, clause)
           stored == IF StoresClauses(p) THEN db ELSE p.stored
<1>1. /\ Generator(p) /\ p.type # "NONE" /\ p.counter \in Nat /\ p.empty = TAUTOLOGY
      /\ p.out \in Seq(Range(p.out)) /\ IsChecker(Seen(c, p))
      /\ StoresClauses(p) => p.stored = Seen(c, p).db
      /\ p.type \in {"LRAT", "DRAT", "FRAT"}
  BY DEF Shown
<1>2. q = GenerateCleaned(p, clause, cleaned) BY DEF GenerateClause
<1> HIDE DEF clause, cleaned
<1>3. CASE clause = TautologyClause
  <2>1. q = [p EXCEPT !.counter = id] BY <1>1, <1>2, <1>3, Zenon DEF GenerateCleaned
  <2> HIDE DEF q
  <2>2. /\ Generator(q) /\ q.counter = id /\ q.type = p.type /\ q.variable = p.variable
        /\ q.empty = p.empty /\ q.out = p.out /\ q.stored = p.stored
    BY <1>1, <2>1 DEF Generator
  <2>3. Seen(c, q) = Seen(c, p) /\ StoresClauses(q) = StoresClauses(p)
    BY <2>2 DEF Seen, StoresClauses
  <2>4. id \in Nat BY <1>1
  <2>5. Shown(c, q) BY <1>1, <2>2, <2>3, <2>4 DEF Shown
  <2> QED BY <1>3, <2>2, <2>3, <2>5 DEF q, clause
<1>4. CASE clause # TautologyClause
  <2>1. stored = IF StoresClauses(p) THEN [i \in DOMAIN p.stored \cup {id} |->
                                              IF i = id THEN clause ELSE p.stored[i]]
                 ELSE p.stored
    BY <1>1 DEF With
  <2>2. q = [[[p EXCEPT !.counter = id] EXCEPT !.out = Append(@, line)] EXCEPT
                !.live = @ + 1,
                !.stored = IF StoresClauses(p)
                           THEN [i \in DOMAIN @ \cup {id} |-> IF i = id THEN clause ELSE @[i]]
                           ELSE @,
                !.empty = IF clause = {} THEN id ELSE @]
    <3> DEFINE taken == [p EXCEPT !.counter = id]
               told == IF p.empty = TAUTOLOGY THEN Emit(taken, line) ELSE taken
               ready == [told EXCEPT
                !.live = @ + 1,
                !.stored = IF StoresClauses(p)
                           THEN [i \in DOMAIN @ \cup {id} |-> IF i = id THEN clause ELSE @[i]]
                           ELSE @,
                !.empty = IF clause = {} THEN id ELSE @]
    <3>1. q = IF p.type = "NONE" THEN p ELSE IF clause = TautologyClause THEN taken ELSE ready
      BY <1>2, Zenon DEF GenerateCleaned
    <3>2. told = [[p EXCEPT !.counter = id] EXCEPT !.out = Append(@, line)]
      <4>1. told = Emit(taken, line) BY <1>1
      <4> QED BY <4>1 DEF Emit
    <3> HIDE DEF told
    <3>3. q = ready
      <4> HIDE DEF q, taken, ready
      <4> QED BY <1>1, <1>4, <3>1
    <3> QED BY <3>2, <3>3
  <2>3. clause # {} BY DEF clause
  <2> HIDE DEF id, line, stored
  <2>4. q = [type |-> p.type, variable |-> p.variable, counter |-> id, live |-> p.live + 1,
             deletions |-> p.deletions, stored |-> stored, deferred |-> p.deferred,
             empty |-> p.empty, finalized |-> p.finalized, out |-> out]
    <3> DEFINE more == p.live + 1
    <3> HIDE DEF q, out
    <3> QED BY <1>1, <2>1, <2>2, <2>3 DEF Generator, out
  <2> HIDE DEF q, out
  <2>5. /\ Generator(q) /\ q.counter = id /\ q.type = p.type /\ q.variable = p.variable
        /\ q.empty = p.empty /\ q.out = out /\ q.stored = stored
    BY <2>4 DEF Generator
  <2>6. out \in Seq(Range(out)) /\ Seen(c, q) = File!Absorb(Seen(c, p), line)
    BY <1>1, <2>5, LineMore DEF Seen, out
  <2>7. IsChecker(Seen(c, q)) /\ Seen(c, q).db = db
    BY <1>1, <2>6, AddAbsorbed DEF line
  <2>8. StoresClauses(q) => q.stored = db BY <2>5 DEF stored, StoresClauses
  <2>9. id \in Nat BY <1>1 DEF id
  <2>10. Shown(c, q)
    <3> HIDE DEF db
    <3> QED BY <1>1, <2>5, <2>6, <2>7, <2>8, <2>9 DEF Shown
  <2> QED BY <1>4, <2>5, <2>7, <2>10 DEF q, clause, id
<1> QED BY <1>3, <1>4

\* q is p with the clauses of gone deleted.
Lost(c, p, q, gone) ==
    Shown(c, q) /\ SameCounters(p, q) /\ Seen(c, q).db = Without(Seen(c, p).db, gone)

\* No clause is a unit clause, which a DRAT proof would keep.
NoUnits(d) == \A id \in DOMAIN d : \E l, m \in d[id] : l # m

\* A round of the loop of delete_clauses.
LEMMA DeleteStoredLost ==
  ASSUME NEW c, NEW p, NoUnits(Seen(c, p).db), NEW q, NEW gone, Lost(c, p, q, gone),
         StoresClauses(q), NEW id \in Int, id # TAUTOLOGY
  PROVE  Lost(c, p, DeleteStored(q, id), gone \cup {id})
<1> DEFINE d == Seen(c, p).db
           e == Seen(c, q).db
           r == DeleteStored(q, id)
           line == Line!DeleteLine(<<id>>)
           out == Append(q.out, line)
           stored == [i \in DOMAIN q.stored \ {id} |-> q.stored[i]]
<1>1. /\ Shown(c, q) /\ SameCounters(p, q) /\ e = Without(d, gone)
      /\ Generator(q) /\ q.counter \in Nat /\ q.empty = TAUTOLOGY
      /\ q.out \in Seq(Range(q.out)) /\ IsChecker(Seen(c, q)) /\ q.stored = e
      /\ q.type \in {"LRAT", "DRAT", "FRAT"}
  BY DEF Lost, Shown
<1>2. DOMAIN e = DOMAIN d \ gone /\ \A i \in DOMAIN e : e[i] = d[i] BY <1>1 DEF Without
<1>3. Without(e, {id}) = Without(d, gone \cup {id})
  <2>1. DOMAIN e \ {id} = DOMAIN d \ (gone \cup {id}) BY <1>2
  <2>2. \A i \in DOMAIN e \ {id} : e[i] = d[i] BY <1>2
  <2> HIDE DEF e, d
  <2> QED BY <2>1, <2>2 DEF Without
<1>4. CASE id \notin DOMAIN q.stored
  <2>1. r = q BY <1>4, Zenon DEF DeleteStored
  <2>2. e = Without(e, {id})
    <3>1. DOMAIN e \ {id} = DOMAIN e BY <1>1, <1>4
    <3>2. e = [i \in DOMAIN e |-> e[i]] BY <1>1 DEF Without
    <3> HIDE DEF e
    <3> QED BY <3>1, <3>2 DEF Without
  <2> HIDE DEF d, e, r
  <2>3. Lost(c, p, r, gone \cup {id}) BY <1>1, <1>3, <2>1, <2>2 DEF Lost, d, e
  <2> QED BY <2>3 DEF r
<1>5. CASE id \in DOMAIN q.stored
  <2>1. id # q.empty /\ ~(\A l, m \in q.stored[id] : l = m)
    <3>1. q.stored[id] = d[id] /\ id \in DOMAIN d BY <1>1, <1>2, <1>5
    <3> QED BY <1>1, <3>1 DEF NoUnits
  <2>2. r = [Emit(q, line) EXCEPT !.stored = [i \in DOMAIN @ \ {id} |-> @[i]]]
    <3> DEFINE less == [Emit(q, line) EXCEPT !.stored = [i \in DOMAIN @ \ {id} |-> @[i]]]
               kept == q.type = "DRAT" /\ \A l, m \in q.stored[id] : l = m
    <3>1. r = IF id \notin DOMAIN q.stored \/ id = q.empty \/ kept THEN q ELSE less
      BY Zenon DEF DeleteStored
    <3>2. ~kept BY <2>1
    <3> HIDE DEF less, kept, r
    <3> QED BY <1>5, <2>1, <3>1, <3>2 DEF less
  <2>3. r = [[q EXCEPT !.out = Append(@, line)] EXCEPT !.stored = [i \in DOMAIN @ \ {id} |-> @[i]]]
    BY <2>2 DEF Emit
  <2> HIDE DEF line
  <2>4. r = [type |-> q.type, variable |-> q.variable, counter |-> q.counter, live |-> q.live,
             deletions |-> q.deletions, stored |-> stored, deferred |-> q.deferred,
             empty |-> q.empty, finalized |-> q.finalized, out |-> out]
    <3>1. r = [[q EXCEPT !.out = out] EXCEPT !.stored = stored]
      <4>1. [q EXCEPT !.out = Append(@, line)].stored = q.stored BY <1>1 DEF Generator
      <4> HIDE DEF r
      <4> QED BY <2>3, <4>1
    <3> HIDE DEF r, out, stored
    <3> QED BY <1>1, <3>1 DEF Generator
  <2> HIDE DEF r, out
  <2>5. /\ Generator(r) /\ SameCounters(q, r) /\ r.empty = q.empty /\ r.out = out
        /\ r.stored = stored
    <3> HIDE DEF stored
    <3> QED BY <2>4 DEF Generator, SameCounters
  <2>6. out \in Seq(Range(out)) /\ Seen(c, r) = File!Absorb(Seen(c, q), line)
    BY <1>1, <2>5, LineMore DEF Seen, out
  <2>7. IsChecker(Seen(c, r)) /\ Seen(c, r).db = Without(e, {id})
    <3>1. <<id>> \in Seq(Int) /\ Range(<<id>>) = {id} BY DEF Range
    <3>2. /\ IsChecker(File!Absorb(Seen(c, q), line))
          /\ File!Absorb(Seen(c, q), line).db = Without(e, Range(<<id>>))
      BY <1>1, <3>1, DeleteAbsorbed DEF line
    <3> QED BY <2>6, <3>1, <3>2
  <2>8. r.stored = Without(e, {id}) BY <1>1, <2>5 DEF Without
  <2> HIDE DEF d, e, stored
  <2>9. r.type = q.type /\ r.counter = q.counter BY <2>5 DEF SameCounters
  <2>10. Shown(c, r) BY <1>1, <2>5, <2>6, <2>7, <2>8, <2>9 DEF Shown
  <2>11. SameCounters(p, r) BY <1>1, <2>5 DEF SameCounters
  <2>12. Lost(c, p, r, gone \cup {id}) BY <1>3, <2>7, <2>10, <2>11 DEF Lost, d
  <2> QED BY <2>12 DEF r
<1> QED BY <1>4, <1>5

\* The recursion of the fold over the list has a solution.
DeletedBy(p, ids, f) ==
    f = [s \in SUBSET (1..Len(ids)) |->
           IF s = {} THEN p ELSE DeleteStored(f[s \ {Max(s)}], ids[Max(s)])]

LEMMA DeletedExists ==
  ASSUME NEW p, NEW ids, Len(ids) \in Nat
  PROVE  \E f : DeletedBy(p, ids, f)
<1> DEFINE num == Len(ids)
           Step(f, s) == IF s = {} THEN p ELSE DeleteStored(f[s \ {Max(s)}], ids[Max(s)])
           Part(n) == \E f : \A s \in SUBSET (1..n) : f[s] = Step(f, s)
           S == {n \in 0..num : Part(n)}
<1>1. 0 \in S
  <2> DEFINE g == [s \in SUBSET (1..0) |-> p]
  <2>1. \A s \in SUBSET (1..0) : s = {} /\ g[s] = p OBVIOUS
  <2> HIDE DEF g
  <2>2. Part(0) BY <2>1
  <2> HIDE DEF Part
  <2> QED BY <2>2
<1>2. ASSUME NEW n \in 1..num, n - 1 \in S PROVE n \in S
  <2> HIDE DEF Step
  <2>1. PICK f : \A s \in SUBSET (1..(n - 1)) : f[s] = Step(f, s) BY <1>2
  <2> USE DEF Step
  <2> DEFINE g == [s \in SUBSET (1..n) |->
                     IF n \in s THEN DeleteStored(f[s \ {n}], ids[n]) ELSE f[s]]
  <2>2. \A s \in SUBSET (1..n) : /\ s \ {n} \in SUBSET (1..(n-1))
                                 /\ n \notin s => s \in SUBSET (1..(n-1))
    OBVIOUS
  <2>3. ASSUME NEW s \in SUBSET (1..n) PROVE g[s] = Step(g, s)
    <3>1. CASE n \in s
      <4>1. Max(s) = n BY <3>1, LastOfSet
      <4>2. s \ {n} \in SUBSET (1..n) /\ n \notin s \ {n} OBVIOUS
      <4>3. g[s \ {n}] = f[s \ {n}] BY <4>2
      <4>4. g[s] = DeleteStored(f[s \ {n}], ids[n]) BY <3>1
      <4>5. s # {} BY <3>1
      <4> HIDE DEF g
      <4> QED BY <4>1, <4>3, <4>4, <4>5
    <3>2. CASE n \notin s
      <4>1. s \in SUBSET (1..(n-1)) BY <3>2, <2>2
      <4>2. f[s] = Step(f, s) BY <4>1, <2>1
      <4>3. s \ {Max(s)} \in SUBSET (1..n) /\ n \notin s \ {Max(s)} BY <3>2
      <4>4. g[s \ {Max(s)}] = f[s \ {Max(s)}] BY <4>3
      <4>5. g[s] = f[s] BY <3>2
      <4> HIDE DEF g
      <4> QED BY <4>2, <4>4, <4>5
    <3> QED BY <3>1, <3>2
  <2> HIDE DEF g, Step
  <2>4. Part(n) BY <2>3
  <2> QED BY <2>4
<1>3. num \in S
  <2> HIDE DEF S
  <2>1. 0..num \subseteq S BY <1>1, <1>2, IntervalInduction
  <2> QED BY <2>1
<1>4. PICK f : \A s \in SUBSET (1..num) : f[s] = Step(f, s)
  <2> HIDE DEF Step
  <2> QED BY <1>3
<1> DEFINE g == [s \in SUBSET (1..num) |-> f[s]]
<1>5. ASSUME NEW s \in SUBSET (1..num) PROVE f[s] = Step(g, s)
  <2>1. s \ {Max(s)} \in SUBSET (1..num) OBVIOUS
  <2>2. g[s \ {Max(s)}] = f[s \ {Max(s)}] BY <2>1
  <2> HIDE DEF g
  <2> QED BY <1>4, <2>2
<1>6. g = [s \in SUBSET (1..num) |-> Step(g, s)]
  <2>1. g = [s \in SUBSET (1..num) |-> f[s]] OBVIOUS
  <2> HIDE DEF g, Step
  <2> QED BY <1>5, <2>1
<1> HIDE DEF g
<1>7. DeletedBy(p, ids, g) BY <1>6, Zenon DEF DeletedBy
<1> QED BY <1>7

\* The whole loop of delete_clauses.
LEMMA DeleteEachLost ==
  ASSUME NEW c, NEW p, Shown(c, p), NoUnits(Seen(c, p).db), StoresClauses(p),
         NEW ids \in Seq(Int), TAUTOLOGY \notin Range(ids)
  PROVE  Lost(c, p, FoldLeft(DeleteStored, p, ids), Range(ids))
<1> DEFINE n == Len(ids)
           fold == CHOOSE f : DeletedBy(p, ids, f)
           First(i) == {ids[j] : j \in 1..i}
           S == {i \in 0..n : Lost(c, p, fold[1..i], First(i))}
<1>0. n \in Nat /\ DOMAIN ids = 1..n /\ \A i \in 1..n : ids[i] \in Int
  BY LenProperties, ElementOfSeq
<1>1. DeletedBy(p, ids, fold)
  <2>1. \E f : DeletedBy(p, ids, f) BY <1>0, DeletedExists
  <2> HIDE DEF DeletedBy
  <2> QED BY <2>1
<1>2. FoldLeft(DeleteStored, p, ids) = fold[1..n]
  BY <1>0 DEF FoldLeft, MapThenFoldSet, DeletedBy
<1> HIDE DEF fold
<1>3. \A s \in SUBSET (1..n) :
        fold[s] = IF s = {} THEN p ELSE DeleteStored(fold[s \ {Max(s)}], ids[Max(s)])
  BY <1>1 DEF DeletedBy
<1>4. 0 \in S
  <2>1. 1..0 = {} /\ {} \in SUBSET (1..n) OBVIOUS
  <2>2. fold[1..0] = p BY <1>3, <2>1
  <2>3. First(0) = {} OBVIOUS
  <2>4. Seen(c, p).db = Without(Seen(c, p).db, {})
    <3> DEFINE d == Seen(c, p).db
    <3>1. d = [id \in DOMAIN d |-> d[id]] BY DEF Shown, IsChecker
    <3> HIDE DEF d
    <3>2. d = Without(d, {}) BY <3>1 DEF Without
    <3> QED BY <3>2 DEF d
  <2>5. Lost(c, p, fold[1..0], First(0)) BY <2>2, <2>3, <2>4 DEF Lost, SameCounters
  <2>6. 0 \in 0..n BY <1>0
  <2> HIDE DEF First, n
  <2> QED BY <2>5, <2>6
<1>5. ASSUME NEW i \in 1..n, i - 1 \in S PROVE i \in S
  <2>1. Lost(c, p, fold[1..(i - 1)], First(i - 1)) BY <1>5
  <2>2. fold[1..i] = DeleteStored(fold[1..(i - 1)], ids[i])
    <3>1. 1..i \in SUBSET (1..n) BY <1>0
    <3>2. Max(1..i) = i /\ (1..i) \ {i} = 1..(i - 1) /\ 1..i # {} BY <1>0, LastOfInterval
    <3>3. fold[1..i] = DeleteStored(fold[(1..i) \ {Max(1..i)}], ids[Max(1..i)])
      BY <3>1, <3>2, <1>3
    <3> QED BY <3>2, <3>3
  <2>3. First(i) = First(i - 1) \cup {ids[i]}
    <3>1. 1..i = (1..(i - 1)) \cup {i} BY <1>0
    <3> QED BY <3>1
  <2>4. ids[i] \in Int /\ ids[i] # TAUTOLOGY BY <1>0 DEF Range
  <2> HIDE DEF First
  <2>5. StoresClauses(fold[1..(i - 1)]) BY <2>1 DEF Lost, SameCounters, StoresClauses
  <2>6. Lost(c, p, fold[1..i], First(i)) BY <2>1, <2>2, <2>3, <2>4, <2>5, DeleteStoredLost
  <2>7. i \in 0..n BY <1>0
  <2> QED BY <2>6, <2>7
<1>6. n \in S
  <2> HIDE DEF S
  <2>1. 0..n \subseteq S BY <1>0, <1>4, <1>5, IntervalInduction
  <2> QED BY <1>0, <2>1
<1>7. First(n) = Range(ids) BY <1>0 DEF Range
<1> QED BY <1>2, <1>6, <1>7

\* delete_clauses deletes the clauses named, in every format.
LEMMA DeleteClausesLost ==
  ASSUME NEW c, NEW p, Shown(c, p), NoUnits(Seen(c, p).db), NEW ids \in Seq(Int)
  PROVE  Lost(c, p, DeleteClauses(p, ids), Range(ids) \ {TAUTOLOGY})
<1> DEFINE cleaned == CleanHints(ids)
           q == Counted(p, cleaned)
           r == DeleteClauses(p, ids)
           line == Line!DeleteLine(cleaned)
           out == Append(q.out, line)
           d == Seen(c, p).db
<1>1. cleaned \in Seq(Int) /\ Range(cleaned) = Range(ids) \ {TAUTOLOGY} BY CleanHintsRight
<1>2. r = DeleteCounted(q, cleaned) BY DEF DeleteClauses, DeleteCleaned
<1> HIDE DEF cleaned
<1>3. q = [p EXCEPT !.live = p.live - Len(cleaned), !.deletions = p.deletions + Len(cleaned)]
  BY DEF Counted
<1> HIDE DEF q
<1>4. /\ Generator(q) /\ SameCounters(p, q) /\ q.empty = p.empty /\ q.out = p.out
      /\ q.stored = p.stored
  <2> DEFINE live == p.live - Len(cleaned)
             deletions == p.deletions + Len(cleaned)
  <2>1. q = [p EXCEPT !.live = live, !.deletions = deletions] BY <1>3
  <2> HIDE DEF live, deletions
  <2>2. Generator(p) BY DEF Shown
  <2> QED BY <2>1, <2>2 DEF Generator, SameCounters
<1>5. Seen(c, q) = Seen(c, p) /\ StoresClauses(q) = StoresClauses(p)
  BY <1>4 DEF Seen, StoresClauses, SameCounters
<1>6. Shown(c, q) BY <1>4, <1>5 DEF Shown, SameCounters
<1>7. q.empty = TAUTOLOGY /\ q.type \in {"LRAT", "DRAT", "FRAT"} BY <1>6 DEF Shown
<1>8. r = IF q.type = "LRAT" THEN Emit(q, line) ELSE FoldLeft(DeleteStored, q, cleaned)
  BY <1>2, <1>7 DEF DeleteCounted
<1>9. CASE q.type = "LRAT"
  <2>1. r = [q EXCEPT !.out = out] BY <1>8, <1>9 DEF Emit
  <2> HIDE DEF r, line, out
  <2>2. /\ Generator(r) /\ SameCounters(q, r) /\ r.empty = q.empty /\ r.out = out
    BY <1>4, <2>1 DEF Generator, SameCounters
  <2>3. out \in Seq(Range(out)) /\ Seen(c, r) = File!Absorb(Seen(c, q), line)
    BY <1>6, <2>2, LineMore DEF Seen, out, Shown
  <2>4. IsChecker(Seen(c, r)) /\ Seen(c, r).db = Without(Seen(c, q).db, Range(cleaned))
    BY <1>1, <1>6, <2>3, DeleteAbsorbed DEF Shown, line
  <2>5. ~StoresClauses(r) BY <1>9, <2>2 DEF SameCounters, StoresClauses
  <2>6. Shown(c, r) BY <1>6, <2>2, <2>3, <2>4, <2>5 DEF Shown, SameCounters
  <2>7. SameCounters(p, r) BY <1>4, <2>2 DEF SameCounters
  <2>8. Lost(c, p, r, Range(cleaned)) BY <1>5, <2>4, <2>6, <2>7 DEF Lost
  <2> QED BY <1>1, <2>8 DEF r
<1>10. CASE q.type # "LRAT"
  <2>1. r = FoldLeft(DeleteStored, q, cleaned) BY <1>8, <1>10
  <2>2. StoresClauses(q) BY <1>7, <1>10 DEF StoresClauses
  <2> HIDE DEF r
  <2>3. Lost(c, q, r, Range(cleaned)) BY <1>1, <1>5, <1>6, <2>1, <2>2, DeleteEachLost
  <2>4. Lost(c, p, r, Range(cleaned)) BY <1>4, <1>5, <2>3 DEF Lost, SameCounters
  <2> QED BY <1>1, <2>4 DEF r
<1> QED BY <1>9, <1>10

----------------------------------------------------------------------------
(* The defining clauses of some of the nodes.                              *)

\* A terminal child makes the i-th defining clause of a node trivial.
Trivial(k, n, i) ==
    CASE i = 1 -> HIGH(k, n) = 0 [] i = 2 -> LOW(k, n) = 0
      [] i = 3 -> HIGH(k, n) = 1 [] i = 4 -> LOW(k, n) = 1

ClauseId(k, n, i) == k.node[n].dclause + i - 1

ClauseIds(k, n) == {ClauseId(k, n, i) : i \in {j \in 1..4 : ~Trivial(k, n, j)}}

ClauseOf(k, n, i) ==
    CleanClause(DefiningClause(DclauseTypes[i], XVAR(k, n), k.level2var[LEVEL(k, n)],
                               XVAR(k, HIGH(k, n)), XVAR(k, LOW(k, n))))

\* The nodes that have a definition.
Described(k) == {n \in InUse(k) : LEVEL(k, n) > 0}

\* The identifiers of nodes and clauses are the generator's.
Numbered(k, n, p) ==
    /\ k.node[n].dclause \in Nat \ {0} /\ k.node[n].dclause + 3 <= p.counter
    /\ k.node[n].xvar \in Nat /\ VarCount < k.node[n].xvar /\ k.node[n].xvar <= p.variable

\* The clauses d are the definitions of these nodes and nothing else.
Defined(k, nodes, p, d) ==
    /\ \A n \in nodes : Numbered(k, n, p)
    /\ \A m, n \in nodes : m # n => ClauseIds(k, m) \cap ClauseIds(k, n) = {}
    /\ DOMAIN d = UNION {ClauseIds(k, n) : n \in nodes}
    /\ \A n \in nodes, i \in 1..4 : ~Trivial(k, n, i) => d[ClauseId(k, n, i)] = ClauseOf(k, n, i)

\* The i-th identifier bdd_dclause gives.
LEMMA DclauseIs ==
  ASSUME NEW k, NEW n, n \notin Terminals, NEW i \in 1..4
  PROVE  bdd_dclause(k, n, DclauseTypes[i]) =
           IF Trivial(k, n, i) THEN TAUTOLOGY ELSE ClauseId(k, n, i)
<1> DEFINE dtype == DclauseTypes[i]
           trivial == CASE dtype = "HU" -> HIGH(k, n) = 0 [] dtype = "LU" -> LOW(k, n) = 0
                        [] dtype = "HD" -> HIGH(k, n) = 1 [] dtype = "LD" -> LOW(k, n) = 1
           place == CHOOSE j \in 1..4 : DclauseTypes[j] = dtype
<1>1. bdd_dclause(k, n, dtype) =
        IF n \in Terminals \/ trivial THEN TAUTOLOGY ELSE k.node[n].dclause + place - 1
  BY Zenon DEF bdd_dclause
<1>2. i = 1 \/ i = 2 \/ i = 3 \/ i = 4 OBVIOUS
<1>3. /\ i = 1 => dtype = "HU"
      /\ i = 2 => dtype = "LU"
      /\ i = 3 => dtype = "HD"
      /\ i = 4 => dtype = "LD"
  BY DEF DclauseTypes
<1>4. trivial = Trivial(k, n, i) BY <1>2, <1>3 DEF Trivial
<1>5. place = i
  <2>1. \A j \in 1..4 : DclauseTypes[j] = DclauseTypes[i] => j = i BY DEF DclauseTypes
  <2> QED BY <2>1
<1> HIDE DEF trivial, place, dtype
<1>6. bdd_dclause(k, n, dtype) = IF Trivial(k, n, i) THEN TAUTOLOGY ELSE k.node[n].dclause + i - 1
  BY <1>1, <1>4, <1>5
<1> QED BY <1>6 DEF ClauseId, dtype

\* The identifiers of the clauses of a node, as they are deleted.
LEMMA DefiningIdsAre ==
  ASSUME NEW k, NEW n, n \notin Terminals,
         k.node[n].dclause \in Nat, k.node[n].dclause + 3 < TAUTOLOGY
  PROVE  LET ids == [i \in 1..4 |-> bdd_dclause(k, n, DclauseTypes[i])]
         IN  ids \in Seq(Int) /\ Range(ids) \ {TAUTOLOGY} = ClauseIds(k, n)
<1> DEFINE ids == [i \in 1..4 |-> bdd_dclause(k, n, DclauseTypes[i])]
<1>1. \A i \in 1..4 : ids[i] = IF Trivial(k, n, i) THEN TAUTOLOGY ELSE ClauseId(k, n, i)
  BY DclauseIs
<1>2. ids = [i \in 1..4 |-> ids[i]] OBVIOUS
<1> HIDE DEF ids
<1>3. \A i \in 1..4 : ClauseId(k, n, i) \in Nat /\ ClauseId(k, n, i) < TAUTOLOGY
  BY DEF ClauseId, TAUTOLOGY
<1>4. TAUTOLOGY \in Int BY DEF TAUTOLOGY
<1>5. ids \in [1..4 -> Int]
  <2>1. \A i \in 1..4 : ids[i] \in Int BY <1>1, <1>3, <1>4
  <2> QED BY <1>2, <2>1
<1>6. ids \in Seq(Int)
  <2> DEFINE four == 4
  <2>1. four \in Nat /\ ids \in [1..four -> Int] BY <1>5
  <2> HIDE DEF four
  <2> QED BY <2>1, SeqDef
<1>7. Range(ids) = {ids[i] : i \in 1..4} BY <1>2 DEF Range
<1>8. \A i \in 1..4 : ids[i] # TAUTOLOGY <=> ~Trivial(k, n, i) BY <1>1, <1>3
<1>9. Range(ids) \ {TAUTOLOGY} = ClauseIds(k, n) BY <1>1, <1>7, <1>8 DEF ClauseIds
<1> QED BY <1>6, <1>9 DEF ids

\* After q the checker knows the definitions of these nodes and nothing else, and the
\* generator's counters are those of p.
Remain(c, k, p, nodes, q) ==
    /\ Shown(c, q) /\ SameCounters(p, q)
    /\ NoUnits(Seen(c, q).db) /\ Defined(k, nodes, p, Seen(c, q).db)

\* The definition of one node is deleted (bdd_gbc, bdd_done).
LEMMA DeleteNodeRight ==
  ASSUME NEW c, NEW k, NEW p, p.counter < TAUTOLOGY, NEW nodes, NEW n \in nodes,
         n \notin Terminals, NEW q, Remain(c, k, p, nodes, q)
  PROVE  Remain(c, k, p, nodes \ {n}, DeleteClauses(q, DefiningIds(k, n)))
<1> DEFINE ids == [i \in 1..4 |-> bdd_dclause(k, n, DclauseTypes[i])]
           r == DeleteClauses(q, DefiningIds(k, n))
           gone == ClauseIds(k, n)
           d == Seen(c, q).db
           e == Seen(c, r).db
<1>1. /\ Shown(c, q) /\ SameCounters(p, q) /\ NoUnits(d) /\ Defined(k, nodes, p, d)
      /\ p.counter \in Nat
  BY DEF Remain, Shown, SameCounters
<1>2. /\ \A m \in nodes : Numbered(k, m, p)
      /\ \A m, o \in nodes : m # o => ClauseIds(k, m) \cap ClauseIds(k, o) = {}
      /\ DOMAIN d = UNION {ClauseIds(k, m) : m \in nodes}
      /\ \A m \in nodes, i \in 1..4 : ~Trivial(k, m, i) => d[ClauseId(k, m, i)] = ClauseOf(k, m, i)
  BY <1>1 DEF Defined
<1>3. k.node[n].dclause \in Nat /\ k.node[n].dclause + 3 < TAUTOLOGY
  <2>1. Numbered(k, n, p) BY <1>2
  <2> QED BY <1>1, <2>1 DEF Numbered, TAUTOLOGY
<1>4. ids \in Seq(Int) /\ Range(ids) \ {TAUTOLOGY} = gone BY <1>3, DefiningIdsAre
<1>5. DefiningIds(k, n) = CleanHints(ids) BY Zenon DEF DefiningIds
<1> HIDE DEF ids
<1>6. DefiningIds(k, n) \in Seq(Int) /\ Range(DefiningIds(k, n)) \ {TAUTOLOGY} = gone
  BY <1>4, <1>5, CleanHintsRight
<1>7. Lost(c, q, r, gone)
  <2>1. Lost(c, q, r, Range(DefiningIds(k, n)) \ {TAUTOLOGY})
    BY <1>1, <1>6, DeleteClausesLost
  <2> QED BY <1>6, <2>1
<1> HIDE DEF r
<1>8. Shown(c, r) /\ SameCounters(p, r) /\ e = Without(d, gone)
  BY <1>1, <1>7 DEF Lost, SameCounters
<1>9. DOMAIN e = DOMAIN d \ gone /\ \A i \in DOMAIN e : e[i] = d[i] BY <1>8 DEF Without
<1> HIDE DEF d, e
<1>10. NoUnits(e) BY <1>1, <1>9 DEF NoUnits
<1>11. DOMAIN e = UNION {ClauseIds(k, m) : m \in nodes \ {n}} BY <1>2, <1>9
<1>12. ASSUME NEW m \in nodes \ {n}, NEW i \in 1..4, ~Trivial(k, m, i)
       PROVE  e[ClauseId(k, m, i)] = ClauseOf(k, m, i)
  <2>1. ClauseId(k, m, i) \in ClauseIds(k, m) BY <1>12 DEF ClauseIds
  <2>2. ClauseId(k, m, i) \in DOMAIN e BY <1>11, <2>1
  <2> QED BY <1>2, <1>9, <1>12, <2>2
<1>13. Defined(k, nodes \ {n}, p, e) BY <1>2, <1>11, <1>12 DEF Defined
<1> QED BY <1>8, <1>10, <1>13 DEF Remain, r, e

DeleteStep(k, nodes, n, above) ==
    IF n \in nodes THEN DeleteClauses(above, DefiningIds(k, n)) ELSE above

DeletedNodesBy(k, p, nodes, f) ==
    f = [n \in 2..k.size |-> IF n = k.size THEN p ELSE DeleteStep(k, nodes, n, f[n + 1])]

\* The recursive function of DeleteNodes exists.
LEMMA DeletedNodesExist ==
  ASSUME NEW k, k.size \in Nat \ {0, 1}, NEW p, NEW nodes
  PROVE  \E f : DeletedNodesBy(k, p, nodes, f)
<1> DEFINE size == k.size
           At(f, n) == f[n] = IF n = size THEN p ELSE DeleteStep(k, nodes, n, f[n + 1])
           Part(j) == \E f : \A n \in (size - j)..size : At(f, n)
           S == {j \in 0..(size - 2) : Part(j)}
<1>0. size \in Nat \ {0, 1} OBVIOUS
<1> HIDE DEF size
<1>1. 0 \in S
  <2> DEFINE g == [n \in {size} |-> p]
  <2>1. \A n \in (size - 0)..size : n = size /\ g[n] = p BY <1>0
  <2>2. Part(0) BY <2>1
  <2> HIDE DEF Part
  <2> QED BY <1>0, <2>2
<1>2. ASSUME NEW j \in 1..(size - 2), j - 1 \in S PROVE j \in S
  <2>1. PICK f : \A n \in (size - (j - 1))..size : At(f, n) BY <1>2
  <2> DEFINE g == [n \in (size - j)..size |-> IF n = size - j THEN DeleteStep(k, nodes, n, f[n + 1])
                                              ELSE f[n]]
  <2>2. ASSUME NEW n \in (size - j)..size PROVE At(g, n)
    <3>1. CASE n = size - j
      <4>1. n + 1 \in (size - j)..size /\ n + 1 # size - j /\ n # size BY <1>0, <3>1
      <4>2. g[n + 1] = f[n + 1] BY <4>1
      <4>3. g[n] = DeleteStep(k, nodes, n, f[n + 1]) BY <3>1
      <4> HIDE DEF g
      <4> QED BY <4>1, <4>2, <4>3
    <3>2. CASE n # size - j
      <4>1. n \in (size - (j - 1))..size BY <1>0, <3>2
      <4>2. g[n] = f[n] BY <3>2
      <4>3. CASE n = size
        <5> HIDE DEF g
        <5> QED BY <2>1, <4>1, <4>2, <4>3
      <4>4. CASE n # size
        <5>1. n + 1 \in (size - j)..size /\ n + 1 # size - j BY <1>0, <3>2, <4>4
        <5>2. g[n + 1] = f[n + 1] BY <5>1
        <5> HIDE DEF g
        <5> QED BY <2>1, <4>1, <4>2, <5>2, <4>4
      <4> QED BY <4>3, <4>4
    <3> QED BY <3>1, <3>2
  <2> HIDE DEF g, At
  <2>3. Part(j) BY <2>2
  <2> QED BY <1>0, <2>3
<1>3. size - 2 \in S
  <2>1. size - 2 \in Nat BY <1>0
  <2> HIDE DEF S
  <2>2. 0..(size - 2) \subseteq S BY <1>1, <1>2, <2>1, IntervalInduction
  <2> QED BY <2>1, <2>2
<1>4. PICK f : \A n \in 2..size : At(f, n)
  <2>1. size - (size - 2) = 2 BY <1>0
  <2> HIDE DEF At
  <2> QED BY <1>3, <2>1
<1> DEFINE g == [n \in 2..size |-> f[n]]
<1>5. g = [n \in 2..size |-> IF n = size THEN p ELSE DeleteStep(k, nodes, n, g[n + 1])]
  <2> SUFFICES ASSUME NEW n \in 2..size
               PROVE  f[n] = IF n = size THEN p ELSE DeleteStep(k, nodes, n, g[n + 1])
    OBVIOUS
  <2>1. n # size => n + 1 \in 2..size BY <1>0
  <2>2. n # size => g[n + 1] = f[n + 1] BY <2>1
  <2> HIDE DEF g
  <2> QED BY <1>4, <2>2
<1> HIDE DEF g
<1>6. DeletedNodesBy(k, p, nodes, g) BY <1>5, Zenon DEF DeletedNodesBy, size
<1> QED BY <1>6

\* The definitions of some of the nodes are deleted, one after the other.
LEMMA DeleteNodesRight ==
  ASSUME NEW c, NEW k, k.size \in Nat \ {0, 1}, NEW p, p.counter < TAUTOLOGY,
         NEW all \in SUBSET (2..(k.size - 1)), NEW nodes \in SUBSET all,
         Remain(c, k, p, all, p)
  PROVE  Remain(c, k, p, all \ nodes, DeleteNodes(k, p, nodes))
<1> DEFINE size == k.size
           deleted == CHOOSE f : DeletedNodesBy(k, p, nodes, f)
           Left(n) == all \ {m \in nodes : m >= n}
           S == {j \in 0..(size - 2) : Remain(c, k, p, Left(size - j), deleted[size - j])}
<1>1. p.type # "NONE" BY DEF Remain, Shown
<1>2. DeleteNodes(k, p, nodes) = deleted[2]
  BY <1>1, Zenon DEF DeleteNodes, DeletedNodesBy, DeleteStep
<1>3. DeletedNodesBy(k, p, nodes, deleted)
  <2>1. \E f : DeletedNodesBy(k, p, nodes, f) BY DeletedNodesExist
  <2> HIDE DEF DeletedNodesBy
  <2> QED BY <2>1
<1> HIDE DEF deleted
<1>4. size \in Nat \ {0, 1} /\ all \subseteq 2..(size - 1) /\ nodes \subseteq all OBVIOUS
<1>5. \A n \in 2..size : deleted[n] = IF n = size THEN p ELSE DeleteStep(k, nodes, n, deleted[n + 1])
  BY <1>3 DEF DeletedNodesBy
<1> HIDE DEF size
<1>6. 0 \in S
  <2>1. Left(size) = all
    <3>1. \A m \in 2..(size - 1) : ~(m >= size) BY <1>4
    <3> QED BY <1>4, <3>1
  <2>2. size - 0 = size /\ size \in 2..size /\ 0 \in 0..(size - 2) BY <1>4
  <2>3. deleted[size] = p BY <1>5, <2>2
  <2> HIDE DEF Left
  <2> QED BY <2>1, <2>2, <2>3
<1>7. ASSUME NEW j \in 1..(size - 2), j - 1 \in S PROVE j \in S
  <2> DEFINE n == size - j
             above == deleted[n + 1]
  <2>1. /\ n \in 2..(size - 1) /\ n \in 2..size /\ n # size
        /\ size - (j - 1) = n + 1 /\ j \in 0..(size - 2)
    BY <1>4
  <2>2. Remain(c, k, p, Left(n + 1), above) BY <1>7, <2>1
  <2>3. deleted[n] = DeleteStep(k, nodes, n, above) BY <1>5, <2>1
  <2>4. \A m \in 2..(size - 1) : m >= n <=> m >= n + 1 \/ m = n BY <2>1
  <2> HIDE DEF n, above
  <2>5. Remain(c, k, p, Left(n), deleted[n])
    <3>1. CASE n \in nodes
      <4>1. Left(n) = Left(n + 1) \ {n} BY <1>4, <2>4, <3>1
      <4>2. n \in Left(n + 1) /\ n \notin Terminals
        <5>1. ~(n >= n + 1) /\ n \notin Terminals BY <2>1 DEF Terminals
        <5> QED BY <1>4, <3>1, <5>1
      <4> HIDE DEF Left
      <4>3. deleted[n] = DeleteClauses(above, DefiningIds(k, n)) BY <2>3, <3>1 DEF DeleteStep
      <4> QED BY <2>2, <4>1, <4>2, <4>3, DeleteNodeRight
    <3>2. CASE n \notin nodes
      <4>1. Left(n) = Left(n + 1) BY <1>4, <2>4, <3>2
      <4>2. deleted[n] = above BY <2>3, <3>2 DEF DeleteStep
      <4> HIDE DEF Left
      <4> QED BY <2>2, <4>1, <4>2
    <3> QED BY <3>1, <3>2
  <2> HIDE DEF Left
  <2> QED BY <2>1, <2>5 DEF n
<1>8. Remain(c, k, p, Left(2), deleted[2])
  <2>1. size - 2 \in 0..(size - 2) /\ size - (size - 2) = 2 BY <1>4
  <2>2. size - 2 \in S
    <3> HIDE DEF S
    <3>1. size - 2 \in Nat BY <1>4
    <3>2. 0..(size - 2) \subseteq S BY <1>6, <1>7, <3>1, IntervalInduction
    <3> QED BY <2>1, <3>2
  <2> HIDE DEF Left
  <2> QED BY <2>1, <2>2
<1>9. Left(2) = all \ nodes
  <2>1. \A m \in 2..(size - 1) : m >= 2 OBVIOUS
  <2> QED BY <1>4, <2>1
<1> QED BY <1>2, <1>8, <1>9

\* The definitions of nodes that are what they were are what they were.
LEMMA DefinedSame ==
  ASSUME NEW k, NEW u, NEW some, NEW nodes \in SUBSET some, Survive(k, u, some),
         \A n \in nodes : {LOW(k, n), HIGH(k, n)} \subseteq some \cup Terminals,
         some \cap Terminals = {},
         NEW p, NEW q, q.counter \in Nat, p.counter \in Nat, p.counter <= q.counter,
         q.variable \in Nat, p.variable \in Nat, p.variable <= q.variable,
         NEW d, Defined(k, nodes, p, d)
  PROVE  Defined(u, nodes, q, d)
<1>1. /\ \A m \in nodes : Numbered(k, m, p)
      /\ \A m, o \in nodes : m # o => ClauseIds(k, m) \cap ClauseIds(k, o) = {}
      /\ DOMAIN d = UNION {ClauseIds(k, m) : m \in nodes}
      /\ \A m \in nodes, i \in 1..4 : ~Trivial(k, m, i) => d[ClauseId(k, m, i)] = ClauseOf(k, m, i)
  BY DEF Defined
<1>2. /\ u.level2var = k.level2var
      /\ \A n \in some : SameEntry(k.node[n], u.node[n])
  BY DEF Survive
<1>3. ASSUME NEW n \in nodes
      PROVE  /\ Numbered(u, n, q) /\ ClauseIds(u, n) = ClauseIds(k, n)
             /\ \A i \in 1..4 : /\ Trivial(u, n, i) = Trivial(k, n, i)
                                /\ ClauseId(u, n, i) = ClauseId(k, n, i)
                                /\ ClauseOf(u, n, i) = ClauseOf(k, n, i)
  <2>1. /\ LEVEL(u, n) = LEVEL(k, n) /\ LOW(u, n) = LOW(k, n) /\ HIGH(u, n) = HIGH(k, n)
        /\ u.node[n].xvar = k.node[n].xvar /\ u.node[n].dclause = k.node[n].dclause
    BY <1>2 DEF SameEntry, LEVEL, LOW, HIGH
  <2>2. \A i \in 1..4 : Trivial(u, n, i) = Trivial(k, n, i) BY <2>1 DEF Trivial
  <2>3. \A i \in 1..4 : ClauseId(u, n, i) = ClauseId(k, n, i) BY <2>1 DEF ClauseId
  <2>4. ClauseIds(u, n) = ClauseIds(k, n) BY <2>2, <2>3 DEF ClauseIds
  <2>5. Numbered(u, n, q)
    <3>1. Numbered(k, n, p) BY <1>1
    <3> QED BY <2>1, <3>1 DEF Numbered
  <2>6. ASSUME NEW m \in some \cup Terminals PROVE XVAR(u, m) = XVAR(k, m)
    <3>1. CASE m \in Terminals
      <4>1. m = 0 \/ m = 1 BY <3>1 DEF Terminals
      <4> QED BY <4>1 DEF XVAR
    <3>2. CASE m \in some
      <4>1. m # 0 /\ m # 1 BY <3>2 DEF Terminals
      <4>2. u.node[m].xvar = k.node[m].xvar BY <1>2, <3>2 DEF SameEntry
      <4> QED BY <4>1, <4>2 DEF XVAR
    <3> QED BY <3>1, <3>2
  <2>7. \A i \in 1..4 : ClauseOf(u, n, i) = ClauseOf(k, n, i)
    <3>1. LOW(k, n) \in some \cup Terminals /\ HIGH(k, n) \in some \cup Terminals OBVIOUS
    <3>2. /\ XVAR(u, n) = XVAR(k, n) /\ XVAR(u, LOW(k, n)) = XVAR(k, LOW(k, n))
          /\ XVAR(u, HIGH(k, n)) = XVAR(k, HIGH(k, n))
      BY <2>6, <3>1
    <3> QED BY <1>2, <2>1, <3>2 DEF ClauseOf
  <2> QED BY <2>2, <2>3, <2>4, <2>5, <2>7
<1>4. DOMAIN d = UNION {ClauseIds(u, m) : m \in nodes} BY <1>1, <1>3
<1>5. \A m, o \in nodes : m # o => ClauseIds(u, m) \cap ClauseIds(u, o) = {} BY <1>1, <1>3
<1>6. \A m \in nodes, i \in 1..4 : ~Trivial(u, m, i) => d[ClauseId(u, m, i)] = ClauseOf(u, m, i)
  BY <1>1, <1>3
<1> QED BY <1>3, <1>4, <1>5, <1>6 DEF Defined

\* The most nodes that are produced.
Most == 2 * (VarCount + 1) + MaxProduced

\* A node takes a variable and four clauses, as far as it is defined.
Sized(k, p) ==
    /\ k.produced \in Nat /\ k.produced <= Most
    /\ p.variable \in Nat /\ VarCount <= p.variable /\ p.variable <= VarCount + k.produced
    /\ p.counter \in Nat /\ p.counter <= 4 * k.produced

\* The checker knows the definitions of the nodes and nothing else.
Recorded(c, k, p) == Sized(k, p) /\ Remain(c, k, p, Described(k), p)

\* The nodes of level 0, which have no definition, are there for good.
Anchored(k, besides) ==
    \A n \in InUse(k) \ besides : LEVEL(k, n) = 0 => k.node[n].refcou = MAXREF

\* The identifiers are C ints, and none is INT_MAX.
LEMMA SizedBound ==
  ASSUME NEW k, NEW p, Sized(k, p)
  PROVE  /\ VarCount \in Nat /\ Most \in Nat
         /\ p.counter < TAUTOLOGY /\ p.variable < TAUTOLOGY
         /\ k.produced < Most => p.counter + 4 < TAUTOLOGY /\ p.variable + 1 < TAUTOLOGY
<1> DEFINE made == k.produced
           counter == p.counter
           variable == p.variable
           top == TAUTOLOGY
           most == Most
<1>1. VarCount \in Nat /\ MaxProduced \in Nat /\ 4 * most < top
  BY SessionAssumption DEF Most
<1>2. most \in Nat /\ VarCount <= most BY <1>1 DEF Most
<1>3. /\ made \in Nat /\ made <= most /\ variable \in Nat /\ variable <= VarCount + made
      /\ counter \in Nat /\ counter <= 4 * made
  BY DEF Sized
<1>4. top \in Nat /\ top > 10 BY DEF TAUTOLOGY
<1> HIDE DEF made, counter, variable, top, most
<1>5. counter < top /\ variable < top BY <1>1, <1>2, <1>3, <1>4
<1>6. made < most => counter + 4 < top /\ variable + 1 < top BY <1>1, <1>2, <1>3, <1>4
<1> QED BY <1>1, <1>2, <1>5, <1>6 DEF made, counter, variable, top, most

\* Nodes that are kept are defined as they were.
LEMMA KeepsRecorded ==
  ASSUME NEW c, NEW k, NEW u, NEW stay \in SUBSET InUse(k), Keeps(k, u, stay),
         Anchored(k, {}), NEW p, NEW q, Sized(k, p),
         Remain(c, k, p, {n \in stay : LEVEL(k, n) > 0}, q)
  PROVE  Recorded(c, u, q) /\ Anchored(u, {}) /\ u.produced = k.produced
<1> DEFINE nodes == {n \in stay : LEVEL(k, n) > 0}
<1>1. /\ Table(u) /\ InUse(u) = stay /\ SameRest(k, u)
      /\ \A n \in stay \cup Terminals : SameNode(k.node[n], u.node[n])
  BY DEF Keeps
<1>2. \A n \in stay : /\ LEVEL(u, n) = LEVEL(k, n) /\ LOW(u, n) = LOW(k, n)
                      /\ HIGH(u, n) = HIGH(k, n) /\ u.node[n].refcou = k.node[n].refcou
  BY <1>1 DEF SameNode, LEVEL, LOW, HIGH
<1>3. Survive(k, u, stay) BY <1>1 DEF Survive, SameNode, SameEntry, SameRest
<1>4. Described(u) = nodes BY <1>1, <1>2 DEF Described
<1>5. \A n \in nodes : {LOW(k, n), HIGH(k, n)} \subseteq stay \cup Terminals
  <2>1. \A n \in stay : Node(u, n) BY <1>1 DEF Table, Nodes
  <2> QED BY <1>1, <1>2, <2>1 DEF Node
<1>6. stay \cap Terminals = {} BY DEF InUse
<1>7. Shown(c, q) /\ SameCounters(p, q) /\ NoUnits(Seen(c, q).db) /\ Defined(k, nodes, p, Seen(c, q).db)
  BY DEF Remain
<1>8. /\ p.counter \in Nat /\ p.variable \in Nat /\ q.counter = p.counter
      /\ q.variable = p.variable /\ p.counter <= q.counter /\ p.variable <= q.variable
  BY <1>7 DEF Sized, SameCounters
<1> DEFINE d == Seen(c, q).db
<1>9. nodes \in SUBSET stay OBVIOUS
<1> HIDE DEF nodes, d
<1>10. Defined(u, nodes, q, d) BY <1>3, <1>5, <1>6, <1>7, <1>8, <1>9, DefinedSame DEF d
<1>11. Remain(c, u, q, nodes, q) BY <1>7, <1>10 DEF Remain, SameCounters, d
<1>12. u.produced = k.produced BY <1>1 DEF SameRest
<1>13. Sized(u, q) BY <1>8, <1>12 DEF Sized
<1>14. Anchored(u, {}) BY <1>1, <1>2 DEF Anchored
<1> QED BY <1>4, <1>11, <1>12, <1>13, <1>14 DEF Recorded

\* A collection deletes the definitions of the nodes that go, and no others (bdd_gbc).
LEMMA CollectRecorded ==
  ASSUME NEW c, NEW k, Table(k), NEW p, Recorded(c, k, p), Anchored(k, {}),
         NEW refs, Range(refs) \subseteq InUse(k) \cup Terminals
  PROVE  LET r == bdd_gbc(k, p, refs)
         IN  Recorded(c, r.k, r.p) /\ Anchored(r.k, {}) /\ r.k.produced = k.produced
<1> DEFINE r == bdd_gbc(k, p, refs)
           roots == Range(refs) \cup Referenced(k)
           stay == Reachable(k, roots)
           dead == Collected(k, refs)
<1>1. Keeps(k, r.k, stay) BY CollectRight
<1>2. r.p = DeleteNodes(k, p, dead) BY DEF bdd_gbc
<1> HIDE DEF r
<1>3. dead = InUse(k) \ stay BY DEF Collected
<1>4. stay \subseteq InUse(k) /\ roots \ Terminals \subseteq stay
  <2>1. Shape(k) /\ Nodes(k) BY DEF Table
  <2>2. roots \in SUBSET (InUse(k) \cup Terminals) BY DEF Referenced
  <2> HIDE DEF roots
  <2> QED BY <2>1, <2>2, ReachableRight
<1>5. Shape(k) /\ DOMAIN k.node = Places(k) /\ k.size \in Nat \ {0, 1} BY DEF Table, Shape
<1>6. \A n \in InUse(k) : LEVEL(k, n) \in Nat BY <1>5 DEF Shape, EntryShape, InUse, LEVEL
<1>7. dead \subseteq Described(k)
  <2> SUFFICES ASSUME NEW n \in InUse(k), LEVEL(k, n) = 0 PROVE n \in stay
    BY <1>3, <1>6 DEF Described
  <2>1. k.node[n].refcou = MAXREF BY DEF Anchored
  <2>2. n \in Referenced(k) BY <2>1, NodeTableAssumption DEF Referenced
  <2>3. n \notin Terminals BY DEF InUse
  <2> QED BY <1>4, <2>2, <2>3
<1>8. Described(k) \subseteq 2..(k.size - 1)
  <2>1. \A n \in Places(k) : n \notin Terminals => n \in 2..(k.size - 1)
    BY <1>5 DEF Places, Terminals
  <2> QED BY <1>5, <2>1 DEF Described, InUse
<1>9. Sized(k, p) /\ Remain(c, k, p, Described(k), p) BY DEF Recorded
<1>10. p.counter < TAUTOLOGY BY <1>9, SizedBound
<1> HIDE DEF dead, stay
<1>11. Remain(c, k, p, Described(k) \ dead, r.p)
  BY <1>2, <1>5, <1>7, <1>8, <1>9, <1>10, DeleteNodesRight
<1>12. Described(k) \ dead = {n \in stay : LEVEL(k, n) > 0} BY <1>3, <1>4 DEF Described
<1>13. Recorded(c, r.k, r.p) /\ Anchored(r.k, {}) /\ r.k.produced = k.produced
  <2>1. Remain(c, k, p, {n \in stay : LEVEL(k, n) > 0}, r.p) BY <1>11, <1>12
  <2> QED BY <1>1, <1>4, <1>9, <2>1, KeepsRecorded
<1> QED BY <1>13 DEF r

\* Growing deletes none.
LEMMA GrowRecorded ==
  ASSUME NEW c, NEW k, Table(k), NEW p, Recorded(c, k, p), Anchored(k, {})
  PROVE  /\ Recorded(c, bdd_noderesize(k), p) /\ Anchored(bdd_noderesize(k), {})
         /\ bdd_noderesize(k).produced = k.produced
<1>1. Keeps(k, bdd_noderesize(k), InUse(k)) BY GrowRight
<1>2. Sized(k, p) /\ Remain(c, k, p, {n \in InUse(k) : LEVEL(k, n) > 0}, p)
  BY DEF Recorded, Described
<1> QED BY <1>1, <1>2, KeepsRecorded

----------------------------------------------------------------------------
(* The definition of a new node.                                           *)

\* What a literal of a child may be: one of a variable before nid, true or false.
ChildLiteral(x, nid) ==
    \/ x \in {TAUTOLOGY, -TAUTOLOGY}
    \/ x \in Int /\ ((VarCount < x /\ x < nid) \/ (VarCount < -x /\ -x < nid))

\* A defining clause says nothing just when its last literal is true.
LEMMA ClauseSays ==
  ASSUME VarCount \in Nat, NEW nid \in Nat, VarCount < nid, nid < TAUTOLOGY,
         NEW vid \in 1..VarCount, NEW a \in {nid, -nid}, NEW b \in {vid, -vid},
         NEW x, ChildLiteral(x, nid)
  PROVE  LET clause == CleanClause({a, b, x})
         IN  /\ clause # {}
             /\ clause = TautologyClause <=> x = TAUTOLOGY
             /\ x # TAUTOLOGY => \E l, m \in clause : l # m
<1> DEFINE top == TAUTOLOGY
           clause == CleanClause({a, b, x})
<1>1. top \in Int /\ top > 0 BY DEF TAUTOLOGY
<1>2. x = top \/ x = -top \/ (x \in Int /\ ((VarCount < x /\ x < nid) \/ (VarCount < -x /\ -x < nid)))
  BY DEF ChildLiteral
<1>3. nid < top /\ nid \in Int /\ vid \in Int /\ 0 < vid /\ vid <= VarCount OBVIOUS
<1>4. clause = IF top \in {a, b, x} \/ \E l \in {a, b, x} : -l \in {a, b, x} THEN {top}
               ELSE {a, b, x} \ {-top}
  BY Zenon DEF CleanClause, TautologyClause
<1> HIDE DEF top, clause
<1>5. a # b /\ a # top /\ b # top /\ a # -top /\ b # -top BY <1>1, <1>3
<1>6. CASE x = top
  <2>1. clause = {top} BY <1>4, <1>6
  <2> QED BY <1>6, <2>1 DEF top, clause, TautologyClause
<1>7. CASE x # top
  <2>1. a # -b /\ a # -a /\ b # -b BY <1>3
  <2>2. -a # x /\ -b # x /\ -x # a /\ -x # b /\ -x # x BY <1>1, <1>2, <1>3, <1>7
  <2>3. ~(top \in {a, b, x} \/ \E l \in {a, b, x} : -l \in {a, b, x})
    <3>1. -b # a BY <1>3
    <3> QED BY <1>5, <1>7, <2>1, <2>2, <3>1
  <2>4. clause = {a, b, x} \ {-top} BY <1>4, <2>3
  <2>5. a \in clause /\ b \in clause BY <1>5, <2>4
  <2>6. clause # {top} BY <1>5, <2>5
  <2> QED BY <1>5, <1>7, <2>5, <2>6 DEF top, clause, TautologyClause
<1> QED BY <1>6, <1>7

\* After q the checker knows d and the first i of the four clauses, under the identifiers
\* from base + 1 on, unless they say nothing.
Told(c, q, base, d, clauses, i) ==
    LET e == Seen(c, q).db
    IN  /\ Shown(c, q) /\ q.counter = base + i /\ NoUnits(e)
        /\ DOMAIN e = DOMAIN d \cup {base + j : j \in {m \in 1..i : clauses[m] # TautologyClause}}
        /\ \A id \in DOMAIN d : e[id] = d[id]
        /\ \A j \in 1..i : clauses[j] # TautologyClause => e[base + j] = clauses[j]

\* A clause that is printed has literals, and two at least.
Telling(clause) ==
    clause # {} /\ (clause # TautologyClause => \E l, m \in clause : l # m)

\* The identifiers in use are no more than base.
UpTo(d, base) == \A id \in DOMAIN d : id \in Int /\ id <= base

\* One clause more.
LEMMA ToldOn ==
  ASSUME NEW c, NEW base \in Nat, NEW d, UpTo(d, base),
         NEW clauses, NEW n \in 1..4, NEW i \in 0..3, n = i + 1,
         NEW q, Told(c, q, base, d, clauses, i), NEW literals, NEW hints,
         clauses[n] = CleanClause(literals), Telling(clauses[n])
  PROVE  LET r == GenerateClause(q, literals, hints)
         IN  /\ Told(c, r, base, d, clauses, n)
             /\ r.type = q.type /\ r.variable = q.variable
<1> DEFINE r == GenerateClause(q, literals, hints)
           e == Seen(c, q).db
           g == Seen(c, r).db
           id == base + (i + 1)
           clause == clauses[i + 1]
           says(o) == {base + j : j \in {m \in 1..o : clauses[m] # TautologyClause}}
<1>0. /\ clause = CleanClause(literals) /\ clause # {}
      /\ clause # TautologyClause => \E l, m \in clause : l # m
  BY Zenon DEF Telling
<1>1. /\ Shown(c, q) /\ q.counter = base + i /\ NoUnits(e)
      /\ DOMAIN e = DOMAIN d \cup says(i)
      /\ \A x \in DOMAIN d : e[x] = d[x]
      /\ \A j \in 1..i : clauses[j] # TautologyClause => e[base + j] = clauses[j]
  BY DEF Told
<1>2. q.counter + 1 = id BY <1>1
<1>3. /\ Shown(c, r) /\ r.type = q.type /\ r.variable = q.variable /\ r.counter = id
      /\ g = IF clause = TautologyClause THEN e ELSE With(e, id, clause)
  <2>1. LET s == GenerateClause(q, literals, hints)
        IN  /\ Shown(c, s) /\ s.type = q.type /\ s.variable = q.variable
            /\ s.counter = q.counter + 1
            /\ Seen(c, s).db = IF CleanClause(literals) = TautologyClause THEN Seen(c, q).db
                               ELSE With(Seen(c, q).db, q.counter + 1, CleanClause(literals))
    BY <1>0, <1>1, GenerateShown
  <2> HIDE DEF id
  <2> QED BY <1>0, <1>2, <2>1
<1> HIDE DEF r, e, g
<1>4. 1..(i + 1) = (1..i) \cup {i + 1} OBVIOUS
<1>5. CASE clause = TautologyClause
  <2>1. g = e BY <1>3, <1>5
  <2>2. says(i + 1) = says(i) BY <1>4, <1>5
  <2>3. \A j \in 1..(i + 1) : clauses[j] # TautologyClause => g[base + j] = clauses[j]
    BY <1>1, <1>4, <1>5, <2>1
  <2> HIDE DEF says
  <2>4. DOMAIN g = DOMAIN d \cup says(i + 1) BY <1>1, <2>1, <2>2
  <2>5. Told(c, r, base, d, clauses, i + 1)
    BY <1>1, <1>3, <2>1, <2>3, <2>4 DEF Told, g, says
  <2> QED BY <1>3, <2>5 DEF r
<1>6. CASE clause # TautologyClause
  <2>1. g = With(e, id, clause) BY <1>3, <1>6
  <2>2. DOMAIN g = DOMAIN e \cup {id} /\ g[id] = clause /\ \A x \in DOMAIN e : x # id => g[x] = e[x]
    BY <2>1 DEF With
  <2>3. says(i + 1) = says(i) \cup {id} BY <1>4, <1>6
  <2>4. \A x \in DOMAIN d : x \in DOMAIN e /\ x # id /\ g[x] = d[x]
    <3>1. \A x \in DOMAIN d : x # id BY DEF UpTo
    <3> QED BY <1>1, <2>2, <3>1
  <2>5. ASSUME NEW j \in 1..(i + 1), clauses[j] # TautologyClause
        PROVE  g[base + j] = clauses[j]
    <3>1. CASE j = i + 1 BY <2>2, <3>1
    <3>2. CASE j # i + 1
      <4>1. j \in 1..i /\ base + j # id BY <3>2
      <4>2. base + j \in DOMAIN e BY <1>1, <2>5, <4>1
      <4> QED BY <1>1, <2>2, <2>5, <4>1, <4>2
    <3> QED BY <3>1, <3>2
  <2>6. NoUnits(g)
    <3>1. \E l, m \in g[id] : l # m BY <1>0, <1>6, <2>2
    <3>2. \A x \in DOMAIN g : x = id \/ (x \in DOMAIN e /\ g[x] = e[x]) BY <2>2
    <3> HIDE DEF id
    <3> QED BY <1>1, <3>1, <3>2 DEF NoUnits
  <2> HIDE DEF says
  <2>7. DOMAIN g = DOMAIN d \cup says(i + 1) BY <1>1, <2>2, <2>3
  <2>8. Told(c, r, base, d, clauses, i + 1)
    BY <1>3, <2>4, <2>5, <2>6, <2>7 DEF Told, g, says
  <2> QED BY <1>3, <2>8 DEF r
<1> QED BY <1>5, <1>6

\* The last literal of the i-th defining clause.
LastLiteral(i, hid, lid) ==
    CASE i = 1 -> -hid [] i = 2 -> -lid [] i = 3 -> hid [] i = 4 -> lid

\* The four defining clauses, and when they say nothing.
LEMMA FourClauses ==
  ASSUME VarCount \in Nat, NEW nid \in Nat, VarCount < nid, nid < TAUTOLOGY,
         NEW vid \in 1..VarCount,
         NEW hid, ChildLiteral(hid, nid), NEW lid, ChildLiteral(lid, nid), NEW i \in 1..4
  PROVE  LET clause == CleanClause(DefiningClause(DclauseTypes[i], nid, vid, hid, lid))
         IN  /\ clause # {}
             /\ clause = TautologyClause <=> LastLiteral(i, hid, lid) = TAUTOLOGY
             /\ clause # TautologyClause => \E l, m \in clause : l # m
<1> DEFINE x == LastLiteral(i, hid, lid)
           literals == DefiningClause(DclauseTypes[i], nid, vid, hid, lid)
<1>1. \A y : ChildLiteral(y, nid) => ChildLiteral(-y, nid)
  BY DEF ChildLiteral, TAUTOLOGY
<1>2. i = 1 \/ i = 2 \/ i = 3 \/ i = 4 OBVIOUS
<1>3. /\ i = 1 => x = -hid
      /\ i = 2 => x = -lid
      /\ i = 3 => x = hid
      /\ i = 4 => x = lid
  BY DEF LastLiteral
<1>4. /\ i = 1 => DclauseTypes[i] = "HU"
      /\ i = 2 => DclauseTypes[i] = "LU"
      /\ i = 3 => DclauseTypes[i] = "HD"
      /\ i = 4 => DclauseTypes[i] = "LD"
  BY DEF DclauseTypes
<1>5. ChildLiteral(x, nid) BY <1>1, <1>2, <1>3
<1>6. \E a \in {nid, -nid}, b \in {vid, -vid} : literals = {a, b, x}
  <2> DEFINE word == DclauseTypes[i]
             minus(y) == -y
  <2>0. literals = CASE word = "HU" -> {nid, minus(vid), minus(hid)}
                     [] word = "LU" -> {nid, vid, minus(lid)}
                     [] word = "HD" -> {minus(nid), minus(vid), hid}
                     [] word = "LD" -> {minus(nid), vid, lid}
    BY DEF DefiningClause
  <2> HIDE DEF literals, x, word
  <2>1. CASE i = 1
    <3>1. literals = {nid, minus(vid), minus(hid)} BY <1>4, <2>0, <2>1 DEF word
    <3> QED BY <1>3, <2>1, <3>1
  <2>2. CASE i = 2
    <3>1. literals = {nid, vid, minus(lid)} BY <1>4, <2>0, <2>2 DEF word
    <3> QED BY <1>3, <2>2, <3>1
  <2>3. CASE i = 3
    <3>1. literals = {minus(nid), minus(vid), hid} BY <1>4, <2>0, <2>3 DEF word
    <3> QED BY <1>3, <2>3, <3>1
  <2>4. CASE i = 4
    <3>1. literals = {minus(nid), vid, lid} BY <1>4, <2>0, <2>4 DEF word
    <3> QED BY <1>3, <2>4, <3>1
  <2> QED BY <1>2, <2>1, <2>2, <2>3, <2>4
<1>7. PICK a \in {nid, -nid}, b \in {vid, -vid} : literals = {a, b, x} BY <1>6
<1> HIDE DEF literals, x
<1>8. LET clause == CleanClause({a, b, x})
      IN  /\ clause # {}
          /\ clause = TautologyClause <=> x = TAUTOLOGY
          /\ x # TAUTOLOGY => \E l, m \in clause : l # m
  BY <1>5, ClauseSays
<1> QED BY <1>7, <1>8 DEF literals, x

\* Four clauses, one after the other.
LEMMA FourTold ==
  ASSUME NEW c, NEW base \in Nat, NEW d, UpTo(d, base),
         NEW clauses, NEW start, Told(c, start, base, d, clauses, 0),
         \A i \in 1..4 : Telling(clauses[i]),
         NEW x1, NEW x2, NEW x3, NEW x4,
         clauses[1] = CleanClause(x1), clauses[2] = CleanClause(x2),
         clauses[3] = CleanClause(x3), clauses[4] = CleanClause(x4),
         NEW h1, NEW h2, NEW h3, NEW h4
  PROVE  LET q == GenerateClause(GenerateClause(GenerateClause(GenerateClause(
                      start, x1, h1), x2, h2), x3, h3), x4, h4)
         IN  /\ Told(c, q, base, d, clauses, 4)
             /\ q.type = start.type /\ q.variable = start.variable
<1> DEFINE q1 == GenerateClause(start, x1, h1)
           q2 == GenerateClause(q1, x2, h2)
           q3 == GenerateClause(q2, x3, h3)
           q4 == GenerateClause(q3, x4, h4)
<1>0. /\ 0 \in 0..3 /\ 1 \in 0..3 /\ 2 \in 0..3 /\ 3 \in 0..3
      /\ 0 + 1 = 1 /\ 1 + 1 = 2 /\ 2 + 1 = 3 /\ 3 + 1 = 4
      /\ 1 \in 1..4 /\ 2 \in 1..4 /\ 3 \in 1..4 /\ 4 \in 1..4
  OBVIOUS
<1>1. Told(c, q1, base, d, clauses, 1) /\ q1.type = start.type /\ q1.variable = start.variable
  BY <1>0, ToldOn
<1> HIDE DEF q1
<1>2. Told(c, q2, base, d, clauses, 2) /\ q2.type = start.type /\ q2.variable = start.variable
  BY <1>0, <1>1, ToldOn
<1> HIDE DEF q2
<1>3. Told(c, q3, base, d, clauses, 3) /\ q3.type = start.type /\ q3.variable = start.variable
  BY <1>0, <1>2, ToldOn
<1> HIDE DEF q3
<1>4. Told(c, q4, base, d, clauses, 4) /\ q4.type = start.type /\ q4.variable = start.variable
  BY <1>0, <1>3, ToldOn
<1> QED BY <1>4 DEF q1, q2, q3

\* The definition of a node with the next variable.
NewClauses(k, p, level, low, high) ==
    [i \in 1..4 |-> CleanClause(DefiningClause(DclauseTypes[i], p.variable + 1,
                                              k.level2var[level], XVAR(k, high), XVAR(k, low)))]

\* The generator can define a node of this level with these children.
Definable(c, k, p, level, low, high) ==
    /\ Shown(c, p) /\ NoUnits(Seen(c, p).db) /\ UpTo(Seen(c, p).db, p.counter)
    /\ VarCount \in Nat /\ p.variable \in Nat /\ VarCount <= p.variable
    /\ p.variable + 1 < TAUTOLOGY
    /\ level # 0 /\ k.level2var[level] \in 1..VarCount
    /\ ChildLiteral(XVAR(k, low), p.variable + 1) /\ ChildLiteral(XVAR(k, high), p.variable + 1)

\* What DefineNode prints defines a node with the next variable.
LEMMA DefineRight ==
  ASSUME NEW c, NEW k, NEW p, NEW level, NEW low, NEW high, Definable(c, k, p, level, low, high)
  PROVE  /\ Told(c, DefineNode(k, p, level, low, high), p.counter, Seen(c, p).db,
                 NewClauses(k, p, level, low, high), 4)
         /\ DefineNode(k, p, level, low, high).type = p.type
         /\ DefineNode(k, p, level, low, high).variable = p.variable + 1
<1> DEFINE nid == p.variable + 1
           vid == k.level2var[level]
           hid == XVAR(k, high)
           lid == XVAR(k, low)
           literals(dtype) == DefiningClause(dtype, nid, vid, hid, lid)
           clauses == [i \in 1..4 |-> CleanClause(literals(DclauseTypes[i]))]
           d == Seen(c, p).db
           base == p.counter
           start == [p EXCEPT !.variable = nid]
           hu == GenerateClause(start, literals("HU"), <<>>)
           lu == GenerateClause(hu, literals("LU"), <<>>)
           hints == <<AsHint(GeneratedId(start, literals("HU"))),
                      AsHint(GeneratedId(hu, literals("LU")))>>
           hd == GenerateClause(lu, literals("HD"), hints)
           ld == GenerateClause(hd, literals("LD"), hints)
           q == DefineNode(k, p, level, low, high)
<1>0. /\ Shown(c, p) /\ NoUnits(d) /\ UpTo(d, base)
      /\ VarCount \in Nat /\ p.variable \in Nat /\ VarCount <= p.variable
      /\ p.variable + 1 < TAUTOLOGY /\ level # 0 /\ vid \in 1..VarCount
      /\ ChildLiteral(lid, nid) /\ ChildLiteral(hid, nid)
  BY DEF Definable
<1>1. p.type # "NONE" /\ base \in Nat /\ Generator(p) BY <1>0 DEF Shown
<1>2. q = IF level = 0 \/ p.type = "NONE" THEN p ELSE ld
  BY Zenon DEF DefineNode, DefineClauses, DefineAfterHU, DefineDown
<1>3. q = ld BY <1>0, <1>1, <1>2
<1>4. nid \in Nat /\ VarCount < nid /\ nid < TAUTOLOGY /\ vid \in 1..VarCount BY <1>0
<1>5. start.variable = nid /\ Told(c, start, base, d, clauses, 0) /\ start.type = p.type
  <2> HIDE DEF nid, clauses
  <2>1. /\ Generator(start) /\ start.variable = nid /\ start.counter = base
        /\ start.type = p.type /\ start.empty = p.empty /\ start.out = p.out
        /\ start.stored = p.stored
    BY <1>1 DEF Generator
  <2>2. Seen(c, start) = Seen(c, p) /\ StoresClauses(start) = StoresClauses(p)
    BY <2>1 DEF Seen, StoresClauses
  <2> HIDE DEF start
  <2>3. Shown(c, start) BY <1>0, <2>1, <2>2 DEF Shown
  <2> QED BY <1>0, <1>1, <2>1, <2>2, <2>3 DEF Told
<1>6. \A i \in 1..4 : Telling(clauses[i])
  <2> HIDE DEF nid, vid, hid, lid
  <2> SUFFICES ASSUME NEW i \in 1..4
               PROVE  LET s == CleanClause(literals(DclauseTypes[i]))
                      IN  Telling(s)
    BY Zenon
  <2>1. ChildLiteral(hid, nid) /\ ChildLiteral(lid, nid) BY <1>0 DEF hid, lid, nid
  <2> QED BY <1>0, <1>4, <2>1, FourClauses DEF Telling
<1>7. /\ clauses[1] = CleanClause(literals("HU")) /\ clauses[2] = CleanClause(literals("LU"))
      /\ clauses[3] = CleanClause(literals("HD")) /\ clauses[4] = CleanClause(literals("LD"))
  <2>1. /\ DclauseTypes[1] = "HU" /\ DclauseTypes[2] = "LU"
        /\ DclauseTypes[3] = "HD" /\ DclauseTypes[4] = "LD"
    BY DEF DclauseTypes
  <2> HIDE DEF literals
  <2> QED BY <2>1
<1>8. UpTo(d, base) BY <1>0
<1> DEFINE x1 == literals("HU")
           x2 == literals("LU")
           x3 == literals("HD")
           x4 == literals("LD")
           none == <<>>
<1>9. ld = GenerateClause(GenerateClause(GenerateClause(GenerateClause(
               start, x1, none), x2, none), x3, hints), x4, hints)
  BY Zenon
<1> HIDE DEF clauses, start, hints, base, d, nid
<1>10. /\ clauses[1] = CleanClause(x1) /\ clauses[2] = CleanClause(x2)
       /\ clauses[3] = CleanClause(x3) /\ clauses[4] = CleanClause(x4)
  BY <1>7
<1> HIDE DEF x1, x2, x3, x4, ld, none
<1>11. Told(c, ld, base, d, clauses, 4) /\ ld.type = start.type /\ ld.variable = start.variable
  <2>1. LET r == GenerateClause(GenerateClause(GenerateClause(GenerateClause(
                     start, x1, none), x2, none), x3, hints), x4, hints)
        IN  /\ Told(c, r, base, d, clauses, 4)
            /\ r.type = start.type /\ r.variable = start.variable
    <3>1. base \in Nat BY <1>1
    <3> QED BY <1>5, <1>6, <1>8, <1>10, <3>1, FourTold
  <2> QED BY <1>9, <2>1, Zenon
<1> HIDE DEF q
<1>12. Told(c, q, base, d, clauses, 4) /\ q.type = p.type /\ q.variable = nid
  BY <1>3, <1>5, <1>11
<1> QED BY <1>12 DEF q, base, d, clauses, literals, nid, vid, hid, lid, NewClauses

\* The identifiers of a node's clauses are no more than the generator's.
LEMMA ClauseIdsUpTo ==
  ASSUME NEW k, NEW n, NEW p, p.counter \in Nat, Numbered(k, n, p)
  PROVE  \A id \in ClauseIds(k, n) : id \in Int /\ id <= p.counter
<1>1. k.node[n].dclause \in Nat /\ k.node[n].dclause + 3 <= p.counter BY DEF Numbered
<1> QED BY <1>1 DEF ClauseIds, ClauseId

\* The definition of one node more.
LEMMA DefinedMore ==
  ASSUME NEW c, NEW k, NEW nodes, NEW n, n \notin nodes, NEW p, NEW q,
         p.counter \in Nat, p.counter <= q.counter, q.counter \in Nat,
         p.variable \in Nat, p.variable <= q.variable, q.variable \in Nat,
         NEW d, Defined(k, nodes, p, d), Numbered(k, n, q), k.node[n].dclause = p.counter + 1,
         NEW clauses, Told(c, q, p.counter, d, clauses, 4),
         \A i \in 1..4 : /\ ClauseOf(k, n, i) = clauses[i]
                         /\ Trivial(k, n, i) <=> clauses[i] = TautologyClause
  PROVE  Defined(k, nodes \cup {n}, q, Seen(c, q).db)
<1> DEFINE e == Seen(c, q).db
           base == p.counter
           all == nodes \cup {n}
           says == {m \in 1..4 : clauses[m] # TautologyClause}
<1>1. /\ \A m \in nodes : Numbered(k, m, p)
      /\ \A m, o \in nodes : m # o => ClauseIds(k, m) \cap ClauseIds(k, o) = {}
      /\ DOMAIN d = UNION {ClauseIds(k, m) : m \in nodes}
      /\ \A m \in nodes, i \in 1..4 : ~Trivial(k, m, i) => d[ClauseId(k, m, i)] = ClauseOf(k, m, i)
  BY DEF Defined
<1>2. /\ DOMAIN e = DOMAIN d \cup {base + j : j \in says}
      /\ \A id \in DOMAIN d : e[id] = d[id]
      /\ \A j \in 1..4 : clauses[j] # TautologyClause => e[base + j] = clauses[j]
  BY DEF Told
<1> HIDE DEF e
<1>3. \A i \in 1..4 : ClauseId(k, n, i) = base + i BY DEF ClauseId
<1>4. ClauseIds(k, n) = {base + j : j \in says} BY <1>3 DEF ClauseIds
<1>5. \A m \in all : Numbered(k, m, q) BY <1>1 DEF Numbered
<1>6. ASSUME NEW m \in nodes PROVE ClauseIds(k, m) \cap ClauseIds(k, n) = {}
  <2>1. \A id \in ClauseIds(k, m) : id \in Int /\ id <= base BY <1>1, ClauseIdsUpTo
  <2>2. \A id \in ClauseIds(k, n) : id \in Int /\ id > base BY <1>4
  <2>3. base \in Int OBVIOUS
  <2> HIDE DEF base
  <2> QED BY <2>1, <2>2, <2>3
<1>7. \A m, o \in all : m # o => ClauseIds(k, m) \cap ClauseIds(k, o) = {} BY <1>1, <1>6
<1>8. DOMAIN e = UNION {ClauseIds(k, m) : m \in all} BY <1>1, <1>2, <1>4
<1>9. ASSUME NEW m \in all, NEW i \in 1..4, ~Trivial(k, m, i)
      PROVE  e[ClauseId(k, m, i)] = ClauseOf(k, m, i)
  <2>1. CASE m = n BY <1>2, <1>3, <1>9, <2>1
  <2>2. CASE m \in nodes
    <3>1. ClauseId(k, m, i) \in ClauseIds(k, m) BY <1>9 DEF ClauseIds
    <3> QED BY <1>1, <1>2, <1>9, <2>2, <3>1
  <2> QED BY <2>1, <2>2
<1> QED BY <1>5, <1>7, <1>8, <1>9 DEF Defined, e

\* The variable of each level (level2var).
Ordered(k) == k.varnum = VarCount + 1 /\ \A l \in 1..VarCount : k.level2var[l] \in 1..VarCount

\* A child is a literal.
LEMMA ChildIs ==
  ASSUME VarCount \in Nat, NEW k, NEW p, p.variable \in Nat, p.variable + 1 < TAUTOLOGY,
         NEW m, m \in Terminals \/ Numbered(k, m, p)
  PROVE  /\ ChildLiteral(XVAR(k, m), p.variable + 1)
         /\ m = 0 <=> XVAR(k, m) = -TAUTOLOGY
         /\ m = 1 <=> XVAR(k, m) = TAUTOLOGY
<1> DEFINE top == TAUTOLOGY
           x == XVAR(k, m)
<1>1. top \in Int /\ top > 0 BY DEF TAUTOLOGY
<1> HIDE DEF top
<1>2. CASE m = 0
  <2>1. x = -top BY <1>2 DEF XVAR, top
  <2> QED BY <1>1, <1>2, <2>1 DEF ChildLiteral, top
<1>3. CASE m = 1
  <2>1. x = top BY <1>3 DEF XVAR, top
  <2> QED BY <1>1, <1>3, <2>1 DEF ChildLiteral, top
<1>4. CASE m # 0 /\ m # 1
  <2>1. x = k.node[m].xvar BY <1>4 DEF XVAR
  <2>2. x \in Nat /\ VarCount < x /\ x <= p.variable BY <1>4, <2>1 DEF Numbered, Terminals
  <2> HIDE DEF x
  <2>3. x # top /\ x # -top /\ x < p.variable + 1 /\ x \in Int BY <1>1, <2>2 DEF top
  <2> QED BY <1>4, <2>2, <2>3 DEF ChildLiteral, top, x
<1> QED BY <1>2, <1>3, <1>4

\* What a call that returned r leaves recorded, made nodes after the start.
Follows(c, made, r, level) ==
    /\ Recorded(c, r.k, r.p) /\ Anchored(r.k, IF level = 0 THEN {r.n} ELSE {})
    /\ r.k.produced \in {made, made + 1}

\* A table whose definitions are recorded.
Tidy(c, k, p) == Table(k) /\ Ordered(k) /\ Recorded(c, k, p) /\ Anchored(k, {})

\* A new node is recorded with its definition, unless it is of level 0.
LEMMA NewNodeRecorded ==
  ASSUME NEW c, NEW k, NEW p, Tidy(c, k, p),
         k.produced < Most, k.freepos # 0, NEW level \in 0..VarCount, NEW low, NEW high,
         Wanted(k, level, low, high)
  PROVE  Follows(c, k.produced, NewNode(k, p, level, low, high), level)
<1> DEFINE r == NewNode(k, p, level, low, high)
           u == r.k
           q == r.p
           n == k.freepos
           old == Described(k)
           d == Seen(c, p).db
<1>0. Table(k) /\ Ordered(k) /\ Recorded(c, k, p) /\ Anchored(k, {}) BY DEF Tidy
<1>1. /\ Adds(k, u, n, level, low, high) /\ r.n = n /\ u.produced = k.produced + 1
      /\ p.type # "NONE" /\ level # 0 => Named(p, u.node[n])
  BY <1>0, NewNodeRight DEF Wanted
<1>2. q = DefineNode(k, p, level, low, high) BY DEF NewNode
<1> HIDE DEF r, u, q
<1>3. /\ Sized(k, p) /\ Shown(c, p) /\ NoUnits(d) /\ Defined(k, old, p, d) /\ p.type # "NONE"
  BY <1>0 DEF Recorded, Remain, Shown
<1>4. VarCount \in Nat /\ k.produced \in Nat /\ Most \in Nat /\ p.counter \in Nat /\ p.variable \in Nat
  BY <1>3, SizedBound DEF Sized
<1>5. /\ InUse(u) = InUse(k) \cup {n} /\ n \in Unused(k) /\ Matches(u, n, level, low, high)
      /\ u.level2var = k.level2var
      /\ \A m \in InUse(k) \cup Terminals : SameNode(k.node[m], u.node[m])
  BY <1>1 DEF Adds, SameSession
<1> HIDE DEF n
<1>6. Survive(k, u, InUse(k)) BY <1>5 DEF Survive, SameEntry, SameNode
<1>7. \A m \in old : {LOW(k, m), HIGH(k, m)} \subseteq InUse(k) \cup Terminals
  <2>1. \A m \in InUse(k) : Node(k, m) BY <1>0 DEF Table, Nodes
  <2> QED BY <2>1 DEF Node, Described
<1>8. old \in SUBSET InUse(k) /\ InUse(k) \cap Terminals = {} BY DEF Described, InUse
<1>9. n \notin InUse(k) \cup Terminals BY <1>5 DEF Unused
<1>10. \A m \in InUse(k) : LEVEL(u, m) = LEVEL(k, m) /\ u.node[m].refcou = k.node[m].refcou
  BY <1>5 DEF SameNode, LEVEL
<1>11. LEVEL(u, n) = level /\ LOW(u, n) = low /\ HIGH(u, n) = high BY <1>5 DEF Matches
<1>12. Described(u) = IF level = 0 THEN old ELSE old \cup {n}
  BY <1>5, <1>10, <1>11 DEF Described
<1>13. Anchored(u, IF level = 0 THEN {n} ELSE {})
  BY <1>0, <1>5, <1>10, <1>11 DEF Anchored
<1> HIDE DEF old, d
<1>14. CASE level = 0
  <2>1. q = p BY <1>2, <1>14 DEF DefineNode
  <2>2. Defined(u, old, p, d)
    <3>1. p.counter <= p.counter /\ p.variable <= p.variable BY <1>4
    <3> QED BY <1>3, <1>4, <1>6, <1>7, <1>8, <3>1, DefinedSame
  <2>3. Remain(c, u, p, old, p) BY <1>3, <2>2 DEF Remain, SameCounters, d
  <2>4. Sized(u, p) BY <1>1, <1>3, <1>4 DEF Sized
  <2> QED BY <1>1, <1>12, <1>13, <1>14, <2>1, <2>3, <2>4 DEF Recorded, Follows, r, u, q
<1>15. CASE level # 0
  <2> DEFINE nid == p.variable + 1
             vid == k.level2var[level]
             hid == XVAR(k, high)
             lid == XVAR(k, low)
             clauses == NewClauses(k, p, level, low, high)
  <2>1. p.counter + 4 < TAUTOLOGY /\ nid < TAUTOLOGY /\ VarCount <= p.variable
    BY <1>3, SizedBound DEF Sized
  <2>2. vid \in 1..VarCount BY <1>0, <1>15 DEF Ordered
  <2>3. /\ low \in InUse(k) \cup Terminals /\ high \in InUse(k) \cup Terminals
        /\ level < LEVEL(k, low) /\ level < LEVEL(k, high) /\ low # high
    BY DEF Wanted, Makeable
  <2>4. \A m \in {low, high} : m \in Terminals \/ Numbered(k, m, p)
    <3>1. ASSUME NEW m \in InUse(k), level < LEVEL(k, m) PROVE Numbered(k, m, p)
      <4>1. EntryShape(k.node[m]) BY <1>0 DEF Table, Shape, InUse
      <4>2. LEVEL(k, m) \in Nat BY <4>1 DEF EntryShape, LEVEL
      <4>3. LEVEL(k, m) > 0 BY <1>4, <3>1, <4>2
      <4>4. m \in old BY <4>3 DEF old, Described
      <4> QED BY <1>3, <4>4 DEF Defined
    <3> QED BY <2>3, <3>1
  <2>5. /\ ChildLiteral(hid, nid) /\ (high = 0 <=> hid = -TAUTOLOGY) /\ (high = 1 <=> hid = TAUTOLOGY)
        /\ ChildLiteral(lid, nid) /\ (low = 0 <=> lid = -TAUTOLOGY) /\ (low = 1 <=> lid = TAUTOLOGY)
    BY <1>4, <2>1, <2>4, ChildIs
  <2>6. UpTo(d, p.counter)
    <3>1. DOMAIN d = UNION {ClauseIds(k, m) : m \in old} /\ \A m \in old : Numbered(k, m, p)
      BY <1>3 DEF Defined
    <3> QED BY <1>4, <3>1, ClauseIdsUpTo DEF UpTo
  <2>7. Told(c, q, p.counter, d, clauses, 4) /\ q.type = p.type /\ q.variable = nid
    <3>1. p.variable + 1 < TAUTOLOGY BY <2>1
    <3>2. ChildLiteral(XVAR(k, low), p.variable + 1) /\ ChildLiteral(XVAR(k, high), p.variable + 1)
      BY <2>5
    <3> HIDE DEF nid, vid, hid, lid, clauses
    <3>3. Told(c, DefineNode(k, p, level, low, high), p.counter, Seen(c, p).db, clauses, 4)
          /\ DefineNode(k, p, level, low, high).type = p.type
          /\ DefineNode(k, p, level, low, high).variable = p.variable + 1
      <4>1. Definable(c, k, p, level, low, high)
        BY <1>3, <1>4, <1>15, <2>1, <2>2, <2>6, <3>1, <3>2 DEF Definable, d, vid
      <4> QED BY <4>1, DefineRight DEF clauses
    <3> QED BY <1>2, <3>3 DEF d, nid
  <2>8. Named(p, u.node[n]) BY <1>1, <1>3, <1>15
  <2>9. \A i \in 1..4 : /\ ClauseOf(u, n, i) = clauses[i]
                        /\ Trivial(u, n, i) <=> clauses[i] = TautologyClause
    <3>1. XVAR(u, n) = nid BY <1>9, <2>8 DEF XVAR, Named, Terminals
    <3>2. XVAR(u, low) = lid /\ XVAR(u, high) = hid
      <4>1. \A m \in InUse(k) \cup Terminals : u.node[m].xvar = k.node[m].xvar BY <1>5 DEF SameNode
      <4> QED BY <2>3, <4>1 DEF XVAR
    <3>3. \A i \in 1..4 : ClauseOf(u, n, i) = clauses[i] BY <1>5, <1>11, <3>1, <3>2 DEF ClauseOf, NewClauses
    <3>5. \A i \in 1..4 : clauses[i] = CleanClause(DefiningClause(DclauseTypes[i], nid, vid, hid, lid))
      BY DEF NewClauses
    <3> HIDE DEF nid, vid, hid, lid, clauses
    <3>4. ASSUME NEW i \in 1..4 PROVE Trivial(u, n, i) <=> clauses[i] = TautologyClause
      <4>1. clauses[i] = TautologyClause <=> LastLiteral(i, hid, lid) = TAUTOLOGY
        <5>1. /\ nid \in Nat /\ VarCount < nid /\ nid < TAUTOLOGY BY <1>4, <2>1 DEF nid
        <5> QED BY <1>4, <2>2, <2>5, <3>5, <5>1, FourClauses
      <4>2. hid \in Int /\ lid \in Int BY <2>5 DEF ChildLiteral, TAUTOLOGY
      <4>3. LastLiteral(i, hid, lid) = TAUTOLOGY <=> Trivial(u, n, i)
        <5>1. i = 1 \/ i = 2 \/ i = 3 \/ i = 4 OBVIOUS
        <5>2. TAUTOLOGY \in Int BY DEF TAUTOLOGY
        <5>3. CASE i = 1 BY <1>11, <2>5, <4>2, <5>2, <5>3 DEF LastLiteral, Trivial
        <5>4. CASE i = 2 BY <1>11, <2>5, <4>2, <5>2, <5>4 DEF LastLiteral, Trivial
        <5>5. CASE i = 3 BY <1>11, <2>5, <4>2, <5>2, <5>5 DEF LastLiteral, Trivial
        <5>6. CASE i = 4 BY <1>11, <2>5, <4>2, <5>2, <5>6 DEF LastLiteral, Trivial
        <5> QED BY <5>1, <5>3, <5>4, <5>5, <5>6
      <4> QED BY <4>1, <4>3
    <3> QED BY <3>3, <3>4
  <2>10. q.counter = p.counter + 4 BY <2>7 DEF Told
  <2>11. Numbered(u, n, q)
    BY <1>4, <2>1, <2>7, <2>8, <2>10 DEF Numbered, Named
  <2>12. /\ p.counter <= q.counter /\ q.counter \in Nat
         /\ p.variable <= q.variable /\ q.variable \in Nat
    BY <1>4, <2>7, <2>10
  <2> HIDE DEF clauses, nid
  <2>13. Defined(u, old, q, d) /\ Defined(u, old, p, d)
    <3>1. p.counter <= p.counter /\ p.variable <= p.variable BY <1>4
    <3> QED BY <1>3, <1>4, <1>6, <1>7, <1>8, <2>12, <3>1, DefinedSame
  <2>14. Defined(u, old \cup {n}, q, Seen(c, q).db)
    <3>1. n \notin old BY <1>8, <1>9
    <3>2. u.node[n].dclause = p.counter + 1 BY <2>8 DEF Named
    <3> QED BY <1>4, <2>7, <2>9, <2>11, <2>12, <2>13, <3>1, <3>2, DefinedMore
  <2>15. Recorded(c, u, q)
    <3>1. Shown(c, q) /\ NoUnits(Seen(c, q).db) BY <2>7 DEF Told
    <3>2. Remain(c, u, q, old \cup {n}, q) BY <2>14, <3>1 DEF Remain, SameCounters
    <3>3. Sized(u, q) BY <1>1, <1>3, <1>4, <2>1, <2>7, <2>10, <2>12 DEF Sized, nid
    <3> QED BY <1>12, <1>15, <3>2, <3>3 DEF Recorded
  <2> QED BY <1>1, <1>13, <1>15, <2>7, <2>15 DEF Follows, r, u, q
<1> QED BY <1>14, <1>15

----------------------------------------------------------------------------
(* bdd_makenode and the definitions.                                       *)

\* A call that makes no node.
LEMMA NoneFollows ==
  ASSUME NEW c, NEW r, Recorded(c, r.k, r.p), Anchored(r.k, {}), NEW level
  PROVE  Follows(c, r.k.produced, r, level)
BY DEF Follows, Anchored

\* There is an entry to take, or there is none.
LEMMA TakeEntryFollows ==
  ASSUME NEW c, NEW b, Tidy(c, b.k, b.p), b.k.produced < Most,
         NEW level \in 0..VarCount, NEW low, NEW high, Wanted(b.k, level, low, high)
  PROVE  Follows(c, b.k.produced, TakeEntry(b, level, low, high), level)
<1> DEFINE r == TakeEntry(b, level, low, high)
<1>1. CASE b.k.freepos # 0
  <2>1. r = NewNode(b.k, b.p, level, low, high) BY <1>1 DEF TakeEntry
  <2>2. Follows(c, b.k.produced, NewNode(b.k, b.p, level, low, high), level)
    BY <1>1, NewNodeRecorded
  <2> QED BY <2>1, <2>2
<1>2. CASE b.k.freepos = 0
  <2>1. r.k = b.k /\ r.p = b.p BY <1>2 DEF TakeEntry
  <2> HIDE DEF r
  <2>2. Follows(c, r.k.produced, r, level) BY <2>1, NoneFollows DEF Tidy
  <2> QED BY <2>1, <2>2 DEF r
<1> QED BY <1>1, <1>2

\* A table that is kept keeps its levels.
LEMMA OrderedStill ==
  ASSUME NEW k, Ordered(k), NEW u, NEW stay, Keeps(k, u, stay)
  PROVE  Table(u) /\ Ordered(u)
BY DEF Keeps, SameRest, Ordered

\* Whether it grows or not.
LEMMA ScarceTidy ==
  ASSUME NEW c, NEW b, b = [k |-> b.k, p |-> b.p], Tidy(c, b.k, b.p)
  PROVE  LET a == GrowWhenScarce(b)
         IN  Tidy(c, a.k, a.p) /\ a.k.produced = b.k.produced
<1> DEFINE a == GrowWhenScarce(b)
<1>1. a.k \in {b.k, bdd_noderesize(b.k)} /\ a.p = b.p
  BY DEF GrowWhenScarce
<1> HIDE DEF a
<1>2. CASE a.k = b.k BY <1>1, <1>2 DEF a
<1>3. CASE a.k = bdd_noderesize(b.k)
  <2>1. Keeps(b.k, a.k, InUse(b.k)) BY <1>3, GrowRight DEF Tidy
  <2>2. /\ Recorded(c, a.k, b.p) /\ Anchored(a.k, {}) /\ a.k.produced = b.k.produced
    BY <1>3, GrowRecorded DEF Tidy
  <2>3. Table(a.k) /\ Ordered(a.k) BY <2>1, OrderedStill DEF Tidy
  <2> QED BY <1>1, <2>2, <2>3 DEF Tidy, a
<1> QED BY <1>1, <1>2, <1>3

\* With no entry free, the table is collected and grows if few are free then.
LEMMA MakeNewFollows ==
  ASSUME NEW c, NEW k, NEW p, Tidy(c, k, p), k.produced < Most,
         NEW refs, Range(refs) \subseteq InUse(k) \cup Terminals, NEW level \in 0..VarCount,
         NEW low \in Range(refs) \cup Terminals, NEW high \in Range(refs) \cup Terminals,
         Wanted(k, level, low, high)
  PROVE  Follows(c, k.produced, MakeNew(k, p, level, low, high, refs), level)
<1> DEFINE roots == Range(refs) \cup Referenced(k)
           stay == Reachable(k, roots)
           r == MakeNew(k, p, level, low, high, refs)
<1>1. stay \subseteq InUse(k) /\ roots \ Terminals \subseteq stay
  <2>1. Shape(k) /\ Nodes(k) BY DEF Tidy, Table
  <2>2. roots \in SUBSET (InUse(k) \cup Terminals) BY DEF Referenced
  <2> HIDE DEF roots
  <2> QED BY <2>1, <2>2, ReachableRight
<1>2. low \in stay \cup Terminals /\ high \in stay \cup Terminals BY <1>1 DEF roots
<1>3. CASE k.freepos # 0
  <2> DEFINE b == [k |-> k, p |-> p]
  <2>1. r = TakeEntry(b, level, low, high) BY <1>3 DEF MakeNew
  <2>2. b.k = k /\ b.p = p OBVIOUS
  <2> HIDE DEF b
  <2>3. Follows(c, k.produced, TakeEntry(b, level, low, high), level)
    <3>1. Tidy(c, b.k, b.p) /\ b.k.produced < Most /\ Wanted(b.k, level, low, high) BY <2>2
    <3>2. Follows(c, b.k.produced, TakeEntry(b, level, low, high), level)
      BY <3>1, TakeEntryFollows
    <3> QED BY <2>2, <3>2
  <2> QED BY <2>1, <2>3
<1>4. CASE k.freepos = 0
  <2> DEFINE b == bdd_gbc(k, p, refs)
             a == GrowWhenScarce(b)
  <2>1. r = AfterSweep(b, level, low, high) BY <1>4 DEF MakeNew
  <2>2. Keeps(k, b.k, stay) BY CollectRight DEF Tidy
  <2>3. b = [k |-> b.k, p |-> b.p] BY DEF bdd_gbc
  <2>4. Recorded(c, b.k, b.p) /\ Anchored(b.k, {}) /\ b.k.produced = k.produced
    BY CollectRecorded DEF Tidy
  <2> HIDE DEF b, r, stay
  <2>5. Tidy(c, b.k, b.p) BY <2>2, <2>4, OrderedStill DEF Tidy
  <2>6. CASE b.k.ready /\ b.k.size - b.k.freenum >= b.k.nextreorder
    <3>1. r.k = b.k /\ r.p = b.p BY <2>1, <2>6 DEF AfterSweep
    <3>2. Follows(c, r.k.produced, r, level) BY <2>4, <3>1, NoneFollows
    <3> QED BY <2>4, <3>1, <3>2 DEF r
  <2>7. CASE ~(b.k.ready /\ b.k.size - b.k.freenum >= b.k.nextreorder)
    <3>1. r = TakeEntry(a, level, low, high) BY <2>1, <2>7 DEF AfterSweep
    <3>2. k.size \in Nat BY DEF Tidy, Table, OddPrime
    <3>3. Keeps(k, a.k, stay) BY <2>2, <2>3, <3>2, ScarceRight
    <3>4. Tidy(c, a.k, a.p) /\ a.k.produced = b.k.produced BY <2>3, <2>5, ScarceTidy
    <3> HIDE DEF a
    <3>5. Wanted(a.k, level, low, high) BY <1>1, <1>2, <3>3, WantedStill
    <3>6. a.k.produced < Most BY <2>4, <3>4
    <3>7. Follows(c, a.k.produced, r, level) BY <3>1, <3>4, <3>5, <3>6, TakeEntryFollows
    <3> QED BY <2>4, <3>4, <3>7 DEF r
  <2> QED BY <2>6, <2>7
<1> QED BY <1>3, <1>4

\* bdd_makenode prints the definition of a node it makes, and deletes those of nodes it
\* collects.
LEMMA MakenodeFollows ==
  ASSUME NEW c, NEW k, NEW p, Tidy(c, k, p), k.produced < Most,
         NEW refs, Range(refs) \subseteq InUse(k) \cup Terminals, NEW level \in 0..VarCount,
         NEW low \in Range(refs) \cup Terminals, NEW high \in Range(refs) \cup Terminals
  PROVE  Follows(c, k.produced, bdd_makenode(k, p, level, low, high, refs), level)
<1> DEFINE found == Lookup(k, level, low, high)
           r == bdd_makenode(k, p, level, low, high, refs)
<1>0. /\ Table(k) /\ Ordered(k) /\ Recorded(c, k, p) /\ Anchored(k, {}) /\ VarCount \in Nat
      /\ Shape(k) /\ k.size \in Nat \ {0, 1}
  BY SessionAssumption DEF Tidy, Table, Shape
<1>1. r = MakeUnlessFound(k, p, level, low, high, refs, found) BY DEF bdd_makenode
<1>2. InUse(k) \in SUBSET (Places(k) \ {0}) /\ InUse(k) \cup Terminals \subseteq Int
  <2>1. DOMAIN k.node = Places(k) /\ Places(k) \subseteq Int BY <1>0 DEF Shape, Places
  <2> QED BY <2>1 DEF InUse, Terminals
<1>3. found = 0 => \A n \in InUse(k) : ~Matches(k, n, level, low, high)
  <2>1. Hashed(k, InUse(k)) /\ level \in Int /\ low \in Int /\ high \in Int
    BY <1>0, <1>2 DEF Table
  <2> QED BY <1>0, <1>2, <2>1, LookupRight
<1> HIDE DEF found, r
<1>4. CASE low # high /\ found = 0 /\ ~(level >= LEVEL(k, low) \/ level >= LEVEL(k, high))
  <2>1. r = MakeNew(k, p, level, low, high, refs) BY <1>1, <1>4, Zenon DEF MakeUnlessFound
  <2>2. Makeable(k, level, low, high) BY <1>0 DEF Makeable, Ordered
  <2>3. level < LEVEL(k, low) /\ level < LEVEL(k, high)
    <3>1. low \in Places(k) /\ high \in Places(k) BY <1>0, <1>2, <2>2 DEF Makeable, Terminals, Places
    <3>2. LEVEL(k, low) \in Nat /\ LEVEL(k, high) \in Nat BY <1>0, <3>1 DEF Shape, EntryShape, LEVEL
    <3> QED BY <1>0, <1>4, <3>2
  <2>4. Wanted(k, level, low, high) BY <1>3, <1>4, <2>2, <2>3 DEF Wanted
  <2> QED BY <2>1, <2>4, MakeNewFollows DEF r
<1>5. CASE ~(low # high /\ found = 0 /\ ~(level >= LEVEL(k, low) \/ level >= LEVEL(k, high)))
  <2>1. r.k = k /\ r.p = p BY <1>1, <1>5, Zenon DEF MakeUnlessFound
  <2>2. Follows(c, r.k.produced, r, level) BY <1>0, <2>1, NoneFollows
  <2> QED BY <2>1, <2>2 DEF r
<1> QED BY <1>4, <1>5

\* Without a proof there is nothing to print.
LEMMA MakenodeNone ==
  ASSUME NEW k, NEW p, p.type = "NONE", NEW refs, NEW level, NEW low, NEW high
  PROVE  bdd_makenode(k, p, level, low, high, refs).p = p
<1> DEFINE found == Lookup(k, level, low, high)
           none == p.type = "NONE"
<1>1. none OBVIOUS
<1>2. \A u : DefineNode(u, p, level, low, high) = p BY Zenon DEF DefineNode
<1>3. \A nodes : DeleteNodes(k, p, nodes) = p BY Zenon DEF DeleteNodes
<1>4. \A u : NewNode(u, p, level, low, high).p = p BY <1>2 DEF NewNode
<1>5. \A b : b.p = p => TakeEntry(b, level, low, high).p = p
  BY <1>4 DEF TakeEntry
<1>6. \A u : GrowWhenScarce([k |-> u, p |-> p]).p = p BY DEF GrowWhenScarce
<1>7. \A u : AfterSweep([k |-> u, p |-> p], level, low, high).p = p
  BY <1>5, <1>6 DEF AfterSweep
<1>8. MakeNew(k, p, level, low, high, refs).p = p
  <2>1. bdd_gbc(k, p, refs) = [k |-> bdd_gbc(k, p, refs).k, p |-> p] BY <1>3 DEF bdd_gbc
  <2> QED BY <1>5, <1>7, <2>1 DEF MakeNew
<1>9. MakeUnlessFound(k, p, level, low, high, refs, found).p = p
  BY <1>8, Zenon DEF MakeUnlessFound
<1> QED BY <1>9 DEF bdd_makenode

\* Recounted references change no definition.
LEMMA SurviveRecorded ==
  ASSUME NEW c, NEW k, Table(k), NEW u, InUse(u) = InUse(k), u.produced = k.produced,
         Survive(k, u, InUse(k)), NEW p, Recorded(c, k, p)
  PROVE  Recorded(c, u, p)
<1> DEFINE nodes == Described(k)
           d == Seen(c, p).db
<1>1. /\ Sized(k, p) /\ Shown(c, p) /\ NoUnits(d) /\ Defined(k, nodes, p, d)
  BY DEF Recorded, Remain
<1>2. \A n \in InUse(k) : LEVEL(u, n) = LEVEL(k, n) BY DEF Survive, SameEntry, LEVEL
<1>3. Described(u) = nodes BY <1>2 DEF Described
<1>4. \A n \in nodes : {LOW(k, n), HIGH(k, n)} \subseteq InUse(k) \cup Terminals
  <2>1. \A m \in InUse(k) : Node(k, m) BY DEF Table, Nodes
  <2> QED BY <2>1 DEF Node, Described
<1>5. nodes \in SUBSET InUse(k) /\ InUse(k) \cap Terminals = {} BY DEF Described, InUse
<1>6. p.counter \in Nat /\ p.variable \in Nat /\ p.counter <= p.counter /\ p.variable <= p.variable
  BY <1>1 DEF Sized
<1> HIDE DEF nodes, d
<1>7. Defined(u, nodes, p, d) BY <1>1, <1>4, <1>5, <1>6, DefinedSame
<1>8. Remain(c, u, p, nodes, p) BY <1>1, <1>7 DEF Remain, SameCounters, d
<1>9. Sized(u, p) BY <1>1 DEF Sized
<1> QED BY <1>3, <1>8, <1>9 DEF Recorded

\* Nodes that are there for good still are.
LEMMA SurviveAnchored ==
  ASSUME NEW k, NEW u, InUse(u) = InUse(k), Survive(k, u, InUse(k)),
         NEW besides, Anchored(k, besides), \A n \in besides : u.node[n].refcou = MAXREF
  PROVE  Anchored(u, {})
BY DEF Anchored, Survive, SameEntry, LEVEL

\* So do all references that change.
LEMMA ReferredTidy ==
  ASSUME NEW c, NEW k, NEW p, Tidy(c, k, p), NEW u, Referred(k, u)
  PROVE  Tidy(c, u, p) /\ u.produced = k.produced /\ u.varset = k.varset
<1>1. /\ Table(u) /\ InUse(u) = InUse(k) /\ u.varnum = k.varnum /\ u.produced = k.produced
      /\ u.varset = k.varset /\ Survive(k, u, InUse(k))
  BY DEF Referred
<1>2. Recorded(c, u, p) BY <1>1, SurviveRecorded DEF Tidy
<1>3. Anchored(u, {})
  <2>1. Anchored(k, {}) /\ \A n \in {} : u.node[n].refcou = MAXREF BY DEF Tidy
  <2> QED BY <1>1, <2>1, SurviveAnchored
<1>4. Ordered(u) BY <1>1 DEF Tidy, Ordered, Survive
<1> QED BY <1>1, <1>2, <1>3, <1>4 DEF Tidy

\* With the lines read, the next step starts.
LEMMA QuietTidy ==
  ASSUME NEW c, NEW k, NEW p, Tidy(c, k, p)
  PROVE  Tidy(Seen(c, p), k, Quiet(p))
<1> DEFINE q == Quiet(p)
           e == Seen(c, p)
           none == <<>>
<1>1. /\ Sized(k, p) /\ Shown(c, p) /\ NoUnits(e.db) /\ Defined(k, Described(k), p, e.db)
      /\ Generator(p)
  BY DEF Tidy, Recorded, Remain, Shown
<1>2. none = <<>> OBVIOUS
<1>3. q = [p EXCEPT !.out = none] BY DEF Quiet
<1> HIDE DEF q, e, none
<1>4. /\ Generator(q) /\ SameCounters(p, q) /\ q.empty = p.empty /\ q.out = none
      /\ q.stored = p.stored
  BY <1>1, <1>3 DEF Generator, SameCounters
<1>5. Seen(e, q) = e BY <1>2, <1>4, NothingRead DEF Seen
<1>6. q.out \in Seq(Range(q.out)) BY <1>2, <1>4
<1>7. Shown(e, q)
  BY <1>1, <1>4, <1>5, <1>6 DEF Shown, SameCounters, StoresClauses, e
<1>8. Defined(k, Described(k), q, e.db)
  BY <1>1, <1>4 DEF Defined, Numbered, SameCounters
<1>9. Remain(e, k, q, Described(k), q) BY <1>1, <1>5, <1>7, <1>8 DEF Remain, SameCounters
<1>10. Sized(k, q) BY <1>1, <1>4 DEF Sized, SameCounters
<1> QED BY <1>9, <1>10 DEF Tidy, Recorded, q, e

\* Making a node keeps the table and its levels.
LEMMA MakenodeTidy ==
  ASSUME NEW c, NEW k, NEW p, Tidy(c, k, p), k.produced < Most,
         NEW refs, Range(refs) \subseteq InUse(k) \cup Terminals, NEW level \in 1..VarCount,
         NEW low \in Range(refs) \cup Terminals, NEW high \in Range(refs) \cup Terminals
  PROVE  LET r == bdd_makenode(k, p, level, low, high, refs)
         IN  /\ Tidy(c, r.k, r.p) /\ r.k.produced \in {k.produced, k.produced + 1}
             /\ r.k.varset = k.varset
<1> DEFINE r == bdd_makenode(k, p, level, low, high, refs)
<1>1. Table(k) /\ Ordered(k) /\ VarCount \in Nat BY SessionAssumption DEF Tidy
<1>2. level \in 0..VarCount /\ level # 0 /\ level \in Nat /\ level < k.varnum BY <1>1 DEF Ordered
<1>3. Follows(c, k.produced, r, level) BY <1>2, MakenodeFollows
<1>4. Table(r.k) /\ SameSession(k, r.k)
  <2>1. CASE low = high
    <3>1. r.k = k BY <2>1, MakenodeSame
    <3> HIDE DEF r
    <3> QED BY <1>1, <3>1 DEF SameSession
  <2>2. CASE low # high
    <3>1. Made(k, r, Reachable(k, Range(refs) \cup Referenced(k)))
      BY <1>1, <1>2, <2>2, MakenodeRight
    <3> HIDE DEF r
    <3> QED BY <3>1 DEF Made
  <2> QED BY <2>1, <2>2
<1> HIDE DEF r
<1>5. Ordered(r.k) /\ r.k.varset = k.varset BY <1>1, <1>4 DEF Ordered, SameSession
<1> QED BY <1>2, <1>3, <1>4, <1>5 DEF Tidy, Follows, r

----------------------------------------------------------------------------
(* The variables.                                                          *)

\* The definitions are recorded while the variables are added, if all went well.
Tracked(t, w, c) ==
    Succeeds(c) =>
        /\ Generator(c.p)
        /\ c.p.type # "NONE" =>
              Tidy(t, c.k, c.p) /\ c.k.produced <= w /\ Len(c.k.varset) <= w

\* A tidy table has a generator.
LEMMA TidyGenerator ==
  ASSUME NEW c, NEW k, NEW p, Recorded(c, k, p)
  PROVE  Generator(p) /\ p.type # "NONE" /\ k.produced \in Nat
BY DEF Recorded, Remain, Shown, Sized

\* One node of a variable.
LEMMA AddLiteralTracked ==
  ASSUME NEW t, NEW order, \A l \in 1..VarCount : order[l] \in 1..VarCount,
         NEW c, Ready(VarCount + 1, order, c), NEW w \in Nat, w < 2 * (VarCount + 1),
         Tracked(t, w, c), NEW level \in 0..VarCount,
         NEW low \in Terminals, NEW high \in Terminals, low # high
  PROVE  Tracked(t, w + 1, AddLiteral(c, level, low, high))
<1> DEFINE r == bdd_makenode(c.k, c.p, level, low, high, <<>>)
           d == AddLiteral(c, level, low, high)
           num == VarCount + 1
<1>0. VarCount \in Nat /\ MaxProduced \in Nat BY SessionAssumption
<1> SUFFICES ASSUME Succeeds(d)
             PROVE  /\ Generator(d.p)
                    /\ d.p.type # "NONE" =>
                          Tidy(t, d.k, d.p) /\ d.k.produced <= w + 1 /\ Len(d.k.varset) <= w + 1
  BY Zenon DEF Tracked
<1>1. Succeeds(c)
  <2>1. ~Succeeds(c) => d = c BY Zenon DEF AddLiteral, Succeeds
  <2> HIDE DEF d
  <2> QED BY <2>1
<1>2. d = [k |-> IF Succeeds(r) THEN Pin(r.k, r.n) ELSE r.k, p |-> r.p, error |-> r.error]
  BY <1>1, Zenon DEF AddLiteral, Succeeds, Pin
<1>3. d.k = (IF Succeeds(r) THEN Pin(r.k, r.n) ELSE r.k) /\ d.p = r.p /\ d.error = r.error
  <2> HIDE DEF d, r
  <2> QED BY <1>2, SMT
<1>23. CASE c.p.type = "NONE"
  <2>1. r.p = c.p BY <1>23, MakenodeNone
  <2> HIDE DEF r, d
  <2> QED BY <1>1, <1>3, <1>23, <2>1 DEF Tracked
<1>4. SUFFICES ASSUME c.p.type # "NONE"
               PROVE  /\ Generator(d.p)
                      /\ Tidy(t, d.k, d.p) /\ d.k.produced <= w + 1 /\ Len(d.k.varset) <= w + 1
  <2> HIDE DEF r, d
  <2> QED BY <1>23
<1>5. Tidy(t, c.k, c.p) /\ c.k.produced <= w /\ Len(c.k.varset) <= w BY <1>1, <1>4 DEF Tracked
<1>6. /\ Table(c.k) /\ c.k.varnum = num /\ c.k.level2var = order /\ c.k.varset \in Seq(Nat)
      /\ c.k.produced \in Nat
  BY <1>5 DEF Ready, Tidy, Recorded, Sized
<1>7. c.k.produced < Most BY <1>0, <1>5, <1>6 DEF Most
<1>8. /\ Range(<<>>) \subseteq InUse(c.k) \cup Terminals
      /\ low \in Range(<<>>) \cup Terminals /\ high \in Range(<<>>) \cup Terminals
  BY DEF Range
<1>9. Follows(t, c.k.produced, r, level) BY <1>5, <1>7, <1>8, MakenodeFollows
<1>10. Made(c.k, r, Reachable(c.k, Range(<<>>) \cup Referenced(c.k)))
  <2>1. level \in Nat /\ level < c.k.varnum BY <1>0, <1>6
  <2> QED BY <1>6, <1>8, <2>1, MakenodeRight
<1> HIDE DEF r, d
<1>11. Succeeds(r)
  <2>1. d.error = r.error BY <1>3
  <2> QED BY <2>1, Zenon DEF Succeeds
<1>12. Table(r.k) /\ SameSession(c.k, r.k) /\ r.n \in InUse(r.k) BY <1>10, <1>11 DEF Made
<1>13. r.k.varnum = num /\ r.k.level2var = order /\ r.k.varset \in Seq(Nat)
       /\ Len(r.k.varset) <= w
  BY <1>5, <1>6, <1>12 DEF SameSession
<1>14. d.k = Pin(r.k, r.n) BY <1>3, <1>11
<1>15. /\ Table(d.k) /\ d.k.varnum = num /\ d.k.level2var = order
       /\ Len(d.k.varset) = Len(r.k.varset) + 1 /\ d.k.produced = r.k.produced
       /\ InUse(d.k) = InUse(r.k) /\ Survive(r.k, d.k, InUse(r.k)) /\ d.k.node[r.n].refcou = MAXREF
  BY <1>12, <1>13, <1>14, PinRight
<1>16. Recorded(t, r.k, r.p) /\ r.k.produced \in {c.k.produced, c.k.produced + 1} BY <1>9 DEF Follows
<1>17. Recorded(t, d.k, d.p) BY <1>3, <1>12, <1>15, <1>16, SurviveRecorded
<1>18. Anchored(d.k, {})
  <2> DEFINE besides == IF level = 0 THEN {r.n} ELSE {}
  <2>1. Anchored(r.k, besides) BY <1>9 DEF Follows
  <2>2. \A n \in besides : d.k.node[n].refcou = MAXREF BY <1>15
  <2> HIDE DEF besides
  <2> QED BY <1>15, <2>1, <2>2, SurviveAnchored
<1>19. Ordered(d.k) BY <1>15 DEF Ordered
<1>20. Tidy(t, d.k, d.p) BY <1>15, <1>17, <1>18, <1>19 DEF Tidy
<1>21. d.k.produced <= w + 1
  <2> DEFINE made == c.k.produced
  <2>1. made \in Nat /\ made <= w /\ d.k.produced \in {made, made + 1} BY <1>5, <1>6, <1>15, <1>16
  <2> HIDE DEF made
  <2> QED BY <2>1
<1>22. Len(d.k.varset) <= w + 1
  <2>1. Len(r.k.varset) \in Nat BY <1>13, LenProperties
  <2> QED BY <1>13, <1>15, <2>1
<1>24. Generator(d.p) BY <1>17, TidyGenerator
<1> QED BY <1>20, <1>21, <1>22, <1>24

\* Both nodes of a variable.
LEMMA AddVariableTracked ==
  ASSUME NEW t, NEW order, \A l \in 1..VarCount : order[l] \in 1..VarCount,
         NEW c, Ready(VarCount + 1, order, c), NEW w \in Nat, w + 1 < 2 * (VarCount + 1),
         Tracked(t, w, c), NEW level \in 0..VarCount
  PROVE  Tracked(t, w + 2, AddVariable(c, level))
<1> DEFINE one == w + 1
           d == AddLiteral(c, level, 0, 1)
           num == VarCount + 1
<1>0. VarCount \in Nat BY SessionAssumption
<1>1. 0 \in Terminals /\ 1 \in Terminals /\ 0 # 1 BY DEF Terminals
<1>2. level \in Nat /\ level < num /\ w < 2 * (VarCount + 1) BY <1>0
<1>3. Ready(num, order, d) BY <1>1, <1>2, AddLiteralRight
<1>4. Tracked(t, one, d) BY <1>1, <1>2, AddLiteralTracked
<1>5. one \in Nat /\ one < 2 * (VarCount + 1) /\ one + 1 = w + 2 OBVIOUS
<1> HIDE DEF one, d
<1>6. Tracked(t, one + 1, AddLiteral(d, level, 1, 0)) BY <1>1, <1>3, <1>4, <1>5, AddLiteralTracked
<1> QED BY <1>5, <1>6 DEF AddVariable, d

\* A new table, a new generator and a new checker.
LEMMA FreshTracked ==
  ASSUME NEW order, \A l \in 1..VarCount : order[l] \in 1..VarCount,
         OddPrime(bdd_prime_gte(InitNodes)), NEW type \in ProofTypes
  PROVE  Tracked(File!NewChecker, 0, Fresh(order, VarCount + 1, ProverInit(type, VarCount, <<>>)))
<1> DEFINE num == VarCount + 1
           p == ProverInit(type, VarCount, <<>>)
           k == [bdd_init(InitNodes, order) EXCEPT !.varnum = num]
           t == File!NewChecker
           none == <<>>
           c == Fresh(order, num, p)
<1>0. VarCount \in Nat /\ MaxProduced \in Nat /\ num \in Nat BY SessionAssumption
<1>1. /\ Table(k) /\ InUse(k) = {} /\ k.varset = <<>> /\ k.varnum = num /\ k.level2var = order
  BY <1>0, InitRight DEF Empty
<1>2. k.produced = 0 BY DEF bdd_init
<1>3. c.k = k /\ c.p = p BY DEF Fresh
<1>4. /\ Generator(p) /\ p.type = type /\ p.variable = VarCount /\ p.counter = Len(none)
      /\ p.stored = [id \in {} |-> {}] /\ p.empty = TAUTOLOGY /\ p.out = none
  BY DEF Generator, ProverInit
<1>5. Len(none) = 0 /\ none \in Seq(Range(none)) /\ Range(none) = {} BY DEF Range
<1>6. t.db = [id \in {} |-> {}] /\ IsChecker(t) /\ Seen(t, p) = t
  <2> DEFINE db == [id \in 1..Len(<<>>) |-> <<>>[id]]
  <2>1. db = [id \in {} |-> {}]
    <3>1. 1..Len(<<>>) = {} BY <1>5
    <3> QED BY <3>1
  <2>2. t = [db |-> db, last |-> Len(<<>>), final |-> {}] BY DEF File!NewChecker
  <2> HIDE DEF db, t, p
  <2>3. t.db = db /\ t = [db |-> t.db, last |-> t.last, final |-> t.final] BY <2>2
  <2>4. IsChecker(t) BY <2>1, <2>3 DEF IsChecker
  <2>5. Seen(t, p) = t BY <1>4, NothingRead DEF Seen
  <2> QED BY <2>1, <2>3, <2>4, <2>5
<1> HIDE DEF k, p, t, none, c
<1> SUFFICES ASSUME p.type # "NONE"
             PROVE  Tidy(t, k, p) /\ k.produced <= 0 /\ Len(k.varset) <= 0
  BY <1>3, <1>4, Zenon DEF Tracked, c, p, t
<1>7. Sized(k, p)
  <2>1. Most \in Nat BY <1>0 DEF Most
  <2> QED BY <1>0, <1>2, <1>4, <1>5, <2>1 DEF Sized
<1>8. Described(k) = {} BY <1>1 DEF Described
<1>9. DOMAIN t.db = {} BY <1>6
<1>10. p.type \in {"LRAT", "DRAT", "FRAT"} BY <1>4 DEF ProofTypes
<1>11. Shown(t, p)
  <2>1. p.counter \in Nat /\ p.out \in Seq(Range(p.out)) BY <1>4, <1>5
  <2>2. p.stored = Seen(t, p).db BY <1>4, <1>6
  <2> QED BY <1>4, <1>6, <1>10, <2>1, <2>2 DEF Shown
<1>12. NoUnits(t.db) /\ Defined(k, Described(k), p, t.db) BY <1>8, <1>9 DEF NoUnits, Defined
<1>13. Recorded(t, k, p) BY <1>6, <1>7, <1>11, <1>12 DEF Recorded, Remain, SameCounters
<1>14. Anchored(k, {}) BY <1>1 DEF Anchored
<1>15. Ordered(k) BY <1>1 DEF Ordered
<1>16. Tidy(t, k, p) BY <1>1, <1>13, <1>14, <1>15 DEF Tidy
<1>17. Len(k.varset) = 0 BY <1>1
<1> QED BY <1>2, <1>16, <1>17

\* bdd_setvarnum leaves the definitions of the variables in the file and nothing else.
LEMMA SetvarnumTidy ==
  ASSUME NEW order, \A l \in 1..VarCount : order[l] \in 1..VarCount,
         \A v \in 0..VarCount : \E l \in 0..VarCount : order[l] = v,
         OddPrime(bdd_prime_gte(InitNodes)), NEW type \in ProofTypes
  PROVE  LET c == bdd_setvarnum(bdd_init(InitNodes, order), ProverInit(type, VarCount, <<>>),
                                VarCount + 1)
         IN  /\ Tracked(File!NewChecker, 2 * (VarCount + 1), c)
             /\ Succeeds(c) => c.k.varset \in Seq(Nat)
<1> DEFINE num == VarCount + 1
           p == ProverInit(type, VarCount, <<>>)
           t == File!NewChecker
           d == bdd_setvarnum(bdd_init(InitNodes, order), p, num)
<1>0. VarCount \in Nat /\ num \in Nat /\ num - 1 = VarCount BY SessionAssumption
<1>1. \A v \in 0..(num - 1) : \E l \in 0..(num - 1) : order[l] = v BY <1>0
<1>2. PICK f : IsAdded(order, p, num, f)
  <2> HIDE DEF p, num
  <2> QED BY <1>0, <1>1, AddedRight
<1>3. /\ f[0] = Fresh(order, num, p) /\ d = Placed(f[num], num)
      /\ \A v \in 1..num : \E level \in 0..VarCount : f[v] = AddVariable(f[v - 1], level)
      /\ \A v \in 0..num : Ready(num, order, f[v])
  <2> HIDE DEF p, num, d
  <2> QED BY <1>0, <1>2 DEF IsAdded, d
<1> DEFINE S == {v \in 0..num : Tracked(t, 2 * v, f[v])}
<1>4. 0 \in S
  <2>1. Tracked(t, 0, Fresh(order, num, p)) BY FreshTracked
  <2> HIDE DEF t, p
  <2>2. 2 * 0 = 0 /\ 0 \in 0..num BY <1>0
  <2> QED BY <1>3, <2>1, <2>2
<1>5. ASSUME NEW v \in 1..num, v - 1 \in S PROVE v \in S
  <2> DEFINE w == 2 * (v - 1)
  <2>1. PICK level \in 0..VarCount : f[v] = AddVariable(f[v - 1], level) BY <1>3
  <2>2. w \in Nat /\ w + 1 < 2 * (VarCount + 1) /\ w + 2 = 2 * v BY <1>0
  <2>3. Tracked(t, w, f[v - 1]) BY <1>5
  <2>4. Ready(VarCount + 1, order, f[v - 1])
    <3>1. v - 1 \in 0..num BY <1>0
    <3> QED BY <1>3, <3>1
  <2> HIDE DEF w, t
  <2>5. Tracked(t, w + 2, AddVariable(f[v - 1], level)) BY <2>2, <2>3, <2>4, AddVariableTracked
  <2> QED BY <2>1, <2>2, <2>5
<1> HIDE DEF t, p, d
<1> DEFINE c == f[num]
<1>6. Tracked(t, 2 * num, c)
  <2> HIDE DEF S
  <2>1. 0..num \subseteq S BY <1>0, <1>4, <1>5, IntervalInduction
  <2>2. num \in S BY <1>0, <2>1
  <2> QED BY <2>2 DEF S
<1>7. Ready(num, order, c) /\ d = Placed(c, num) BY <1>0, <1>3
<1> HIDE DEF c
<1>8. /\ d.error = c.error /\ d.p = c.p
      /\ d.k = IF Succeeds(c) THEN Place(c.k, num) ELSE c.k
  BY <1>0, <1>7, PlacedTable
<1>9. Succeeds(c) <=> Succeeds(d)
  <2>1. d.error = c.error BY <1>8
  <2> QED BY <2>1, Zenon DEF Succeeds
<1>10. Table(c.k) /\ c.k.varnum = num /\ c.k.level2var = order /\ c.k.varset \in Seq(Nat)
  BY <1>7 DEF Ready
<1> DEFINE u == Place(c.k, num)
<1>11. /\ Table(u) /\ u.varnum = num /\ InUse(u) = InUse(c.k) /\ Survive(c.k, u, InUse(c.k))
       /\ u.produced = c.k.produced /\ u.varset = c.k.varset
  BY <1>0, <1>10, PlaceRight
<1> HIDE DEF u
<1>12. Succeeds(d) => d.k.varset \in Seq(Nat) BY <1>8, <1>9, <1>10, <1>11 DEF u
<1>15. Succeeds(d) => Generator(d.p) BY <1>6, <1>8, <1>9 DEF Tracked
<1>13. ASSUME d.p.type # "NONE", Succeeds(d)
       PROVE  Tidy(t, d.k, d.p) /\ d.k.produced <= 2 * num /\ Len(d.k.varset) <= 2 * num
  <2>1. d.k = u /\ d.p = c.p BY <1>8, <1>9, <1>13 DEF u
  <2>2. Tidy(t, c.k, c.p) /\ c.k.produced <= 2 * num /\ Len(c.k.varset) <= 2 * num
    <3>1. c.p.type # "NONE" /\ Succeeds(c) BY <1>9, <1>13, <2>1
    <3> QED BY <1>6, <3>1 DEF Tracked
  <2>3. Recorded(t, u, c.p) BY <1>10, <1>11, <2>2, SurviveRecorded DEF Tidy
  <2>4. Anchored(u, {})
    <3>1. Anchored(c.k, {}) /\ \A n \in {} : u.node[n].refcou = MAXREF BY <2>2 DEF Tidy
    <3> QED BY <1>11, <3>1, SurviveAnchored
  <2>5. Ordered(u) BY <1>11, <2>2 DEF Ordered, Tidy, Survive
  <2> QED BY <1>11, <2>1, <2>2, <2>3, <2>4, <2>5 DEF Tidy
<1>14. Tracked(t, 2 * num, d) BY <1>13, <1>15, Zenon DEF Tracked
<1> QED BY <1>12, <1>14 DEF t, p, d

----------------------------------------------------------------------------
(* The session and the definitions.                                        *)

\* With a proof, the file has the definitions of the nodes and nothing else.
DInv ==
    status = "running" =>
        /\ Generator(prover)
        /\ prover.type # "NONE" =>
              /\ Tidy(checker, kernel, Quiet(prover))
              /\ kernel.varset \in Seq(Nat) /\ Len(kernel.varset) <= 2 * (VarCount + 1)

\* A quiet generator keeps its format.
LEMMA QuietGenerator ==
  ASSUME NEW p, Generator(p)
  PROVE  Generator(Quiet(p)) /\ Quiet(p).type = p.type /\ Quiet(Quiet(p)) = Quiet(p)
<1> DEFINE none == <<>>
<1> DEFINE q == [p EXCEPT !.out = none]
<1>1. Quiet(p) = q /\ Quiet(q) = [q EXCEPT !.out = none] BY DEF Quiet
<1> HIDE DEF none
<1>2. q = [type |-> p.type, variable |-> p.variable, counter |-> p.counter, live |-> p.live,
           deletions |-> p.deletions, stored |-> p.stored, deferred |-> p.deferred,
           empty |-> p.empty, finalized |-> p.finalized, out |-> none]
  BY DEF Generator
<1> HIDE DEF q
<1>3. Generator(q) /\ q.type = p.type BY <1>2 DEF Generator
<1>4. [q EXCEPT !.out = none] = q BY <1>2
<1> QED BY <1>1, <1>3, <1>4

\* The definitions are there to begin with.
LEMMA InitDefined == Init => DInv
<1> SUFFICES ASSUME Init PROVE DInv OBVIOUS
<1>1. PICK setup \in Setups :
        LET c == bdd_setvarnum(bdd_init(InitNodes, setup.order),
                               ProverInit(setup.type, VarCount, <<>>), VarCount + 1)
        IN  /\ Succeeds(c)
            /\ kernel = bdd_setmaxnodenum(c.k, setup.limit)
            /\ prover = Quiet(c.p)
            /\ checker = Seen(File!NewChecker, c.p)
  BY Zenon DEF Init, Succeeds, Seen
<1> DEFINE c == bdd_setvarnum(bdd_init(InitNodes, setup.order),
                              ProverInit(setup.type, VarCount, <<>>), VarCount + 1)
           t == File!NewChecker
           order == setup.order
           type == setup.type
<1>2. /\ Succeeds(c) /\ kernel = bdd_setmaxnodenum(c.k, setup.limit) /\ prover = Quiet(c.p)
      /\ checker = Seen(t, c.p)
  BY <1>1
<1>3. /\ setup.limit \in Nat /\ type \in ProofTypes
      /\ \A l \in 1..VarCount : order[l] \in 1..VarCount
      /\ \A v \in 0..VarCount : \E l \in 0..VarCount : order[l] = v
  BY SessionAssumption
<1>4. OddPrime(bdd_prime_gte(InitNodes)) BY SessionAssumption, PrimeAbove
<1> HIDE DEF order, type
<1>5. Tracked(t, 2 * (VarCount + 1), c) /\ c.k.varset \in Seq(Nat)
  <2>1. /\ Tracked(File!NewChecker, 2 * (VarCount + 1),
                   bdd_setvarnum(bdd_init(InitNodes, order), ProverInit(type, VarCount, <<>>),
                                 VarCount + 1))
        /\ Succeeds(bdd_setvarnum(bdd_init(InitNodes, order), ProverInit(type, VarCount, <<>>),
                                  VarCount + 1))
              => bdd_setvarnum(bdd_init(InitNodes, order), ProverInit(type, VarCount, <<>>),
                               VarCount + 1).k.varset \in Seq(Nat)
    BY <1>3, <1>4, SetvarnumTidy
  <2> QED BY <1>2, <2>1 DEF order, type
<1> HIDE DEF c, t
<1>6. Generator(c.p) BY <1>2, <1>5 DEF Tracked
<1>7. Generator(prover) /\ prover.type = c.p.type BY <1>2, <1>6, QuietGenerator
<1>8. ASSUME prover.type # "NONE"
      PROVE  /\ Tidy(checker, kernel, Quiet(prover))
             /\ kernel.varset \in Seq(Nat) /\ Len(kernel.varset) <= 2 * (VarCount + 1)
  <2>1. Tidy(t, c.k, c.p) /\ Len(c.k.varset) <= 2 * (VarCount + 1)
    BY <1>2, <1>5, <1>7, <1>8 DEF Tracked
  <2>2. Referred(c.k, kernel) BY <1>2, <1>3, <2>1, SetmaxRight DEF Tidy
  <2>3. Tidy(t, kernel, c.p) /\ kernel.varset = c.k.varset BY <2>1, <2>2, ReferredTidy
  <2>4. Tidy(checker, kernel, prover) BY <1>2, <2>3, QuietTidy
  <2>5. Quiet(prover) = prover BY <1>2, <1>6, QuietGenerator
  <2> QED BY <1>5, <2>1, <2>3, <2>4, <2>5
<1> QED BY <1>7, <1>8 DEF DInv

\* The variables have no more nodes than there are places for them.
LEMMA VariablesFew ==
  ASSUME NEW s \in Seq(Nat), NEW w \in Nat, Len(s) <= w
  PROVE  Cardinality(Range(s)) \in Nat /\ Cardinality(Range(s)) <= w
<1> DEFINE n == Len(s)
           places == 1..n
<1>1. n \in Nat /\ DOMAIN s = places /\ s \in [places -> Nat] BY LenProperties
<1>2. IsFiniteSet(places) /\ Cardinality(places) = n
  <2> HIDE DEF n
  <2>1. n \in Int /\ 1 \in Int /\ n >= 0 BY <1>1
  <2>2. /\ IsFiniteSet(1..n)
        /\ Cardinality(1..n) = IF 1 > n THEN 0 ELSE n - 1 + 1
    BY <2>1, FS_Interval
  <2> QED BY <2>1, <2>2
<1> HIDE DEF n, places
<1>3. s \in Surjection(places, Range(s)) BY <1>1 DEF Surjection, Range
<1>4. IsFiniteSet(Range(s)) /\ Cardinality(Range(s)) <= Cardinality(places)
  BY <1>2, <1>3, FS_Surjection
<1>5. Cardinality(Range(s)) \in Nat BY <1>4, FS_CardinalityType
<1> QED BY <1>1, <1>2, <1>4, <1>5 DEF n

\* A step of an operator prints the definition of the node it makes.
LEMMA BuildDefined ==
  ASSUME IInv, DInv, NEW level \in 1..VarCount,
         NEW low \in Known \cup Range(stack), NEW high \in Known \cup Range(stack),
         NEW keep \in {0, Len(stack)}, Build(level, low, high, keep)
  PROVE  DInv'
<1> DEFINE refs == stack \o <<low, high>>
           p == Quiet(prover)
           r == bdd_makenode(kernel, p, level, low, high, refs)
           nodes == InUse(kernel) \cup Terminals
<1>1. /\ status = "running" /\ kernel' = r.k /\ prover' = r.p
      /\ kernel.produced < Cardinality(VariableNodes) + MaxProduced
      /\ checker' = Seen(checker, r.p)
  <2>1. checker' = Seen(checker, prover') BY Zenon DEF Build, Observe, Seen
  <2> QED BY <2>1, Zenon DEF Build
<1>2. Generator(prover) BY <1>1 DEF DInv
<1>3. Generator(p) /\ p.type = prover.type BY <1>2, QuietGenerator
<1>4. CASE prover.type = "NONE"
  <2>1. p.type = "NONE" BY <1>3, <1>4
  <2> HIDE DEF p
  <2>2. r.p = p BY <2>1, MakenodeNone
  <2> HIDE DEF r
  <2> QED BY <1>1, <1>3, <2>1, <2>2 DEF DInv
<1>5. CASE prover.type # "NONE"
  <2>1. /\ Tidy(checker, kernel, p) /\ kernel.varset \in Seq(Nat)
        /\ Len(kernel.varset) <= 2 * (VarCount + 1)
    BY <1>1, <1>5 DEF DInv
  <2>2. /\ Table(kernel) /\ stack \in Seq(nodes) /\ VarCount \in Nat /\ MaxProduced \in Nat
    BY SessionAssumption DEF IInv
  <2>3. low \in nodes /\ high \in nodes
    <3>1. Range(stack) \subseteq nodes BY <2>2, RangeOfSeq
    <3> QED BY <2>2, <3>1, KnownRight DEF Referenced
  <2>4. Range(refs) = Range(stack) \cup {low, high}
    <3> HIDE DEF nodes
    <3> QED BY <2>2, <2>3, OnTop
  <2> HIDE DEF refs, p
  <2>5. Range(refs) \subseteq nodes BY <2>2, <2>3, <2>4, RangeOfSeq
  <2>6. kernel.produced < Most
    <3> DEFINE few == Cardinality(VariableNodes)
               made == kernel.produced
    <3>1. few \in Nat /\ few <= 2 * (VarCount + 1)
      <4> DEFINE w == 2 * (VarCount + 1)
      <4>1. w \in Nat BY <2>2
      <4> HIDE DEF w
      <4> QED BY <2>1, <4>1, VariablesFew DEF VariableNodes, w
    <3>2. made \in Nat BY <2>1, TidyGenerator DEF Tidy
    <3>3. made < few + MaxProduced BY <1>1
    <3> HIDE DEF few, made
    <3>4. made < 2 * (VarCount + 1) + MaxProduced BY <2>2, <3>1, <3>2, <3>3
    <3> QED BY <3>4 DEF Most, made
  <2>7. low \in Range(refs) \cup Terminals /\ high \in Range(refs) \cup Terminals BY <2>4
  <2>8. Tidy(checker, r.k, r.p) /\ r.k.varset = kernel.varset
    BY <2>1, <2>5, <2>6, <2>7, MakenodeTidy
  <2> HIDE DEF r
  <2>9. Tidy(Seen(checker, r.p), r.k, Quiet(r.p)) BY <2>8, QuietTidy
  <2>10. Generator(r.p) BY <2>8, TidyGenerator DEF Tidy
  <2> QED BY <1>1, <2>1, <2>8, <2>9, <2>10 DEF DInv
<1> QED BY <1>4, <1>5

\* The steps that make no node print nothing.
LEMMA ReferDefined ==
  ASSUME IInv, DInv, Referred(kernel, kernel'), prover' \in {prover, Quiet(prover)},
         checker' = checker, status' = status
  PROVE  DInv'
<1> SUFFICES ASSUME status = "running"
             PROVE  /\ Generator(prover')
                    /\ prover'.type # "NONE" =>
                          /\ Tidy(checker, kernel', Quiet(prover'))
                          /\ kernel'.varset \in Seq(Nat) /\ Len(kernel'.varset) <= 2 * (VarCount + 1)
  BY DEF DInv
<1>1. Generator(prover) BY DEF DInv
<1>2. Generator(prover') /\ prover'.type = prover.type /\ Quiet(prover') = Quiet(prover)
  BY <1>1, QuietGenerator
<1>3. ASSUME prover.type # "NONE"
      PROVE  /\ Tidy(checker, kernel', Quiet(prover))
             /\ kernel'.varset \in Seq(Nat) /\ Len(kernel'.varset) <= 2 * (VarCount + 1)
  <2>1. /\ Tidy(checker, kernel, Quiet(prover)) /\ kernel.varset \in Seq(Nat)
        /\ Len(kernel.varset) <= 2 * (VarCount + 1)
    BY <1>3 DEF DInv
  <2>2. Tidy(checker, kernel', Quiet(prover)) /\ kernel'.varset = kernel.varset
    BY <2>1, ReferredTidy
  <2> QED BY <2>1, <2>2
<1> QED BY <1>2, <1>3

\* Every step.
LEMMA NextDefined ==
  ASSUME IInv, DInv, [Next]_vars
  PROVE  DInv'
<1>0. Table(kernel) /\ stack \in Seq(InUse(kernel) \cup Terminals) BY DEF IInv
<1>1. ASSUME NEW level \in 1..VarCount, NEW low \in Known \cup Range(stack),
             NEW high \in Known \cup Range(stack), NEW keep \in {0, Len(stack)},
             Build(level, low, high, keep)
      PROVE  DInv'
  BY <1>1, BuildDefined
<1>2. CASE Return
  <2>1. /\ status' = status /\ Len(stack) = 1 /\ kernel' = bdd_addref(kernel, Last(stack))
        /\ prover' = Quiet(prover) /\ checker' = checker
    BY <1>2 DEF Return
  <2>2. Last(stack) \in InUse(kernel) \cup Terminals
    <3>1. stack[1] \in InUse(kernel) \cup Terminals BY <1>0, <2>1, ElementOfSeq
    <3> QED BY <2>1, <3>1 DEF Last
  <2>3. Referred(kernel, kernel') BY <1>0, <2>1, <2>2, AddrefRight
  <2> QED BY <2>1, <2>3, ReferDefined
<1>3. ASSUME NEW n \in Held, Release(n) PROVE DInv'
  <2>1. /\ status' = status /\ kernel' = bdd_delref(kernel, n)
        /\ prover' = Quiet(prover) /\ checker' = checker
    BY <1>3 DEF Release
  <2>2. n \in InUse(kernel) BY DEF Held, Referenced
  <2>3. Referred(kernel, kernel') BY <1>0, <2>1, <2>2, AddrefRight
  <2> QED BY <2>1, <2>3, ReferDefined
<1>4. CASE Done
  <2>1. status' = "done" BY <1>4 DEF Done
  <2> QED BY <2>1 DEF DInv
<1>5. CASE UNCHANGED vars
  <2>1. kernel' = kernel /\ prover' = prover /\ checker' = checker /\ status' = status
    BY <1>5 DEF vars
  <2>2. Referred(kernel, kernel') BY <1>0, <2>1, ReferredSelf
  <2> QED BY <2>1, <2>2, ReferDefined
<1> QED BY <1>1, <1>2, <1>3, <1>4, <1>5 DEF Next

\* The proof file of a session of any length has the defining clauses of the live nodes
\* and nothing else, whatever was collected, reused and resized: the clauses of a node are
\* printed when it is made and deleted when it is collected, before their identifiers and
\* its entry serve again.
THEOREM LiveNodesDefinedHolds == Spec => []LiveNodesDefined
<1>1. DInv => LiveNodesDefined
  <2> SUFFICES ASSUME DInv, prover.type # "NONE", status = "running"
               PROVE  /\ DOMAIN checker.db = UNION {Range(DefiningIds(kernel, n)) :
                                                       n \in Described(kernel)}
                      /\ \A n \in Described(kernel), i \in 1..4 :
                           LET id == bdd_dclause(kernel, n, DclauseTypes[i])
                           IN  id # TAUTOLOGY => checker.db[id] = ClauseOf(kernel, n, i)
    BY DEF LiveNodesDefined, Live, Described, ClauseOf
  <2> DEFINE p == Quiet(prover)
             nodes == Described(kernel)
  <2>1. /\ Sized(kernel, p) /\ Generator(prover)
        /\ Defined(kernel, nodes, p, Seen(checker, p).db)
    BY DEF DInv, Tidy, Recorded, Remain
  <2>2. Seen(checker, p) = checker
    <3> DEFINE none == <<>>
    <3>1. p = [prover EXCEPT !.out = none] BY DEF Quiet
    <3> HIDE DEF p, none
    <3>2. p.out = none BY <2>1, <3>1 DEF Generator
    <3> QED BY <3>2, NothingRead DEF Seen, none
  <2> HIDE DEF p
  <2>3. ASSUME NEW n \in nodes
        PROVE  /\ n \notin Terminals /\ Range(DefiningIds(kernel, n)) = ClauseIds(kernel, n)
    <3>1. n \notin Terminals BY DEF Described, InUse
    <3>2. Numbered(kernel, n, p) BY <2>1 DEF Defined
    <3>3. p.counter < TAUTOLOGY /\ p.counter \in Nat BY <2>1, SizedBound DEF Sized
    <3>4. kernel.node[n].dclause \in Nat /\ kernel.node[n].dclause + 3 < TAUTOLOGY
      <4> DEFINE top == TAUTOLOGY
      <4>1. top \in Nat BY DEF TAUTOLOGY
      <4> HIDE DEF top
      <4> QED BY <3>2, <3>3, <4>1 DEF Numbered, top
    <3> DEFINE ids == [i \in 1..4 |-> bdd_dclause(kernel, n, DclauseTypes[i])]
    <3>5. ids \in Seq(Int) /\ Range(ids) \ {TAUTOLOGY} = ClauseIds(kernel, n)
      BY <3>1, <3>4, DefiningIdsAre
    <3>6. DefiningIds(kernel, n) = CleanHints(ids) BY DEF DefiningIds
    <3> HIDE DEF ids
    <3> QED BY <3>1, <3>5, <3>6, CleanHintsRight
  <2>4. DOMAIN checker.db = UNION {Range(DefiningIds(kernel, n)) : n \in nodes}
    <3>1. DOMAIN checker.db = UNION {ClauseIds(kernel, n) : n \in nodes}
      BY <2>1, <2>2 DEF Defined
    <3> QED BY <2>3, <3>1
  <2>5. ASSUME NEW n \in nodes, NEW i \in 1..4,
               bdd_dclause(kernel, n, DclauseTypes[i]) # TAUTOLOGY
        PROVE  checker.db[bdd_dclause(kernel, n, DclauseTypes[i])] = ClauseOf(kernel, n, i)
    <3> DEFINE id == bdd_dclause(kernel, n, DclauseTypes[i])
    <3>1. id = IF Trivial(kernel, n, i) THEN TAUTOLOGY ELSE ClauseId(kernel, n, i)
      BY <2>3, DclauseIs
    <3> HIDE DEF id
    <3>2. ~Trivial(kernel, n, i) /\ id = ClauseId(kernel, n, i) BY <2>5, <3>1 DEF id
    <3>3. checker.db[id] = ClauseOf(kernel, n, i) BY <2>1, <2>2, <3>2 DEF Defined
    <3> QED BY <3>3 DEF id
  <2> QED BY <2>4, <2>5
<1>2. Init => DInv BY InitDefined
<1>3. IInv /\ DInv /\ [Next]_vars => DInv' BY NextDefined
<1> QED BY <1>1, <1>2, <1>3, Invariance, PTL DEF Spec
============================================================================
