--------------------------- MODULE RefTableProofs ---------------------------
(***************************************************************************)
(* Proofs about RefTable: the unit clause of a trusted BDD outlives every  *)
(* copy of it, for any number of slots, nodes and clauses.                 *)
(*                                                                         *)
(* An entry of the table is told free from used only by who points to it,  *)
(* so the induction carries what the free list guarantees: its links stay  *)
(* among unused entries, and no two of them meet.  That the list reaches   *)
(* every unused entry takes more, an enumeration of it (TableIsExact).     *)
(* What tbdd_done deletes is what its sort and its merge leave             *)
(* (LiveUnitClauses).                                                      *)
(***************************************************************************)
EXTENDS RefTable, Induction

----------------------------------------------------------------------------
(* The table on its own, with the set of the entries in use.               *)

Unused(t, used) == (0..(t.allocated - 1)) \ used

WellFormed(t, used) ==
    /\ t = [table |-> t.table, freepos |-> t.freepos, allocated |-> t.allocated]
    /\ t.allocated \in Nat \ {0}
    /\ t.table \in [0..(t.allocated - 1) -> Int]
    /\ used \subseteq 0..(t.allocated - 1)
    /\ t.freepos \in Unused(t, used) \cup {-1}
    /\ \A i \in Unused(t, used) : t.table[i] \in Unused(t, used) \cup {-1}
    /\ \A i \in Unused(t, used) : t.table[i] = -1 \/ t.table[i] # t.freepos
    /\ \A i, j \in Unused(t, used) : t.table[i] = t.table[j] => i = j \/ t.table[i] = -1

\* The initial table has every entry on its free list.
LEMMA InitWellFormed == WellFormed(rc_init, {})
  BY InitSizeAssumption DEF WellFormed, Unused, rc_init, ChainFrom

\* Growing an exhausted table keeps it well formed and provides a free entry;
\* every old entry now counts as used.
LEMMA GrowWellFormed ==
    ASSUME NEW t, NEW used, WellFormed(t, used), t.freepos = -1
    PROVE  /\ WellFormed(rc_grow(t), 0..(t.allocated - 1))
           /\ rc_grow(t).freepos # -1
           /\ \A i \in 0..(t.allocated - 1) : rc_grow(t).table[i] = t.table[i]
  <1> DEFINE g == rc_grow(t)
             a == t.allocated
  <1>1. /\ a \in Nat \ {0}
        /\ t.table \in [0..(a - 1) -> Int]
    BY DEF WellFormed
  <1>2. /\ g = [table |-> g.table, freepos |-> g.freepos, allocated |-> g.allocated]
        /\ g.allocated = a * 2 /\ g.freepos = a
        /\ g.table = [i \in 0..(a * 2 - 1) |->
                        IF i < a THEN t.table[i] ELSE ChainFrom(a, a * 2)[i]]
    BY DEF rc_grow
  <1> HIDE DEF g
  <1>3. \A i \in a..(a * 2 - 1) : ChainFrom(a, a * 2)[i] = IF i = a * 2 - 1 THEN -1 ELSE i + 1
    BY <1>1 DEF ChainFrom
  <1>4. /\ \A i \in 0..(a - 1) : g.table[i] = t.table[i]
        /\ \A i \in a..(a * 2 - 1) : g.table[i] = IF i = a * 2 - 1 THEN -1 ELSE i + 1
    BY <1>1, <1>2, <1>3
  <1>5. g.table \in [0..(a * 2 - 1) -> Int]
    <2>1. ASSUME NEW i \in 0..(a * 2 - 1) PROVE g.table[i] \in Int
      <3>1. CASE i < a
        <4>1. i \in 0..(a - 1)
          BY <1>1, <3>1
        <4> QED BY <1>1, <1>4, <4>1
      <3>2. CASE ~(i < a)
        <4>1. i \in a..(a * 2 - 1)
          BY <1>1, <3>2
        <4> QED BY <1>1, <1>4, <4>1
      <3> QED BY <3>1, <3>2
    <2> QED BY <1>2, <2>1
  <1>6. Unused(g, 0..(a - 1)) = a..(a * 2 - 1)
    BY <1>1, <1>2 DEF Unused
  <1>7. WellFormed(g, 0..(a - 1))
    <2>1. /\ g.allocated \in Nat \ {0}
          /\ 0..(a - 1) \subseteq 0..(g.allocated - 1)
          /\ g.freepos \in Unused(g, 0..(a - 1)) \cup {-1}
      <3> HIDE DEF a
      <3>1. a * 2 \in Nat \ {0} /\ a \in a..(a * 2 - 1) /\ a - 1 <= a * 2 - 1
        BY <1>1
      <3>2. 0..(a - 1) \subseteq 0..(a * 2 - 1)
        BY <1>1, <3>1
      <3> QED BY <1>2, <1>6, <3>1, <3>2
    <2>2. \A i \in a..(a * 2 - 1) :
             g.table[i] = -1 \/ (g.table[i] = i + 1 /\ i + 1 \in (a + 1)..(a * 2 - 1))
      <3> SUFFICES ASSUME NEW i \in a..(a * 2 - 1), i # a * 2 - 1
                   PROVE  i + 1 \in (a + 1)..(a * 2 - 1)
        BY <1>4
      <3> QED BY <1>1
    <2>3. \A i \in Unused(g, 0..(a - 1)) :
             g.table[i] \in Unused(g, 0..(a - 1)) \cup {-1}
      <3>1. (a + 1)..(a * 2 - 1) \subseteq a..(a * 2 - 1)
        BY <1>1
      <3> QED BY <1>6, <2>2, <3>1
    <2>4. \A i \in Unused(g, 0..(a - 1)) : g.table[i] = -1 \/ g.table[i] # g.freepos
      <3> SUFFICES ASSUME NEW i \in a..(a * 2 - 1), g.table[i] # -1
                   PROVE  g.table[i] # a
        BY <1>2, <1>6
      <3> QED BY <1>1, <2>2
    <2>5. \A i, j \in Unused(g, 0..(a - 1)) :
             g.table[i] = g.table[j] => i = j \/ g.table[i] = -1
      <3> SUFFICES ASSUME NEW i \in a..(a * 2 - 1), NEW j \in a..(a * 2 - 1),
                          g.table[i] = g.table[j], g.table[i] # -1
                   PROVE  i = j
        BY <1>6
      <3>1. i + 1 = j + 1
        BY <2>2
      <3> QED BY <1>1, <3>1
    <2> QED BY <1>2, <1>5, <2>1, <2>3, <2>4, <2>5 DEF WellFormed
  <1> QED BY <1>1, <1>2, <1>4, <1>7 DEF g

\* A new entry was not in use, counts one copy, and leaves the others alone.
LEMMA NewEntryWellFormed ==
    ASSUME NEW t, NEW used, WellFormed(t, used)
    PROVE  LET i == RoomFor(t).freepos
               u == rc_new_entry(t)
           IN  /\ i \in Nat \ used
               /\ \E more : WellFormed(u, more) /\ used \subseteq more /\ i \in more
               /\ u.table[i] = 1
               /\ \A k \in used : u.table[k] = t.table[k]
  <1> DEFINE room == RoomFor(t)
             i == room.freepos
             u == rc_new_entry(t)
  <1>1. PICK all : /\ WellFormed(room, all) /\ used \subseteq all
                   /\ i # -1
                   /\ \A k \in used : room.table[k] = t.table[k]
    <2>1. CASE t.freepos = -1
      <3>1. used \subseteq 0..(t.allocated - 1)
        BY DEF WellFormed
      <3> QED BY <2>1, <3>1, GrowWellFormed DEF RoomFor
    <2>2. CASE t.freepos # -1
      BY <2>2 DEF RoomFor
    <2> QED BY <2>1, <2>2
  <1> HIDE DEF room
  <1>2. /\ i \in Unused(room, all) /\ i \in Nat
        /\ room.table \in [0..(room.allocated - 1) -> Int]
        /\ room.table[i] \in Unused(room, all) \cup {-1} /\ room.table[i] # i
        /\ room.allocated \in Nat
    BY <1>1 DEF WellFormed, Unused
  <1>3. u = [table |-> [room.table EXCEPT ![i] = 1], freepos |-> room.table[i],
             allocated |-> room.allocated]
    BY DEF rc_new_entry, room
  <1> HIDE DEF u
  <1>4. Unused(u, all \cup {i}) = Unused(room, all) \ {i}
    BY <1>3 DEF Unused
  <1>5. \A k \in Unused(u, all \cup {i}) : u.table[k] = room.table[k] /\ k \in Unused(room, all)
    BY <1>2, <1>3, <1>4 DEF Unused
  <1>6. WellFormed(u, all \cup {i})
    <2>1. /\ u = [table |-> u.table, freepos |-> u.freepos, allocated |-> u.allocated]
          /\ u.allocated \in Nat \ {0}
          /\ u.table \in [0..(u.allocated - 1) -> Int]
          /\ all \cup {i} \subseteq 0..(u.allocated - 1)
      BY <1>1, <1>2, <1>3 DEF WellFormed, Unused
    <2>2. u.freepos \in Unused(u, all \cup {i}) \cup {-1}
      BY <1>2, <1>3, <1>4
    <2>3. \A k \in Unused(u, all \cup {i}) : u.table[k] \in Unused(u, all \cup {i}) \cup {-1}
      BY <1>1, <1>4, <1>5 DEF WellFormed
    <2>4. \A k \in Unused(u, all \cup {i}) : u.table[k] = -1 \/ u.table[k] # u.freepos
      BY <1>1, <1>2, <1>3, <1>4, <1>5 DEF WellFormed
    <2>5. \A k, j \in Unused(u, all \cup {i}) :
             u.table[k] = u.table[j] => k = j \/ u.table[k] = -1
      BY <1>1, <1>5 DEF WellFormed
    <2> QED BY <2>1, <2>2, <2>3, <2>4, <2>5 DEF WellFormed
  <1>7. u.table[i] = 1 /\ i \notin used
    BY <1>1, <1>2, <1>3 DEF Unused
  <1>8. \A k \in used : u.table[k] = t.table[k]
    <2> SUFFICES ASSUME NEW k \in used PROVE u.table[k] = t.table[k]
      OBVIOUS
    <2>1. k \in 0..(room.allocated - 1) /\ k # i
      BY <1>1, <1>7 DEF WellFormed
    <2> QED BY <1>1, <1>2, <1>3, <2>1
  <1> QED BY <1>1, <1>2, <1>6, <1>7, <1>8 DEF room, u

\* Changing the count of an entry in use keeps the table well formed.
LEMMA CountWellFormed ==
    ASSUME NEW t, NEW used, WellFormed(t, used), NEW i \in used, NEW n \in Int
    PROVE  WellFormed([t EXCEPT !.table[i] = n], used)
  <1> DEFINE u == [t EXCEPT !.table[i] = n]
  <1>1. /\ u = [table |-> [t.table EXCEPT ![i] = n], freepos |-> t.freepos,
                allocated |-> t.allocated]
        /\ t.table \in [0..(t.allocated - 1) -> Int]
    BY DEF WellFormed
  <1> HIDE DEF u
  <1>2. Unused(u, used) = Unused(t, used)
    BY <1>1 DEF Unused
  <1>3. \A k \in Unused(t, used) : u.table[k] = t.table[k]
    BY <1>1 DEF Unused
  <1>4. WellFormed(u, used)
    <2>1. /\ u = [table |-> u.table, freepos |-> u.freepos, allocated |-> u.allocated]
          /\ u.allocated \in Nat \ {0}
          /\ u.table \in [0..(u.allocated - 1) -> Int]
          /\ used \subseteq 0..(u.allocated - 1)
          /\ u.freepos = t.freepos
      BY <1>1 DEF WellFormed
    <2> QED BY <1>2, <1>3, <2>1 DEF WellFormed
  <1> QED BY <1>4 DEF u

\* Disposing of an entry puts it in front of the free list.
LEMMA DisposeWellFormed ==
    ASSUME NEW t, NEW used, WellFormed(t, used), NEW i \in used
    PROVE  /\ WellFormed(rc_dispose(t, i), used \ {i})
           /\ \A k \in used \ {i} : rc_dispose(t, i).table[k] = t.table[k]
  <1> DEFINE u == rc_dispose(t, i)
  <1>1. /\ u = [table |-> [t.table EXCEPT ![i] = t.freepos], freepos |-> i,
                allocated |-> t.allocated]
        /\ t.table \in [0..(t.allocated - 1) -> Int]
        /\ t.freepos \in Int /\ i \in 0..(t.allocated - 1)
        /\ t.allocated \in Nat \ {0}
    BY DEF WellFormed, rc_dispose, Unused
  <1> HIDE DEF u
  <1>2. Unused(u, used \ {i}) = Unused(t, used) \cup {i}
    BY <1>1 DEF Unused
  <1>3. /\ u.table[i] = t.freepos /\ i \notin Unused(t, used)
        /\ \A k \in Unused(t, used) : u.table[k] = t.table[k]
    BY <1>1 DEF Unused
  <1>4. WellFormed(u, used \ {i})
    <2>1. /\ u = [table |-> u.table, freepos |-> u.freepos, allocated |-> u.allocated]
          /\ u.allocated \in Nat \ {0}
          /\ u.table \in [0..(u.allocated - 1) -> Int]
          /\ used \ {i} \subseteq 0..(u.allocated - 1)
          /\ u.freepos \in Unused(u, used \ {i}) \cup {-1}
      BY <1>1, <1>2 DEF WellFormed
    <2>2. \A k \in Unused(u, used \ {i}) : u.table[k] \in Unused(u, used \ {i}) \cup {-1}
      BY <1>1, <1>2, <1>3 DEF WellFormed
    <2>3. \A k \in Unused(u, used \ {i}) : u.table[k] = -1 \/ u.table[k] # u.freepos
      <3>1. u.freepos = i
        BY <1>1
      <3> QED BY <1>1, <1>2, <1>3, <3>1 DEF WellFormed
    <2>4. \A k, j \in Unused(u, used \ {i}) :
             u.table[k] = u.table[j] => k = j \/ u.table[k] = -1
      BY <1>1, <1>2, <1>3 DEF WellFormed
    <2> QED BY <2>1, <2>2, <2>3, <2>4 DEF WellFormed
  <1>5. \A k \in used \ {i} : u.table[k] = t.table[k]
    BY <1>1 DEF WellFormed
  <1> QED BY <1>4, <1>5 DEF u

----------------------------------------------------------------------------
(* Slots sharing the entries of a table.                                   *)

HoldersIn(sl, i) == {s \in Slots : sl[s].rc_index = i}

\* Slots with the same entry or the same clause are copies of one trusted BDD.
Copies(sl, s, t) ==
    \/ sl[s].rc_index = sl[t].rc_index /\ sl[s].rc_index # -1
    \/ sl[s].clause_id = sl[t].clause_id /\ sl[s].clause_id # TAUTOLOGY

Shared(sl, r, un) ==
    /\ sl \in [Slots -> Tbdd \cup {NoTbdd}]
    /\ \E used : /\ WellFormed(r, used)
                 /\ \A s \in Slots : sl[s].rc_index \in Nat => sl[s].rc_index \in used
    /\ \A s \in Slots : sl[s] # NoTbdd =>
          /\ sl[s].rc_index \in Nat \cup {-1}
          /\ sl[s].rc_index = -1 <=> sl[s].clause_id = TAUTOLOGY
          /\ sl[s].clause_id # TAUTOLOGY => sl[s].clause_id \in un
    /\ \A s, t \in Slots : sl[s] # NoTbdd /\ sl[t] # NoTbdd /\ Copies(sl, s, t) => sl[s] = sl[t]
    /\ \A i \in Nat : HoldersIn(sl, i) # {} => r.table[i] = Cardinality(HoldersIn(sl, i))

\* Setting one slot to h changes the number of holders of entry i as it should.
HoldersMove(sl, s, h, i) ==
    LET was == HoldersIn(sl, i)
        is  == HoldersIn([sl EXCEPT ![s] = h], i)
    IN  /\ Cardinality(was) \in Nat
        /\ Cardinality(was) = 0 <=> was = {}
        /\ s \in was => (Cardinality(was) = 1 <=> was = {s})
        /\ h.rc_index = i => is = was \cup {s}
        /\ h.rc_index # i => is = was \ {s}
        /\ h.rc_index = i /\ s \notin was => Cardinality(is) = Cardinality(was) + 1
        /\ h.rc_index # i /\ s \in was => Cardinality(is) = Cardinality(was) - 1

\* It does, for the slots are finite.
LEMMA HoldersCount ==
    ASSUME NEW sl, NEW s \in Slots, NEW h, NEW i,
           sl \in [Slots -> Tbdd \cup {NoTbdd}], h \in Tbdd \cup {NoTbdd}
    PROVE  HoldersMove(sl, s, h, i)
  <1> DEFINE was == HoldersIn(sl, i)
             is == HoldersIn([sl EXCEPT ![s] = h], i)
  <1>1. IsFiniteSet(was)
    <2>1. was \subseteq Slots
      BY DEF HoldersIn
    <2> QED BY <2>1, ConstantsAssumption, FS_Subset
  <1>2. /\ h.rc_index = i => is = was \cup {s}
        /\ h.rc_index # i => is = was \ {s}
    BY DEF HoldersIn
  <1> HIDE DEF was, is
  <1>3. Cardinality(was) \in Nat /\ (Cardinality(was) = 0 <=> was = {})
    BY <1>1, FS_CardinalityType, FS_EmptySet
  <1>4. s \in was => (Cardinality(was) = 1 <=> was = {s})
    BY <1>1, FS_Singleton
  <1>5. s \notin was => Cardinality(was \cup {s}) = Cardinality(was) + 1
    BY <1>1, FS_AddElement
  <1>6. s \in was => Cardinality(was \ {s}) = Cardinality(was) - 1
    BY <1>1, FS_RemoveElement
  <1> QED BY <1>2, <1>3, <1>4, <1>5, <1>6 DEF was, is, HoldersMove

\* The empty slot is no trusted BDD and holds no entry.
LEMMA NoTbddFacts == NoTbdd \notin Tbdd /\ NoTbdd.rc_index = -2
  BY ConstantsAssumption DEF NoTbdd, Tbdd, Roots

\* A new trusted BDD with a new clause takes an entry of its own.
LEMMA CreateShared ==
    ASSUME NEW sl, NEW r, NEW un, Shared(sl, r, un),
           NEW s \in Slots, sl[s] = NoTbdd,
           NEW root \in Roots, NEW id \in Nat \ {TAUTOLOGY},
           \A t \in Slots : sl[t].clause_id # id
    PROVE  Shared([sl EXCEPT ![s] = [root |-> root, clause_id |-> id,
                                     rc_index |-> RoomFor(r).freepos]],
                  rc_new_entry(r), un \cup {id})
  <1> DEFINE i0 == RoomFor(r).freepos
             h == [root |-> root, clause_id |-> id, rc_index |-> i0]
             sl2 == [sl EXCEPT ![s] = h]
             r2 == rc_new_entry(r)
  <1>1. PICK used : /\ WellFormed(r, used)
                    /\ \A t \in Slots : sl[t].rc_index \in Nat => sl[t].rc_index \in used
    BY DEF Shared
  <1>2. PICK more : /\ WellFormed(r2, more) /\ used \subseteq more
                    /\ i0 \in more /\ i0 \in Nat \ used
                    /\ r2.table[i0] = 1 /\ \A k \in used : r2.table[k] = r.table[k]
    BY <1>1, NewEntryWellFormed
  <1> HIDE DEF i0, r2
  <1>3. sl \in [Slots -> Tbdd \cup {NoTbdd}] /\ h \in Tbdd /\ h # NoTbdd
    BY <1>2, NoTbddFacts DEF Shared, Tbdd
  <1>4. sl2 \in [Slots -> Tbdd \cup {NoTbdd}] /\ sl2[s] = h
        /\ \A t \in Slots \ {s} : sl2[t] = sl[t]
    BY <1>3
  <1>5. \A t \in Slots : sl[t].rc_index # i0
    BY <1>1, <1>2
  <1>6. \A t \in Slots : sl2[t].rc_index \in Nat => sl2[t].rc_index \in more
    BY <1>1, <1>2, <1>4
  <1>7. ASSUME NEW t \in Slots, sl2[t] # NoTbdd
        PROVE  /\ sl2[t].rc_index \in Nat \cup {-1}
               /\ sl2[t].rc_index = -1 <=> sl2[t].clause_id = TAUTOLOGY
               /\ sl2[t].clause_id # TAUTOLOGY => sl2[t].clause_id \in un \cup {id}
    BY <1>2, <1>4, <1>7 DEF Shared
  <1>8. ASSUME NEW x \in Slots, NEW y \in Slots, sl2[x] # NoTbdd, sl2[y] # NoTbdd,
               Copies(sl2, x, y)
        PROVE  sl2[x] = sl2[y]
    <2>1. CASE x # s /\ y # s
      BY <1>4, <1>8, <2>1 DEF Shared, Copies
    <2>2. CASE x = s /\ y # s
      BY <1>4, <1>5, <1>8, <2>2 DEF Copies
    <2>3. CASE x # s /\ y = s
      BY <1>4, <1>5, <1>8, <2>3 DEF Copies
    <2> QED BY <2>1, <2>2, <2>3
  <1>9. ASSUME NEW i \in Nat, HoldersIn(sl2, i) # {}
        PROVE  r2.table[i] = Cardinality(HoldersIn(sl2, i))
    <2> HIDE DEF h
    <2>0. HoldersMove(sl, s, h, i)
      BY <1>3, HoldersCount
    <2>1. s \notin HoldersIn(sl, i) /\ h.rc_index = i0
      BY NoTbddFacts DEF HoldersIn, h
    <2>2. CASE i = i0
      <3>1. HoldersIn(sl, i) = {}
        BY <1>5, <2>2 DEF HoldersIn
      <3> QED BY <1>2, <2>0, <2>1, <2>2, <3>1 DEF HoldersMove
    <2>3. CASE i # i0
      <3>1. HoldersIn(sl2, i) = HoldersIn(sl, i)
        BY <2>0, <2>1, <2>3 DEF HoldersMove
      <3>2. i \in used
        BY <1>1, <1>9, <3>1 DEF HoldersIn
      <3> QED BY <1>2, <1>9, <3>1, <3>2 DEF Shared
    <2> QED BY <2>2, <2>3
  <1>10. Shared(sl2, r2, un \cup {id})
    BY <1>2, <1>4, <1>6, <1>7, <1>8, <1>9 DEF Shared
  <1> QED BY <1>10 DEF i0, r2

\* An unjustified trusted BDD shares nothing.
LEMMA CreateUnprovedShared ==
    ASSUME NEW sl, NEW r, NEW un, Shared(sl, r, un),
           NEW s \in Slots, sl[s] = NoTbdd, NEW root \in Roots
    PROVE  Shared([sl EXCEPT ![s] = [root |-> root, clause_id |-> TAUTOLOGY,
                                     rc_index |-> -1]], r, un)
  <1> DEFINE h == [root |-> root, clause_id |-> TAUTOLOGY, rc_index |-> -1]
             sl2 == [sl EXCEPT ![s] = h]
  <1>1. sl \in [Slots -> Tbdd \cup {NoTbdd}] /\ h \in Tbdd /\ h # NoTbdd
    BY NoTbddFacts DEF Shared, Tbdd, TAUTOLOGY
  <1>2. sl2 \in [Slots -> Tbdd \cup {NoTbdd}] /\ sl2[s] = h
        /\ \A t \in Slots \ {s} : sl2[t] = sl[t]
    BY <1>1
  <1>3. \A t \in Slots : sl2[t].rc_index \in Nat => sl2[t] = sl[t]
    BY <1>2
  <1>4. \A x, y \in Slots :
           sl2[x] # NoTbdd /\ sl2[y] # NoTbdd /\ Copies(sl2, x, y) => sl2[x] = sl2[y]
    BY <1>2 DEF Shared, Copies
  <1>5. \A i \in Nat : HoldersIn(sl2, i) = HoldersIn(sl, i)
    BY <1>2, NoTbddFacts DEF HoldersIn
  <1> QED BY <1>2, <1>3, <1>4, <1>5 DEF Shared

\* A copy counts in the entry of its original.
LEMMA CopyShared ==
    ASSUME NEW sl, NEW r, NEW un, Shared(sl, r, un),
           NEW s \in Slots, sl[s] = NoTbdd, NEW t \in Slots, sl[t] # NoTbdd
    PROVE  Shared([sl EXCEPT ![s] = sl[t]], rc_increment(r, sl[t].rc_index), un)
  <1> DEFINE j == sl[t].rc_index
             sl2 == [sl EXCEPT ![s] = sl[t]]
             r2 == rc_increment(r, j)
  <1>1. PICK used : /\ WellFormed(r, used)
                    /\ \A x \in Slots : sl[x].rc_index \in Nat => sl[x].rc_index \in used
    BY DEF Shared
  <1>2. /\ sl \in [Slots -> Tbdd \cup {NoTbdd}]
        /\ sl2 \in [Slots -> Tbdd \cup {NoTbdd}] /\ sl2[s] = sl[t]
        /\ \A x \in Slots \ {s} : sl2[x] = sl[x]
        /\ j \in Nat \cup {-1}
    BY DEF Shared
  <1>3. \A x \in Slots : sl2[x].rc_index \in Nat => sl2[x].rc_index \in used
    BY <1>1, <1>2
  <1>4. /\ WellFormed(r2, used)
        /\ \A k \in used : r2.table[k] = IF k = j THEN r.table[k] + 1 ELSE r.table[k]
    <2>1. CASE j = -1
      BY <1>1, <2>1 DEF rc_increment, WellFormed
    <2>2. CASE j \in Nat
      <3>1. j \in used /\ r.table \in [0..(r.allocated - 1) -> Int] /\ j \in 0..(r.allocated - 1)
        BY <1>1, <2>2 DEF WellFormed
      <3>2. r2 = [r EXCEPT !.table[j] = r.table[j] + 1]
        BY <2>2 DEF rc_increment
      <3>3. WellFormed(r2, used)
        <4> DEFINE n == r.table[j] + 1
        <4>1. n \in Int
          <5>1. r.table[j] \in Int
            <6> HIDE DEF j
            <6> QED BY <3>1
          <5> QED BY <5>1
        <4> HIDE DEF n
        <4>2. WellFormed([r EXCEPT !.table[j] = n], used)
          BY <1>1, <3>1, <4>1, CountWellFormed
        <4> QED BY <3>2, <4>2 DEF n
      <3>4. r = [table |-> r.table, freepos |-> r.freepos, allocated |-> r.allocated]
        BY <1>1 DEF WellFormed
      <3>5. r2.table = [r.table EXCEPT ![j] = r.table[j] + 1]
        BY <3>2, <3>4
      <3> QED BY <1>1, <3>1, <3>3, <3>5 DEF WellFormed
    <2> QED BY <1>2, <2>1, <2>2
  <1> HIDE DEF r2
  <1>5. \A x \in Slots : sl2[x] # NoTbdd =>
          /\ sl2[x].rc_index \in Nat \cup {-1}
          /\ sl2[x].rc_index = -1 <=> sl2[x].clause_id = TAUTOLOGY
          /\ sl2[x].clause_id # TAUTOLOGY => sl2[x].clause_id \in un
    BY <1>2 DEF Shared
  <1>6. \A x, y \in Slots :
           sl2[x] # NoTbdd /\ sl2[y] # NoTbdd /\ Copies(sl2, x, y) => sl2[x] = sl2[y]
    BY <1>2 DEF Shared, Copies
  <1>7. ASSUME NEW i \in Nat, HoldersIn(sl2, i) # {}
        PROVE  r2.table[i] = Cardinality(HoldersIn(sl2, i))
    <2>0. HoldersMove(sl, s, sl[t], i)
      BY <1>2, HoldersCount
    <2>1. s \notin HoldersIn(sl, i)
      BY NoTbddFacts DEF HoldersIn
    <2>2. CASE i = j
      <3>1. t \in HoldersIn(sl, i) /\ i \in used
        BY <1>1, <2>2 DEF HoldersIn
      <3>2. r.table[i] = Cardinality(HoldersIn(sl, i))
        BY <3>1 DEF Shared
      <3>3. r2.table[i] = r.table[i] + 1
        BY <1>4, <2>2, <3>1
      <3>4. Cardinality(HoldersIn(sl2, i)) = Cardinality(HoldersIn(sl, i)) + 1
        BY <2>0, <2>1, <2>2 DEF HoldersMove
      <3> QED BY <3>2, <3>3, <3>4
    <2>3. CASE i # j
      <3>1. HoldersIn(sl2, i) = HoldersIn(sl, i)
        BY <2>0, <2>1, <2>3 DEF HoldersMove
      <3>2. i \in used
        BY <1>1, <1>7, <3>1 DEF HoldersIn
      <3> QED BY <1>4, <1>7, <2>3, <3>1, <3>2 DEF Shared
    <2> QED BY <2>2, <2>3
  <1>8. Shared(sl2, r2, un)
    BY <1>2, <1>3, <1>4, <1>5, <1>6, <1>7 DEF Shared
  <1> QED BY <1>8 DEF r2

\* What is left of the clauses when h gives up one of its copies.
LeftOver(r, un, h) ==
    IF LastCopy(r, h.rc_index) /\ h.root # 0 THEN un \ {h.clause_id} ELSE un

\* Only the last copy frees its entry, and no other slot needs its clause.
LEMMA ReleaseShared ==
    ASSUME NEW sl, NEW r, NEW un, Shared(sl, r, un),
           NEW s \in Slots, sl[s] # NoTbdd
    PROVE  Shared([sl EXCEPT ![s] = NoTbdd], rc_release(r, sl[s].rc_index),
                  LeftOver(r, un, sl[s]))
  <1> DEFINE j == sl[s].rc_index
             sl2 == [sl EXCEPT ![s] = NoTbdd]
             r2 == rc_release(r, j)
             un2 == LeftOver(r, un, sl[s])
  <1>1. PICK used : /\ WellFormed(r, used)
                    /\ \A x \in Slots : sl[x].rc_index \in Nat => sl[x].rc_index \in used
    BY DEF Shared
  <1>2. /\ sl \in [Slots -> Tbdd \cup {NoTbdd}]
        /\ sl2 \in [Slots -> Tbdd \cup {NoTbdd}] /\ sl2[s] = NoTbdd
        /\ \A x \in Slots \ {s} : sl2[x] = sl[x]
        /\ j \in Nat \cup {-1}
    BY DEF Shared
  <1>3. \A i : HoldersMove(sl, s, NoTbdd, i)
    BY <1>2, HoldersCount
  <1>4. ASSUME NEW i \in Nat
        PROVE  /\ HoldersIn(sl2, i) = HoldersIn(sl, i) \ {s}
               /\ s \in HoldersIn(sl, i) =>
                    Cardinality(HoldersIn(sl2, i)) = Cardinality(HoldersIn(sl, i)) - 1
    <2>1. HoldersMove(sl, s, NoTbdd, i)
      BY <1>3
    <2>2. NoTbdd.rc_index # i
      BY NoTbddFacts
    <2> QED BY <2>1, <2>2 DEF HoldersMove
  <1>5. \A x, y \in Slots :
           sl2[x] # NoTbdd /\ sl2[y] # NoTbdd /\ Copies(sl2, x, y) => sl2[x] = sl2[y]
    BY <1>2 DEF Shared, Copies
  <1>6. CASE j = -1
    <2>1. r2 = r /\ un2 = un
      BY <1>6 DEF rc_release, LastCopy, LeftOver
    <2>2. \A i \in Nat : HoldersIn(sl2, i) = HoldersIn(sl, i)
      <3>1. \A i \in Nat : s \notin HoldersIn(sl, i)
        BY <1>6 DEF HoldersIn
      <3> QED BY <1>4, <3>1
    <2>3. \A x \in Slots : sl2[x].rc_index \in Nat => sl2[x].rc_index \in used
      BY <1>1, <1>2, NoTbddFacts
    <2>4. \A x \in Slots : sl2[x] # NoTbdd =>
            /\ sl2[x].rc_index \in Nat \cup {-1}
            /\ sl2[x].rc_index = -1 <=> sl2[x].clause_id = TAUTOLOGY
            /\ sl2[x].clause_id # TAUTOLOGY => sl2[x].clause_id \in un
      BY <1>2 DEF Shared
    <2>5. Shared(sl2, r, un)
      BY <1>1, <1>2, <1>5, <2>2, <2>3, <2>4 DEF Shared
    <2> QED BY <2>1, <2>5
  <1>7. CASE j \in Nat
    <2>1. /\ s \in HoldersIn(sl, j) /\ j \in used
          /\ r.table[j] = Cardinality(HoldersIn(sl, j))
      BY <1>1, <1>7 DEF HoldersIn, Shared
    <2>2. CASE LastCopy(r, j)
      <3>1. HoldersIn(sl, j) = {s}
        BY <1>3, <2>1, <2>2 DEF HoldersMove, LastCopy
      <3>2. /\ r2 = rc_dispose(r, j)
            /\ WellFormed(r2, used \ {j})
            /\ \A k \in used \ {j} : r2.table[k] = r.table[k]
        BY <1>1, <1>7, <2>1, <2>2, DisposeWellFormed DEF rc_release
      <3>3. \A x \in Slots \ {s} : sl[x].rc_index # j
        BY <3>1 DEF HoldersIn
      <3>4. \A x \in Slots : sl2[x].rc_index \in Nat => sl2[x].rc_index \in used \ {j}
        BY <1>1, <1>2, <3>3, NoTbddFacts
      <3>5. ASSUME NEW x \in Slots, sl2[x] # NoTbdd
            PROVE  /\ sl2[x].rc_index \in Nat \cup {-1}
                   /\ sl2[x].rc_index = -1 <=> sl2[x].clause_id = TAUTOLOGY
                   /\ sl2[x].clause_id # TAUTOLOGY => sl2[x].clause_id \in un2
        <4>1. x # s /\ sl2[x] = sl[x]
          BY <1>2, <3>5
        <4>2. sl[x].clause_id # TAUTOLOGY => sl[x].clause_id # sl[s].clause_id
          BY <3>3, <3>5, <4>1 DEF Shared, Copies
        <4> QED BY <3>5, <4>1, <4>2 DEF Shared, LeftOver
      <3>6. ASSUME NEW i \in Nat, HoldersIn(sl2, i) # {}
            PROVE  r2.table[i] = Cardinality(HoldersIn(sl2, i))
        <4>1. i # j
          BY <1>4, <3>1, <3>6
        <4>2. HoldersIn(sl2, i) = HoldersIn(sl, i)
          BY <1>4, <4>1 DEF HoldersIn
        <4>3. i \in used
          BY <1>1, <3>6, <4>2 DEF HoldersIn
        <4> QED BY <3>2, <3>6, <4>1, <4>2, <4>3 DEF Shared
      <3>9. Shared(sl2, r2, un2)
        <4> HIDE DEF r2, un2, sl2
        <4>1. \E free : /\ WellFormed(r2, free)
                        /\ \A x \in Slots : sl2[x].rc_index \in Nat => sl2[x].rc_index \in free
          BY <3>2, <3>4
        <4> QED BY <1>2, <1>5, <3>5, <3>6, <4>1 DEF Shared
      <3> QED BY <3>9
    <2>3. CASE ~LastCopy(r, j)
      <3>1. un2 = un
        BY <2>3 DEF LeftOver
      <3>2. /\ r = [table |-> r.table, freepos |-> r.freepos, allocated |-> r.allocated]
            /\ r.table \in [0..(r.allocated - 1) -> Int] /\ used \subseteq 0..(r.allocated - 1)
            /\ r.table[j] \in Int
        <4> HIDE DEF j
        <4> QED BY <1>1, <2>1 DEF WellFormed
      <3>3. r2 = [r EXCEPT !.table[j] = r.table[j] - 1]
        BY <1>7, <2>3 DEF rc_release
      <3>4. WellFormed(r2, used)
        <4> DEFINE n == r.table[j] - 1
        <4>1. n \in Int
          BY <3>2
        <4> HIDE DEF n
        <4>2. WellFormed([r EXCEPT !.table[j] = n], used)
          BY <1>1, <2>1, <4>1, CountWellFormed
        <4> QED BY <3>3, <4>2 DEF n
      <3>5. \A k \in used : r2.table[k] = IF k = j THEN r.table[k] - 1 ELSE r.table[k]
        <4> HIDE DEF j
        <4>1. r2.table = [r.table EXCEPT ![j] = r.table[j] - 1]
          BY <3>2, <3>3
        <4> QED BY <3>2, <4>1
      <3>6. \A x \in Slots : sl2[x].rc_index \in Nat => sl2[x].rc_index \in used
        BY <1>1, <1>2, NoTbddFacts
      <3>7. \A x \in Slots : sl2[x] # NoTbdd =>
              /\ sl2[x].rc_index \in Nat \cup {-1}
              /\ sl2[x].rc_index = -1 <=> sl2[x].clause_id = TAUTOLOGY
              /\ sl2[x].clause_id # TAUTOLOGY => sl2[x].clause_id \in un
        BY <1>2 DEF Shared
      <3>8. ASSUME NEW i \in Nat, HoldersIn(sl2, i) # {}
            PROVE  r2.table[i] = Cardinality(HoldersIn(sl2, i))
        <4>1. i \in used /\ HoldersIn(sl, i) # {}
          BY <1>1, <1>4, <3>8 DEF HoldersIn
        <4>2. CASE i = j
          <5>1. Cardinality(HoldersIn(sl2, i)) = Cardinality(HoldersIn(sl, i)) - 1
            BY <1>4, <2>1, <4>2
          <5> QED BY <2>1, <3>5, <4>1, <4>2, <5>1
        <4>3. CASE i # j
          <5>1. HoldersIn(sl2, i) = HoldersIn(sl, i)
            BY <1>4, <4>3 DEF HoldersIn
          <5> QED BY <3>5, <4>1, <4>3, <5>1 DEF Shared
        <4> QED BY <4>2, <4>3
      <3>9. Shared(sl2, r2, un2)
        <4> HIDE DEF r2, un2
        <4> QED BY <1>2, <1>5, <3>1, <3>4, <3>6, <3>7, <3>8 DEF Shared
      <3> QED BY <3>9
    <2> QED BY <2>2, <2>3
  <1> QED BY <1>2, <1>6, <1>7

\* More clauses to cite never hurt.
LEMMA MoreUnitsShared ==
    ASSUME NEW sl, NEW r, NEW un, NEW more, Shared(sl, r, un), un \subseteq more
    PROVE  Shared(sl, r, more)
  BY DEF Shared

\* A well-formed table has the type TypeOK asks for.
LEMMA SharedType ==
    ASSUME NEW sl, NEW r, NEW un, Shared(sl, r, un)
    PROVE  /\ r.allocated \in Nat \ {0}
           /\ r = [table |-> r.table, freepos |-> r.freepos, allocated |-> r.allocated]
           /\ r.table \in [0..(r.allocated - 1) -> Int]
           /\ r.freepos \in -1..(r.allocated - 1)
           /\ sl \in [Slots -> Tbdd \cup {NoTbdd}]
  <1>1. PICK used : WellFormed(r, used)
    BY DEF Shared
  <1> QED BY <1>1 DEF Shared, WellFormed, Unused

\* Reference counts of nodes stay between 0 and MAXREF.
LEMMA RefcouType ==
    ASSUME NEW c \in [Nodes -> 0..MaxRef], NEW r
    PROVE  /\ bdd_addref(c, r) \in [Nodes -> 0..MaxRef]
           /\ bdd_delref(c, r) \in [Nodes -> 0..MaxRef]
  <1>1. \A n \in Nodes : c[n] < MaxRef => c[n] + 1 \in 0..MaxRef
    BY ConstantsAssumption
  <1>2. \A n \in Nodes : c[n] > 0 => c[n] - 1 \in 0..MaxRef
    BY ConstantsAssumption
  <1> QED BY <1>1, <1>2 DEF bdd_addref, bdd_delref

----------------------------------------------------------------------------
(* Lists, their order, and the merge of tbdd_done.                         *)

\* The elements of a list.
LEMMA ListElements ==
    ASSUME NEW S, NEW s \in Seq(S)
    PROVE  /\ Range(s) \subseteq S
           /\ \A T : S \subseteq T => s \in Seq(T)
           /\ Len(s) \in Nat /\ DOMAIN s = 1..Len(s)
           /\ s \in Seq(Range(s))
  <1>1. Len(s) \in Nat /\ DOMAIN s = 1..Len(s) /\ s \in [1..Len(s) -> S]
    BY LenProperties
  <1>2. ASSUME NEW T, \A i \in 1..Len(s) : s[i] \in T PROVE s \in Seq(T)
    BY <1>1, <1>2, SeqDef
  <1>3. \A i \in 1..Len(s) : s[i] \in S /\ s[i] \in Range(s)
    BY <1>1 DEF Range
  <1>4. Range(s) \subseteq S
    BY <1>1 DEF Range
  <1>5. s \in Seq(Range(s))
    BY <1>2, <1>3
  <1> QED BY <1>1, <1>2, <1>3, <1>4, <1>5

\* One element more; the list stays free of repetitions if it is a new one.
LEMMA ListAppend ==
    ASSUME NEW S, NEW s \in Seq(S), NEW v \in S
    PROVE  /\ Append(s, v) \in Seq(S)
           /\ Range(Append(s, v)) = Range(s) \cup {v}
           /\ IsInjective(s) /\ v \notin Range(s) => IsInjective(Append(s, v))
  <1> DEFINE n == Len(s)
             u == Append(s, v)
  <1>1. /\ n \in Nat /\ DOMAIN s = 1..n
        /\ u \in Seq(S) /\ DOMAIN u = 1..(n + 1)
        /\ u[n + 1] = v /\ \A i \in 1..n : u[i] = s[i]
    BY LenProperties, AppendProperties
  <1>2. 1..(n + 1) = 1..n \cup {n + 1}
    BY <1>1
  <1> HIDE DEF n, u
  <1>3. Range(u) = Range(s) \cup {v}
    BY <1>1, <1>2 DEF Range
  <1>4. ASSUME IsInjective(s), v \notin Range(s) PROVE IsInjective(u)
    <2>1. \A i \in 1..n : s[i] # v
      BY <1>1, <1>4 DEF Range
    <2>2. \A i, j \in 1..n : s[i] = s[j] => i = j
      BY <1>1, <1>4 DEF IsInjective
    <2> QED BY <1>1, <1>2, <2>1, <2>2 DEF IsInjective
  <1> QED BY <1>1, <1>3, <1>4 DEF u

\* Lists of no element and of one.
LEMMA ShortLists ==
    /\ Range(<<>>) = {} /\ IsInjective(<<>>) /\ \A S : <<>> \in Seq(S)
    /\ \A v : Range(<<v>>) = {v} /\ IsInjective(<<v>>) /\ \A S : v \in S => <<v>> \in Seq(S)
  <1>1. DOMAIN <<>> = {} /\ \A S : <<>> \in Seq(S)
    OBVIOUS
  <1>2. ASSUME NEW v
        PROVE  Range(<<v>>) = {v} /\ IsInjective(<<v>>) /\ \A S : v \in S => <<v>> \in Seq(S)
    <2>1. DOMAIN <<v>> = {1} /\ <<v>>[1] = v
      OBVIOUS
    <2>2. ASSUME NEW S, v \in S PROVE <<v>> \in Seq(S)
      BY <2>2
    <2> QED BY <2>1, <2>2 DEF Range, IsInjective
  <1> QED BY <1>1, <1>2 DEF Range, IsInjective

Sorted(s) == \A i, j \in 1..Len(s) : i < j => s[i] <= s[j]
StrictlySorted(s) == \A i, j \in 1..Len(s) : i < j => s[i] < s[j]

\* ilist_sort gives a sorted list of the same elements: an element's place is the number
\* of those not behind it, and these sets grow along the order of the elements.
LEMMA SortRight ==
    ASSUME NEW list \in Seq(Int)
    PROVE  /\ ilist_sort(list) \in Seq(Int)
           /\ Len(ilist_sort(list)) = Len(list)
           /\ Range(ilist_sort(list)) = Range(list)
           /\ Sorted(ilist_sort(list))
           /\ IsInjective(list) => StrictlySorted(ilist_sort(list))
  <1> DEFINE n == Len(list)
             D == 1..n
             before(j, i) == list[j] < list[i] \/ (list[j] = list[i] /\ j <= i)
             upTo(i) == {j \in D : before(j, i)}
             place(i) == Cardinality(upTo(i))
             at(m) == CHOOSE i \in D : place(i) = m
             s == [m \in D |-> list[at(m)]]
  <1>1. n \in Nat /\ DOMAIN list = D /\ \A i \in D : list[i] \in Int
    BY LenProperties
  <1>2. ilist_sort(list) = s
    BY <1>1 DEF ilist_sort
  <1>3. IsFiniteSet(D) /\ Cardinality(D) = n
    <2>1. /\ 1 \in Int /\ n \in Int
          /\ IsFiniteSet(D) /\ Cardinality(D) = IF 1 > n THEN 0 ELSE n - 1 + 1
      BY <1>1, FS_Interval
    <2> QED BY <1>1, <2>1
  <1>4. /\ \A i \in D : before(i, i)
        /\ \A i, j \in D : before(i, j) \/ before(j, i)
        /\ \A i, j \in D : before(i, j) /\ before(j, i) => i = j
        /\ \A i, j, k \in D : before(i, j) /\ before(j, k) => before(i, k)
    <2>1. D \subseteq Int
      BY <1>1
    <2>2. ASSUME NEW i \in D, NEW j \in D
          PROVE  /\ before(i, i)
                 /\ before(i, j) \/ before(j, i)
                 /\ before(i, j) /\ before(j, i) => i = j
      <3>1. i \in Int /\ j \in Int /\ list[i] \in Int /\ list[j] \in Int
        BY <1>1, <2>1
      <3> HIDE DEF D
      <3> QED BY <3>1
    <2>3. ASSUME NEW i \in D, NEW j \in D, NEW k \in D, before(i, j), before(j, k)
          PROVE  before(i, k)
      <3>1. /\ i \in Int /\ j \in Int /\ k \in Int
            /\ list[i] \in Int /\ list[j] \in Int /\ list[k] \in Int
        BY <1>1, <2>1
      <3>2. \A x, y, z, a, b, c \in Int :
               (x < y \/ (x = y /\ a <= b)) /\ (y < z \/ (y = z /\ b <= c))
               => x < z \/ (x = z /\ a <= c)
        OBVIOUS
      <3> HIDE DEF D
      <3> QED BY <2>3, <3>1, <3>2, Zenon
    <2> HIDE DEF before, D
    <2> QED BY <2>2, <2>3
  <1>5. \A i, j \in D : list[i] <= list[j] <=> list[i] < list[j] \/ list[i] = list[j]
    BY <1>1
  <1>6. \A i, j \in D : before(i, j) => list[i] <= list[j]
    BY <1>5
  <1> HIDE DEF before, D
  <1>7. \A i \in D : /\ IsFiniteSet(upTo(i)) /\ i \in upTo(i)
                     /\ place(i) \in D
    <2> SUFFICES ASSUME NEW i \in D
                 PROVE  IsFiniteSet(upTo(i)) /\ i \in upTo(i) /\ place(i) \in D
      OBVIOUS
    <2>1. upTo(i) \subseteq D /\ i \in upTo(i)
      BY <1>4
    <2> HIDE DEF upTo
    <2>2. IsFiniteSet(upTo(i)) /\ Cardinality(upTo(i)) <= n
      BY <1>3, <2>1, FS_Subset
    <2>3. Cardinality(upTo(i)) \in Nat /\ Cardinality(upTo(i)) # 0
      BY <2>1, <2>2, FS_CardinalityType, FS_EmptySet
    <2> QED BY <1>1, <2>1, <2>2, <2>3 DEF D
  <1>8. \A i, j \in D : before(j, i) /\ i # j => place(j) < place(i)
    <2> SUFFICES ASSUME NEW i \in D, NEW j \in D, before(j, i), i # j
                 PROVE  place(j) < place(i)
      OBVIOUS
    <2>1. upTo(j) \subseteq upTo(i) /\ i \in upTo(i) /\ i \notin upTo(j)
      BY <1>4
    <2>2. IsFiniteSet(upTo(i)) /\ upTo(j) # upTo(i)
      BY <1>7, <2>1
    <2> HIDE DEF upTo
    <2>3. /\ IsFiniteSet(upTo(j)) /\ Cardinality(upTo(j)) <= Cardinality(upTo(i))
          /\ Cardinality(upTo(j)) # Cardinality(upTo(i))
      BY <2>1, <2>2, FS_Subset
    <2>4. Cardinality(upTo(j)) \in Nat /\ Cardinality(upTo(i)) \in Nat
      BY <2>2, <2>3, FS_CardinalityType
    <2> QED BY <2>3, <2>4
  <1>9. \A i, j \in D : place(i) = place(j) => i = j
    <2> SUFFICES ASSUME NEW i \in D, NEW j \in D, place(i) = place(j), i # j PROVE FALSE
      OBVIOUS
    <2>1. place(i) \in Int /\ place(j) \in Int
      <3>1. D \subseteq Int
        BY <1>1 DEF D
      <3> HIDE DEF place
      <3> QED BY <1>7, <3>1
    <2>2. place(j) < place(i) \/ place(i) < place(j)
      BY <1>4, <1>8
    <2> HIDE DEF place
    <2> QED BY <2>1, <2>2
  <1>10. \A m \in D : \E i \in D : place(i) = m
    <2> SUFFICES ASSUME NEW m \in D, \A i \in D : place(i) # m PROVE FALSE
      OBVIOUS
    <2> DEFINE f == [i \in D |-> place(i)]
               E == D \ {m}
    <2>1. f \in [D -> E] /\ \A i \in D : f[i] = place(i)
      BY <1>7
    <2>2. IsFiniteSet(E) /\ Cardinality(E) = n - 1
      BY <1>3, FS_RemoveElement
    <2>3. Cardinality(E) < Cardinality(D)
      BY <1>1, <1>3, <2>2
    <2> HIDE DEF f, E
    <2>4. \E x, y \in D : x # y /\ f[x] = f[y]
      BY <1>3, <2>1, <2>2, <2>3, FS_PigeonHole
    <2> QED BY <1>9, <2>1, <2>4
  <1> HIDE DEF place
  <1>11. \A m \in D : at(m) \in D /\ place(at(m)) = m
    BY <1>10
  <1>12. \A i \in D : place(i) \in D /\ at(place(i)) = i
    BY <1>7, <1>9, <1>11
  <1> HIDE DEF at
  <1>13. DOMAIN s = D /\ \A m \in D : s[m] = list[at(m)]
    OBVIOUS
  <1>14. s \in Seq(Int) /\ Len(s) = n
    <2>1. s \in [1..n -> Int]
      BY <1>1, <1>11 DEF D
    <2> QED BY <1>1, <2>1, SeqDef, LenProperties
  <1> HIDE DEF s
  <1>15. Range(s) = Range(list)
    <2>1. \A m \in D : s[m] \in Range(list)
      BY <1>1, <1>11, <1>13 DEF Range
    <2>2. \A i \in D : list[i] \in Range(s)
      BY <1>12, <1>13 DEF Range
    <2> QED BY <1>1, <1>13, <2>1, <2>2 DEF Range
  <1>16. ASSUME NEW m \in D, NEW k \in D, m < k
         PROVE  s[m] <= s[k] /\ (IsInjective(list) => s[m] < s[k])
    <2>1. at(m) \in D /\ at(k) \in D /\ place(at(m)) < place(at(k)) /\ at(m) # at(k)
      <3>1. m \in Int /\ k \in Int /\ m # k
        BY <1>1, <1>16 DEF D
      <3> QED BY <1>11, <1>16, <3>1
    <2>2. ~before(at(k), at(m))
      <3>1. \A x, y \in D : x < y => ~(y < x)
        BY <1>1 DEF D
      <3>2. place(at(m)) \in D /\ place(at(k)) \in D
        BY <1>12, <2>1
      <3> QED BY <1>8, <2>1, <3>1, <3>2
    <2>3. list[at(m)] <= list[at(k)]
      BY <1>4, <1>6, <2>1, <2>2
    <2>4. IsInjective(list) => list[at(m)] # list[at(k)]
      BY <1>1, <2>1 DEF IsInjective
    <2> QED BY <1>5, <1>13, <2>1, <2>3, <2>4
  <1>17. Sorted(s) /\ (IsInjective(list) => StrictlySorted(s))
    BY <1>14, <1>16 DEF Sorted, StrictlySorted, D
  <1> QED BY <1>2, <1>14, <1>15, <1>17

Passed(s, i) == {s[j] : j \in 1..(i - 1)}

\* Where the merge may be in two sorted lists: what it passed in the first is in live
\* unless it is somewhere in the second, and what it passed in the second is smaller
\* than all that is left of the first.
Cursors(a, d) ==
    {c \in [ic : 1..(Len(a) + 1), id : 1..(Len(d) + 1), live : Seq(Range(a))] :
        /\ IsInjective(c.live)
        /\ Range(c.live) = Passed(a, c.ic) \ Range(d)
        /\ \A k \in 1..(c.id - 1), j \in c.ic..Len(a) : d[k] < a[j]}

\* One element further.
LEMMA PassedNext ==
    ASSUME NEW s \in Seq(Int), NEW i \in 1..Len(s)
    PROVE  Passed(s, i + 1) = Passed(s, i) \cup {s[i]}
  <1>1. 1..((i + 1) - 1) = 1..(i - 1) \cup {i}
    OBVIOUS
  <1> QED BY <1>1 DEF Passed

\* A turn keeps this, and gets ahead unless both lists have ended.
LEMMA MergeTurnRight ==
    ASSUME NEW a \in Seq(Int), StrictlySorted(a), NEW d \in Seq(Int), Sorted(d),
           NEW c \in Cursors(a, d)
    PROVE  /\ MergeTurn(a, d, c) \in Cursors(a, d)
           /\ \/ /\ c.ic = Len(a) + 1 /\ c.id = Len(d) + 1
                 /\ MergeTurn(a, d, c) = c
              \/ MergeTurn(a, d, c).ic + MergeTurn(a, d, c).id > c.ic + c.id
  <1> DEFINE ic == c.ic
             id == c.id
             na == Len(a)
             nd == Len(d)
             more == ic <= na
             moreDead == id <= nd
             alive == more /\ (moreDead => a[ic] < d[id])
             both == more /\ moreDead /\ a[ic] = d[id]
             unknown == moreDead /\ (more => d[id] < a[ic])
             e == MergeTurn(a, d, c)
  <1>1. /\ c \in [ic : 1..(na + 1), id : 1..(nd + 1), live : Seq(Range(a))]
        /\ IsInjective(c.live)
        /\ Range(c.live) = Passed(a, ic) \ Range(d)
        /\ \A k \in 1..(id - 1), j \in ic..na : d[k] < a[j]
    BY DEF Cursors
  <1>2. /\ ic \in 1..(na + 1) /\ id \in 1..(nd + 1)
        /\ na \in Nat /\ nd \in Nat
    BY <1>1, LenProperties
  <1>0. /\ DOMAIN a = 1..na /\ \A j \in 1..na : a[j] \in Int
        /\ DOMAIN d = 1..nd /\ \A k \in 1..nd : d[k] \in Int
        /\ c.live \in Seq(Range(a))
    BY <1>1, LenProperties
  <1>3. e = CASE alive -> [c EXCEPT !.ic = ic + 1, !.live = Append(c.live, a[ic])]
              [] both -> [c EXCEPT !.ic = ic + 1, !.id = id + 1]
              [] unknown -> [c EXCEPT !.id = id + 1]
              [] OTHER -> c
    BY Zenon DEF MergeTurn
  <1> HIDE DEF ic, id, na, nd, e
  <1>4. /\ more => ic \in 1..na /\ ic + 1 \in 1..(na + 1) /\ a[ic] \in Int
        /\ moreDead => id \in 1..nd /\ id + 1 \in 1..(nd + 1) /\ d[id] \in Int
    <2>1. /\ more => ic \in 1..na /\ ic + 1 \in 1..(na + 1)
          /\ moreDead => id \in 1..nd /\ id + 1 \in 1..(nd + 1)
      BY <1>2
    <2> QED BY <1>0, <2>1
  <1>5. /\ ~(alive /\ both) /\ ~(alive /\ unknown) /\ ~(both /\ unknown)
        /\ alive \/ both \/ unknown \/ (~more /\ ~moreDead)
    <2>1. \A x, y \in Int : /\ ~(x < y /\ y < x) /\ ~(x < y /\ x = y) /\ ~(y < x /\ x = y)
                            /\ x < y \/ y < x \/ x = y
      OBVIOUS
    <2> QED BY <1>4, <2>1
  <1>6. ASSUME more
        PROVE  /\ \A j \in (ic + 1)..na : j \in ic..na /\ a[ic] < a[j]
               /\ a[ic] \in Range(a) /\ a[ic] \notin Passed(a, ic)
               /\ Passed(a, ic + 1) = Passed(a, ic) \cup {a[ic]}
    <2>1. \A j \in (ic + 1)..na : j \in ic..na /\ j \in 1..na /\ ic < j
      BY <1>2
    <2>2. \A j \in (ic + 1)..na : a[ic] < a[j]
      BY <1>4, <1>6, <2>1 DEF StrictlySorted, na
    <2>3. ASSUME NEW j \in 1..(ic - 1) PROVE a[j] # a[ic]
      <3>1. j \in 1..na /\ j < ic
        BY <1>2
      <3>2. a[j] < a[ic] /\ a[j] \in Int
        BY <1>0, <1>4, <1>6, <3>1 DEF StrictlySorted, na
      <3> QED BY <1>4, <1>6, <3>2
    <2>4. a[ic] \notin Passed(a, ic)
      BY <2>3 DEF Passed
    <2>5. a[ic] \in Range(a)
      BY <1>0, <1>4, <1>6 DEF Range
    <2> QED BY <1>4, <1>6, <2>1, <2>2, <2>4, <2>5, PassedNext DEF na
  <1>7. ASSUME moreDead PROVE \A k \in 1..nd : k < id \/ d[id] <= d[k]
    <2> SUFFICES ASSUME NEW k \in 1..nd, ~(k < id) PROVE d[id] <= d[k]
      OBVIOUS
    <2>1. k = id \/ id < k
      BY <1>2
    <2>2. d[id] <= d[id]
      BY <1>4, <1>7
    <2> QED BY <1>4, <1>7, <2>1, <2>2 DEF Sorted, nd
  <1>8. CASE alive
    <2> DEFINE v == a[ic]
               live == Append(c.live, v)
    <2>1. e = [c EXCEPT !.ic = ic + 1, !.live = live]
      <3> HIDE DEF alive, both, unknown
      <3> QED BY <1>3, <1>5, <1>8
    <2>2. /\ v \in Range(a) /\ v \notin Passed(a, ic) /\ v \in Int
          /\ Passed(a, ic + 1) = Passed(a, ic) \cup {v}
      BY <1>4, <1>6, <1>8
    <2>3. v \notin Range(d)
      <3>1. ASSUME NEW k \in 1..nd PROVE d[k] # v
        <4>1. CASE k < id
          <5>1. k \in 1..(id - 1) /\ ic \in ic..na
            BY <1>2, <1>8, <4>1
          <5>2. d[k] < v
            BY <1>1, <5>1
          <5>3. d[k] \in Int
            BY <1>0
          <5> QED BY <2>2, <5>2, <5>3
        <4>2. CASE ~(k < id)
          <5>1. moreDead /\ d[id] <= d[k]
            <6>1. moreDead
              BY <1>2, <4>2
            <6> QED BY <1>7, <4>2, <6>1
          <5>2. v < d[id] /\ d[id] \in Int /\ d[k] \in Int
            BY <1>0, <1>4, <1>8, <5>1
          <5> QED BY <2>2, <5>1, <5>2
        <4> QED BY <4>1, <4>2
      <3> QED BY <1>0, <3>1 DEF Range
    <2> HIDE DEF v
    <2>4. /\ live \in Seq(Range(a)) /\ Range(live) = Range(c.live) \cup {v}
          /\ IsInjective(live)
      <3>1. v \notin Range(c.live)
        BY <1>1, <2>2
      <3> QED BY <1>0, <1>1, <2>2, <3>1, ListAppend
    <2> HIDE DEF live
    <2>5. Range(live) = Passed(a, ic + 1) \ Range(d)
      BY <1>1, <2>2, <2>3, <2>4
    <2>6. e.ic = ic + 1 /\ e.id = id /\ e.live = live
      BY <1>1, <2>1 DEF id
    <2>7. e \in [ic : 1..(na + 1), id : 1..(nd + 1), live : Seq(Range(a))]
      BY <1>1, <1>4, <1>8, <2>1, <2>4
    <2>8. \A k \in 1..(e.id - 1), j \in e.ic..na : d[k] < a[j]
      BY <1>1, <1>6, <1>8, <2>6
    <2>9. e \in Cursors(a, d)
      BY <2>4, <2>5, <2>6, <2>7, <2>8 DEF Cursors, ic, id, na, nd
    <2> QED BY <1>2, <2>6, <2>9 DEF e, ic, id, na, nd
  <1>9. CASE both
    <2>1. e = [c EXCEPT !.ic = ic + 1, !.id = id + 1]
      <3> HIDE DEF alive, both, unknown
      <3> QED BY <1>3, <1>5, <1>9
    <2>2. e.ic = ic + 1 /\ e.id = id + 1 /\ e.live = c.live
      BY <1>1, <2>1
    <2>3. e \in [ic : 1..(na + 1), id : 1..(nd + 1), live : Seq(Range(a))]
      BY <1>1, <1>4, <1>9, <2>1
    <2>4. Range(c.live) = Passed(a, ic + 1) \ Range(d)
      <3>1. a[ic] \in Range(d)
        BY <1>0, <1>4, <1>9 DEF Range
      <3> QED BY <1>1, <1>6, <1>9, <3>1
    <2>5. ASSUME NEW k \in 1..id, NEW j \in (ic + 1)..na PROVE d[k] < a[j]
      <3>1. j \in ic..na /\ a[ic] < a[j]
        BY <1>6, <1>9
      <3>2. CASE k = id
        BY <1>9, <3>1, <3>2
      <3>3. CASE k # id
        <4>1. k \in 1..(id - 1)
          BY <1>2, <3>3
        <4> QED BY <1>1, <3>1, <4>1
      <3> QED BY <3>2, <3>3
    <2>6. \A k \in 1..(e.id - 1), j \in e.ic..na : d[k] < a[j]
      <3>1. e.id - 1 = id
        BY <1>2, <2>2
      <3> QED BY <2>2, <2>5, <3>1
    <2>7. e \in Cursors(a, d)
      BY <1>1, <2>2, <2>3, <2>4, <2>6 DEF Cursors, ic, id, na, nd
    <2>8. (ic + 1) + (id + 1) > ic + id
      BY <1>2
    <2> QED BY <2>2, <2>7, <2>8 DEF e, ic, id
  <1>10. CASE unknown
    <2>1. e = [c EXCEPT !.id = id + 1]
      <3> HIDE DEF alive, both, unknown
      <3> QED BY <1>3, <1>5, <1>10
    <2>2. e.ic = ic /\ e.id = id + 1 /\ e.live = c.live
      BY <1>1, <2>1 DEF ic
    <2>3. e \in [ic : 1..(na + 1), id : 1..(nd + 1), live : Seq(Range(a))]
      BY <1>1, <1>4, <1>10, <2>1
    <2>4. ASSUME NEW k \in 1..id, NEW j \in ic..na PROVE d[k] < a[j]
      <3>1. CASE k = id
        <4>1. more /\ j \in 1..na /\ d[id] < a[ic] /\ (j = ic \/ j \in (ic + 1)..na)
          BY <1>2, <1>10
        <4>2. CASE j = ic
          BY <3>1, <4>1, <4>2
        <4>3. CASE j \in (ic + 1)..na
          <5>1. a[ic] < a[j] /\ a[ic] \in Int /\ a[j] \in Int /\ d[id] \in Int
            BY <1>0, <1>4, <1>6, <1>10, <4>1, <4>3
          <5>2. d[id] < a[ic]
            BY <4>1
          <5>3. \A x, y, z \in Int : x < y /\ y < z => x < z
            OBVIOUS
          <5>4. d[id] < a[j]
            BY <5>1, <5>2, <5>3, Zenon
          <5> QED BY <3>1, <5>4
        <4> QED BY <4>1, <4>2, <4>3
      <3>2. CASE k # id
        <4>1. k \in 1..(id - 1)
          BY <1>2, <3>2
        <4> QED BY <1>1, <4>1
      <3> QED BY <3>1, <3>2
    <2>5. \A k \in 1..(e.id - 1), j \in e.ic..na : d[k] < a[j]
      <3>1. e.id - 1 = id
        BY <1>2, <2>2
      <3> QED BY <2>2, <2>4, <3>1
    <2>6. e \in Cursors(a, d)
      BY <1>1, <2>2, <2>3, <2>5 DEF Cursors, ic, id, na, nd
    <2> QED BY <1>2, <2>2, <2>6 DEF e, ic, id, na, nd
  <1>11. CASE ~more /\ ~moreDead
    <2>1. e = c
      BY <1>3, <1>11
    <2> QED BY <1>2, <1>11, <2>1 DEF e, ic, id, na, nd
  <1> QED BY <1>5, <1>8, <1>9, <1>10, <1>11

\* The merge of two sorted lists, the first without repetitions, gives what only the
\* first has, each once.
LEMMA MergeRight ==
    ASSUME NEW a \in Seq(Int), StrictlySorted(a), NEW d \in Seq(Int), Sorted(d)
    PROVE  /\ Merge(a, d) \in Seq(Range(a))
           /\ Range(Merge(a, d)) = Range(a) \ Range(d)
           /\ IsInjective(Merge(a, d))
  <1> DEFINE n == Len(a) + Len(d)
             V == Cursors(a, d)
             base == [ic |-> 1, id |-> 1, live |-> <<>>]
             Body(f) == [t \in 0..n |-> IF t = 0 THEN base ELSE MergeTurn(a, d, f[t - 1])]
             G == [c \in V |-> MergeTurn(a, d, c)]
             at == CHOOSE f : f = Body(f)
  <1>0. Len(a) \in Nat /\ Len(d) \in Nat /\ n \in Nat
    BY LenProperties
  <1>1. base \in V
    <2>1. <<>> \in Seq(Range(a)) /\ Range(<<>>) = {} /\ IsInjective(<<>>)
      <3>1. <<>> \in Seq(Range(a)) /\ DOMAIN <<>> = {}
        OBVIOUS
      <3> QED BY <3>1 DEF Range, IsInjective
    <2>2. Passed(a, 1) = {} /\ 1..(1 - 1) = {}
      BY DEF Passed
    <2>3. 1 \in 1..(Len(a) + 1) /\ 1 \in 1..(Len(d) + 1)
      BY <1>0
    <2> QED BY <2>1, <2>2, <2>3 DEF Cursors
  <1>2. G \in [V -> V]
    BY MergeTurnRight
  <1>3. \A c \in V : G[c] = MergeTurn(a, d, c)
    OBVIOUS
  <1> HIDE DEF V, base, n, G
  <1>4. \E f : f = Body(f)
    <2>1. IterationsOf(V, G, base, n) # {}
      BY <1>0, <1>1, <1>2, IterationExists
    <2>2. PICK h \in [0..n -> V] : h[0] = base /\ \A i \in 1..n : h[i] = G[h[i - 1]]
      BY <2>1 DEF IterationsOf
    <2>3. ASSUME NEW t \in 0..n
          PROVE  h[t] = IF t = 0 THEN base ELSE MergeTurn(a, d, h[t - 1])
      <3>1. CASE t = 0
        BY <2>2, <3>1
      <3>2. CASE t # 0
        <4>1. t \in 1..n /\ t - 1 \in 0..n
          BY <1>0, <3>2
        <4> QED BY <1>3, <2>2, <3>2, <4>1
      <3> QED BY <3>1, <3>2
    <2>4. h = Body(h)
      BY <2>2, <2>3
    <2> QED BY <2>4
  <1>5. at = Body(at)
    <2> HIDE DEF Body
    <2> QED BY <1>4
  <1>6. Merge(a, d) = at[n].live
    BY DEF Merge, n, base
  <1> HIDE DEF at
  <1>7. at[0] = base /\ \A t \in 1..n : at[t] = MergeTurn(a, d, at[t - 1])
    <2>1. 0 \in 0..n /\ \A t \in 1..n : t \in 0..n /\ t # 0
      BY <1>0
    <2> QED BY <1>5, <2>1
  <1> DEFINE Ended(c) == c.ic = Len(a) + 1 /\ c.id = Len(d) + 1
             S == {t \in 0..n : at[t] \in V /\ (Ended(at[t]) \/ at[t].ic + at[t].id >= t + 2)}
  <1>8. 0 \in S
    BY <1>0, <1>1, <1>7 DEF base
  <1>9. ASSUME NEW t \in 1..n, t - 1 \in S PROVE t \in S
    <2> DEFINE c == at[t - 1]
               e == MergeTurn(a, d, c)
    <2>1. c \in V /\ (Ended(c) \/ c.ic + c.id >= (t - 1) + 2)
      BY <1>9
    <2>2. at[t] = e
      BY <1>7
    <2> HIDE DEF c, e
    <2>3. /\ e \in V
          /\ (Ended(c) /\ e = c) \/ e.ic + e.id > c.ic + c.id
      BY <2>1, MergeTurnRight DEF e, V
    <2>4. c.ic \in Int /\ c.id \in Int /\ e.ic \in Int /\ e.id \in Int
      BY <2>1, <2>3 DEF V, Cursors
    <2>5. \A ic \in 1..(Len(a) + 1), id \in 1..(Len(d) + 1) :
             ic + id > Len(a) + 1 + (Len(d) + 1) => FALSE
      BY <1>0
    <2>6. e.ic \in 1..(Len(a) + 1) /\ e.id \in 1..(Len(d) + 1)
      BY <2>3 DEF V, Cursors
    <2>7. Ended(e) \/ e.ic + e.id >= t + 2
      <3>1. CASE Ended(c)
        <4>1. e = c
          BY <1>0, <2>3, <2>5, <2>6, <3>1
        <4> QED BY <3>1, <4>1
      <3>2. CASE c.ic + c.id >= (t - 1) + 2 /\ ~Ended(c)
        <4>1. e.ic + e.id > c.ic + c.id
          BY <2>3, <3>2
        <4>2. \A w, x, y, z \in Int : w + x >= (t - 1) + 2 /\ y + z > w + x => y + z >= t + 2
          BY <1>0
        <4>3. e.ic + e.id >= t + 2
          BY <2>4, <3>2, <4>1, <4>2
        <4> QED BY <4>3
      <3> QED BY <2>1, <3>1, <3>2
    <2>8. t \in 0..n
      BY <1>0
    <2>9. at[t] \in V /\ (Ended(at[t]) \/ at[t].ic + at[t].id >= t + 2)
      BY <2>2, <2>3, <2>7
    <2> QED BY <2>8, <2>9
  <1>10. n \in S
    <2> HIDE DEF S
    <2>1. 0..n \subseteq S
      BY <1>0, <1>8, <1>9, IntervalInduction
    <2> QED BY <1>0, <2>1
  <1> DEFINE c == at[n]
  <1>11. /\ c \in [ic : 1..(Len(a) + 1), id : 1..(Len(d) + 1), live : Seq(Range(a))]
         /\ IsInjective(c.live)
         /\ Range(c.live) = Passed(a, c.ic) \ Range(d)
    BY <1>10 DEF V, Cursors
  <1>12. c.ic = Len(a) + 1
    <2>1. Ended(c) \/ c.ic + c.id >= n + 2
      BY <1>10
    <2> HIDE DEF c
    <2>2. c.ic \in 1..(Len(a) + 1) /\ c.id \in 1..(Len(d) + 1)
      BY <1>11
    <2>3. \A ic \in 1..(Len(a) + 1), id \in 1..(Len(d) + 1) :
            ic + id >= n + 2 => ic = Len(a) + 1 /\ id = Len(d) + 1
      BY <1>0 DEF n
    <2> QED BY <2>1, <2>2, <2>3
  <1>13. Passed(a, Len(a) + 1) = Range(a)
    <2>1. DOMAIN a = 1..Len(a) /\ (Len(a) + 1) - 1 = Len(a)
      BY <1>0
    <2> QED BY <2>1 DEF Passed, Range
  <1> QED BY <1>6, <1>11, <1>12, <1>13

\* So tbdd_done deletes just the clauses that are not dead, in whatever order the dead
\* ones came.
LEMMA LiveUnitClauses ==
    ASSUME NEW a \in Seq(Int), IsInjective(a), NEW d \in Seq(Int)
    PROVE  /\ live_unit_clauses(a, d) \in Seq(Range(a))
           /\ Range(live_unit_clauses(a, d)) = Range(a) \ Range(d)
           /\ IsInjective(live_unit_clauses(a, d))
  <1> DEFINE b == ilist_sort(a)
             e == ilist_sort(d)
  <1>1. /\ b \in Seq(Int) /\ StrictlySorted(b) /\ Range(b) = Range(a)
        /\ e \in Seq(Int) /\ Sorted(e) /\ Range(e) = Range(d)
    BY SortRight
  <1>2. live_unit_clauses(a, d) = Merge(b, e)
    BY DEF live_unit_clauses
  <1> HIDE DEF b, e
  <1> QED BY <1>1, <1>2, MergeRight

----------------------------------------------------------------------------
(* The inductive invariant.                                                *)

IInv ==
    /\ TypeOK
    /\ running => created \ dead \subseteq units
    /\ running => Shared(slot, rc, units)
    /\ ~running => units \subseteq dead

\* Nothing is held at first.
LEMMA InitIInv == Init => IInv
  <1> SUFFICES ASSUME Init PROVE IInv
    OBVIOUS
  <1>1. Shared(slot, rc, units)
    <2>1. slot = [s \in Slots |-> NoTbdd] /\ rc = rc_init
      BY DEF Init
    <2>2. \A i \in Nat : HoldersIn(slot, i) = {}
      BY <2>1, NoTbddFacts DEF HoldersIn
    <2>3. \A s \in Slots : slot[s] = NoTbdd /\ slot[s].rc_index \notin Nat
      BY <2>1, NoTbddFacts
    <2>4. slot \in [Slots -> Tbdd \cup {NoTbdd}]
      BY <2>1
    <2>5. WellFormed(rc, {})
      BY <2>1, InitWellFormed
    <2> QED BY <2>2, <2>3, <2>4, <2>5 DEF Shared
  <1>2. created = {} /\ refcou \in [Nodes -> 0..MaxRef]
    <2>1. {0, MaxRef} \subseteq 0..MaxRef
      BY ConstantsAssumption
    <2>2. created = {}
      BY DEF Init, created
    <2> QED BY <2>1, <2>2 DEF Init
  <1>3. TypeOK
    <2>1. /\ counter \in Nat /\ running \in BOOLEAN /\ units = {}
          /\ dead_unit_clauses = <<>> /\ deletion = <<>>
      BY DEF Init
    <2>2. <<>> \in Seq(created)
      BY ShortLists
    <2> QED BY <1>1, <1>2, <2>1, <2>2, SharedType DEF TypeOK
  <1> QED BY <1>1, <1>2, <1>3 DEF Init, IInv

\* What the lists are made of.
LEMMA ListTypes ==
    ASSUME IInv
    PROVE  /\ dead_unit_clauses \in Seq(created) /\ deletion \in Seq(created)
           /\ dead \subseteq created /\ gone \subseteq created
           /\ \A S : created \subseteq S => dead_unit_clauses \in Seq(S)
           /\ \A S : <<>> \in Seq(S)
  <1>1. dead_unit_clauses \in Seq(created) /\ deletion \in Seq(created)
    BY DEF IInv, TypeOK
  <1> QED BY <1>1, ListElements, ShortLists DEF dead, gone

\* While the package runs, a step that keeps the slots shared and the clauses
\* accounted for keeps the invariant.
LEMMA RunningStep ==
    ASSUME IInv, running, running',
           Shared(slot, rc, units)',
           refcou' \in [Nodes -> 0..MaxRef],
           counter' \in Nat,
           dead_unit_clauses' \in Seq(created'), deletion' \in Seq(created'),
           units' \subseteq created',
           created' \ dead' \subseteq units'
    PROVE  IInv'
  <1>1. TypeOK'
    BY SharedType DEF TypeOK, IInv
  <1> QED BY <1>1 DEF IInv

\* A trusted BDD with a new clause (tbdd_create).
LEMMA CreateProvedStep ==
    ASSUME IInv, NEW s \in Slots, NEW r \in Roots, CreateProved(s, r)
    PROVE  IInv'
  <1>1. /\ running /\ running' /\ Shared(slot, rc, units) /\ counter \in Nat
        /\ units \subseteq created /\ created \ dead \subseteq units
        /\ refcou \in [Nodes -> 0..MaxRef]
    BY DEF IInv, TypeOK, CreateProved
  <1>2. created' = created \cup {counter + 1} /\ counter + 1 \in Nat \ {TAUTOLOGY}
    BY <1>1 DEF created, CreateProved, TAUTOLOGY
  <1>3. \A t \in Slots : slot[t].clause_id # counter + 1
    <2>1. \A t \in Slots : slot[t] # NoTbdd /\ slot[t].clause_id # TAUTOLOGY =>
                              slot[t].clause_id \in 1..counter
      BY <1>1 DEF Shared, created
    <2>2. NoTbdd.clause_id = 0
      BY DEF NoTbdd
    <2> QED BY <1>1, <2>1, <2>2 DEF TAUTOLOGY
  <1>4. Shared(slot, rc, units)'
    BY <1>1, <1>2, <1>3, CreateShared DEF CreateProved
  <1>5. refcou' \in [Nodes -> 0..MaxRef]
    BY <1>1, RefcouType DEF CreateProved
  <1>6. /\ dead' = dead /\ units' = units \cup {counter + 1} /\ counter' \in Nat
        /\ dead_unit_clauses' \in Seq(created') /\ deletion' \in Seq(created')
    BY <1>1, <1>2, ListTypes DEF CreateProved, dead
  <1> QED BY <1>1, <1>2, <1>4, <1>5, <1>6, RunningStep

\* A trusted BDD without a clause (tbdd_create).
LEMMA CreateUnprovedStep ==
    ASSUME IInv, NEW s \in Slots, NEW r \in Roots, CreateUnproved(s, r)
    PROVE  IInv'
  <1>1. Shared(slot, rc, units)'
    BY CreateUnprovedShared DEF CreateUnproved, IInv
  <1>2. refcou' \in [Nodes -> 0..MaxRef]
    BY RefcouType DEF CreateUnproved, IInv, TypeOK
  <1>3. /\ running /\ running' /\ created' = created /\ dead' = dead /\ units' = units
        /\ counter' = counter
        /\ dead_unit_clauses' \in Seq(created') /\ deletion' \in Seq(created')
    BY ListTypes DEF CreateUnproved, created, dead
  <1> QED BY <1>1, <1>2, <1>3, RunningStep DEF IInv, TypeOK

\* A copy (tbdd_addref).
LEMMA CopyStep ==
    ASSUME IInv, NEW s \in Slots, NEW t \in Slots, Copy(s, t)
    PROVE  IInv'
  <1>1. Shared(slot, rc, units)'
    BY CopyShared DEF Copy, Held, IInv
  <1>2. refcou' \in [Nodes -> 0..MaxRef]
    BY RefcouType DEF Copy, IInv, TypeOK
  <1>3. /\ running /\ running' /\ created' = created /\ dead' = dead /\ units' = units
        /\ counter' = counter
        /\ dead_unit_clauses' \in Seq(created') /\ deletion' \in Seq(created')
    BY ListTypes DEF Copy, created, dead
  <1> QED BY <1>1, <1>2, <1>3, RunningStep DEF IInv, TypeOK

\* What DropClause does to the clauses: it hands over at most the one clause h
\* justifies, which was still there, and leaves every other accounted for.
LEMMA DropClauseFacts ==
    ASSUME IInv, running, NEW s \in Held, DropClause(slot[s])
    PROVE  /\ units' = LeftOver(rc, units, slot[s])
           /\ gone' \subseteq units /\ IsInjective(deletion') /\ deletion' \in Seq(created)
           /\ dead_unit_clauses' \in Seq(created)
           /\ dead' = IF LastCopy(rc, slot[s].rc_index)
                      THEN dead \cup {slot[s].clause_id} ELSE dead
           /\ created \ dead' \subseteq units'
  <1> DEFINE id == slot[s].clause_id
  <1>1. /\ Shared(slot, rc, units) /\ units \subseteq created /\ dead \subseteq created
        /\ created \ dead \subseteq units /\ s \in Slots /\ slot[s] # NoTbdd
        /\ dead_unit_clauses \in Seq(created)
    BY ListTypes DEF IInv, TypeOK, Held
  <1>2. CASE LastCopy(rc, slot[s].rc_index)
    <2>1. id \in units /\ id \in created
      BY <1>1, <1>2 DEF Shared, LastCopy
    <2>2. /\ deletion' = IF slot[s].root = 0 THEN <<>> ELSE <<id>>
          /\ units' = units \ gone' /\ dead_unit_clauses' = Append(dead_unit_clauses, id)
      BY <1>2 DEF DropClause
    <2> HIDE DEF id
    <2>3. dead_unit_clauses' \in Seq(created) /\ dead' = dead \cup {id}
      BY <1>1, <2>1, <2>2, ListAppend DEF dead
    <2>4. /\ gone' = IF slot[s].root = 0 THEN {} ELSE {id}
          /\ IsInjective(deletion') /\ deletion' \in Seq(created)
      BY <2>1, <2>2, ShortLists DEF gone
    <2>5. units' = LeftOver(rc, units, slot[s])
      BY <1>2, <2>2, <2>4 DEF LeftOver, id
    <2> QED BY <1>1, <1>2, <2>1, <2>2, <2>3, <2>4, <2>5 DEF id
  <1>3. CASE ~LastCopy(rc, slot[s].rc_index)
    <2>1. deletion' = <<>> /\ units' = units /\ dead_unit_clauses' = dead_unit_clauses
      BY <1>3 DEF DropClause
    <2>2. gone' = {} /\ dead' = dead /\ IsInjective(deletion') /\ deletion' \in Seq(created)
      BY <2>1, ShortLists DEF gone, dead
    <2> QED BY <1>1, <1>3, <2>1, <2>2 DEF LeftOver
  <1> QED BY <1>2, <1>3

\* A destructor (tbdd_delref).
LEMMA DestroyStep ==
    ASSUME IInv, NEW s \in Slots, Destroy(s)
    PROVE  IInv'
  <1>1. /\ running /\ running' /\ s \in Held /\ slot[s] # NoTbdd /\ DropClause(slot[s])
        /\ created' = created /\ counter' = counter
    BY DEF Destroy, Held, created
  <1>2. /\ units' = LeftOver(rc, units, slot[s]) /\ gone' \subseteq units
        /\ dead_unit_clauses' \in Seq(created) /\ deletion' \in Seq(created)
        /\ created \ dead' \subseteq units'
    BY <1>1, DropClauseFacts
  <1>3. Shared(slot, rc, units)'
    BY <1>1, <1>2, ReleaseShared DEF Destroy, IInv
  <1>4. refcou' \in [Nodes -> 0..MaxRef]
    BY RefcouType DEF Destroy, IInv, TypeOK
  <1>5. units \subseteq created /\ units' \subseteq units /\ counter \in Nat
    BY <1>2 DEF IInv, TypeOK, LeftOver
  <1> QED BY <1>1, <1>2, <1>3, <1>4, <1>5, RunningStep

\* An assignment is a destruction followed by a copy.
LEMMA AssignStep ==
    ASSUME IInv, NEW s \in Slots, NEW t \in Slots, Assign(s, t)
    PROVE  IInv'
  <1>1. /\ running /\ running' /\ s \in Held /\ slot[s] # NoTbdd /\ slot[t] # NoTbdd
        /\ DropClause(slot[s]) /\ s # t
        /\ created' = created /\ counter' = counter
    BY DEF Assign, Held, created
  <1>2. /\ units' = LeftOver(rc, units, slot[s]) /\ gone' \subseteq units
        /\ dead_unit_clauses' \in Seq(created) /\ deletion' \in Seq(created)
        /\ created \ dead' \subseteq units'
    BY <1>1, DropClauseFacts
  <1>3. Shared(slot, rc, units)'
    <2> DEFINE mid == [slot EXCEPT ![s] = NoTbdd]
               left == rc_release(rc, slot[s].rc_index)
    <2>1. Shared(mid, left, units')
      BY <1>1, <1>2, ReleaseShared DEF IInv
    <2>2. slot \in [Slots -> Tbdd \cup {NoTbdd}]
      BY DEF IInv, TypeOK
    <2>3. mid[s] = NoTbdd /\ mid[t] = slot[t]
      BY <1>1, <2>2
    <2>4. [mid EXCEPT ![s] = mid[t]] = slot'
      BY <1>1, <2>2, <2>3 DEF Assign
    <2>5. rc_increment(left, mid[t].rc_index) = rc'
      BY <2>3 DEF Assign
    <2> HIDE DEF mid, left
    <2>6. Shared([mid EXCEPT ![s] = mid[t]], rc_increment(left, mid[t].rc_index), units')
      BY <1>1, <2>1, <2>3, CopyShared
    <2> QED BY <2>4, <2>5, <2>6
  <1>4. refcou' \in [Nodes -> 0..MaxRef]
    <2>1. refcou \in [Nodes -> 0..MaxRef]
      BY DEF IInv, TypeOK
    <2>2. bdd_addref(bdd_delref(refcou, slot[s].root), slot[t].root) \in [Nodes -> 0..MaxRef]
      BY <2>1, RefcouType
    <2> QED BY <2>2, RefcouType DEF Assign, Temporary
  <1>5. units \subseteq created /\ units' \subseteq units /\ counter \in Nat
    BY <1>2 DEF IInv, TypeOK, LeftOver
  <1> QED BY <1>1, <1>2, <1>3, <1>4, <1>5, RunningStep

\* An assignment between equal roots (operator=).
LEMMA AssignSameStep ==
    ASSUME IInv, NEW s \in Slots, NEW t \in Slots, AssignSame(s, t)
    PROVE  IInv'
  <1>1. refcou' \in [Nodes -> 0..MaxRef]
    BY RefcouType DEF AssignSame, Temporary, IInv, TypeOK
  <1>2. Shared(slot, rc, units)'
    BY DEF AssignSame, IInv
  <1>3. /\ running /\ running' /\ created' = created /\ dead' = dead /\ units' = units
        /\ counter' = counter
        /\ dead_unit_clauses' \in Seq(created') /\ deletion' \in Seq(created')
    BY ListTypes DEF AssignSame, created, dead
  <1> QED BY <1>1, <1>2, <1>3, RunningStep DEF IInv, TypeOK

\* A destructor after tbdd_done.
LEMMA DestroyLateStep ==
    ASSUME IInv, NEW s \in Slots, DestroyLate(s)
    PROVE  IInv'
  <1>1. slot' \in [Slots -> Tbdd \cup {NoTbdd}]
    BY DEF DestroyLate, IInv, TypeOK
  <1>2. /\ running' = running /\ ~running /\ deletion' = <<>>
        /\ rc' = rc /\ refcou' = refcou /\ counter' = counter /\ created' = created
        /\ dead_unit_clauses' = dead_unit_clauses /\ dead' = dead /\ units' = units
    BY DEF DestroyLate, created, dead
  <1>3. TypeOK'
    BY <1>1, <1>2, ListTypes DEF IInv, TypeOK
  <1>4. ~running'
    BY <1>2
  <1>5. units' \subseteq dead'
    BY <1>2 DEF IInv
  <1>6. /\ running' => created' \ dead' \subseteq units'
        /\ running' => Shared(slot, rc, units)'
    BY <1>4
  <1> QED BY <1>3, <1>4, <1>5, <1>6, Zenon DEF IInv

\* What the merge hands to delete_clauses: what was created and is not dead, each once.
LEMMA DoneFacts ==
    ASSUME IInv, Done
    PROVE  /\ gone' = created \ dead
           /\ deletion' \in Seq(created) /\ IsInjective(deletion')
  <1> DEFINE a == created_unit_clauses
             d == dead_unit_clauses
  <1>1. a \in Seq(Int) /\ IsInjective(a) /\ Range(a) = created
    <2>1. counter \in Nat
      BY DEF IInv, TypeOK
    <2>2. a = [i \in 1..counter |-> i]
      BY DEF created_unit_clauses
    <2>3. a \in [1..counter -> Int] /\ DOMAIN a = 1..counter /\ \A i \in 1..counter : a[i] = i
      BY <2>1, <2>2
    <2> HIDE DEF a
    <2>4. a \in Seq(Int)
      BY <2>1, <2>3, SeqDef
    <2> QED BY <2>3, <2>4 DEF IsInjective, Range, created
  <1>2. d \in Seq(Int)
    <2>1. created \subseteq Int
      BY DEF created, IInv, TypeOK
    <2> QED BY <2>1, ListTypes
  <1>3. deletion' = live_unit_clauses(a, d)
    BY DEF Done
  <1> HIDE DEF a, d
  <1>4. /\ deletion' \in Seq(Range(a)) /\ IsInjective(deletion')
        /\ gone' = Range(a) \ Range(d)
    BY <1>1, <1>2, <1>3, LiveUnitClauses DEF gone
  <1> QED BY <1>1, <1>4 DEF dead, d

\* The end of the session (tbdd_done).
LEMMA DoneStep ==
    ASSUME IInv, Done
    PROVE  IInv'
  <1>1. /\ running' = FALSE /\ gone' = created \ dead /\ units' = units \ gone'
        /\ slot' = slot /\ rc' = rc /\ refcou' = refcou /\ counter' = counter
        /\ dead_unit_clauses' = dead_unit_clauses /\ deletion' \in Seq(created)
        /\ dead' = dead /\ created' = created
    BY DoneFacts DEF Done, created, dead
  <1>2. TypeOK'
    BY <1>1 DEF IInv, TypeOK
  <1>3. ~running' /\ (running' => created' \ dead' \subseteq units')
    BY <1>1
  <1>4. units' \subseteq dead'
    BY <1>1 DEF IInv, TypeOK
  <1>5. running' => Shared(slot, rc, units)'
    BY <1>3
  <1> QED BY <1>2, <1>3, <1>4, <1>5, Zenon DEF IInv

\* The invariant is inductive.
LEMMA NextIInv == IInv /\ [Next]_vars => IInv'
  <1> SUFFICES ASSUME IInv, [Next]_vars PROVE IInv'
    OBVIOUS
  <1>1. ASSUME NEW s \in Slots, NEW r \in Roots, CreateProved(s, r) PROVE IInv'
    BY <1>1, CreateProvedStep
  <1>2. ASSUME NEW s \in Slots, NEW r \in Roots, CreateUnproved(s, r) PROVE IInv'
    BY <1>2, CreateUnprovedStep
  <1>3. ASSUME NEW s \in Slots, NEW t \in Slots, Copy(s, t) PROVE IInv'
    BY <1>3, CopyStep
  <1>4. ASSUME NEW s \in Slots, NEW t \in Slots, Assign(s, t) PROVE IInv'
    BY <1>4, AssignStep
  <1>5. ASSUME NEW s \in Slots, NEW t \in Slots, AssignSame(s, t) PROVE IInv'
    BY <1>5, AssignSameStep
  <1>6. ASSUME NEW s \in Slots, Destroy(s) PROVE IInv'
    BY <1>6, DestroyStep
  <1>7. ASSUME NEW s \in Slots, DestroyLate(s) PROVE IInv'
    BY <1>7, DestroyLateStep
  <1>8. CASE Done
    BY <1>8, DoneStep
  <1>9. CASE UNCHANGED vars
    <2>1. /\ slot' = slot /\ rc' = rc /\ refcou' = refcou /\ counter' = counter
          /\ dead_unit_clauses' = dead_unit_clauses /\ dead' = dead
          /\ units' = units /\ deletion' = deletion /\ running' = running
          /\ created' = created
      BY <1>9 DEF vars, created, dead
    <2>2. TypeOK'
      BY <2>1 DEF IInv, TypeOK
    <2> QED BY <2>1, <2>2 DEF IInv
  <1> QED BY <1>1, <1>2, <1>3, <1>4, <1>5, <1>6, <1>7, <1>8, <1>9 DEF Next

\* So the invariant holds in every reachable state.
LEMMA SpecIInv == Spec => []IInv
  BY InitIInv, NextIInv, PTL DEF Spec

----------------------------------------------------------------------------
(* The theorems.                                                           *)

\* Every variable has its type in every state of every behaviour.
THEOREM TypeCorrect == Spec => []TypeOK
  <1>1. IInv => TypeOK
    BY DEF IInv
  <1> QED BY <1>1, SpecIInv, PTL

\* While a copy of a trusted BDD is held its unit clause has not been deleted
\* (tbdd_delref), whatever the slots, the nodes and the size of the table.
THEOREM ClauseOutlivesCopies == Spec => []ClauseWhileHeld
  <1>1. IInv => ClauseWhileHeld
    BY DEF IInv, ClauseWhileHeld, Shared, Held
  <1> QED BY <1>1, SpecIInv, PTL

\* The count kept for a unit clause is the number of its copies (rc_table).
THEOREM CountsAreExact == Spec => []CountsExact
  <1>1. IInv => CountsExact
    <2> SUFFICES ASSUME IInv, running, NEW i \in 0..(rc.allocated - 1), Holders(i) # {}
                 PROVE  rc.table[i] = Cardinality(Holders(i))
      BY DEF CountsExact
    <2>1. Holders(i) = HoldersIn(slot, i)
      BY DEF Holders, HoldersIn
    <2>2. i \in Nat
      BY DEF IInv, TypeOK
    <2> QED BY <2>1, <2>2 DEF IInv, Shared
  <1> QED BY <1>1, SpecIInv, PTL

\* tbdd_done leaves no unit clause behind except a dead empty one: its merge of the
\* sorted lists, turn by turn, passes over none that is alive, however many clauses there
\* are and in whatever order they died (MergeRight).
THEOREM NothingIsLeaked == Spec => []NothingLeaks
  <1>1. IInv => NothingLeaks
    BY DEF IInv, NothingLeaks
  <1> QED BY <1>1, SpecIInv, PTL

\* No unit clause is handed to delete_clauses twice, by two steps or in the one list that
\* the merge of tbdd_done makes (tbdd_delref, tbdd_done).
THEOREM NothingIsDeletedTwice == Spec => DeletedOnce
  <1>1. IInv /\ [Next]_vars => [gone' \subseteq units /\ IsInjective(deletion')]_vars
    <2> DEFINE Once == gone' \subseteq units /\ IsInjective(deletion')
    <2> SUFFICES ASSUME IInv, Next PROVE Once
      OBVIOUS
    <2>1. ASSUME NEW s \in Slots, Destroy(s) PROVE Once
      BY <2>1, DropClauseFacts DEF Destroy
    <2>2. ASSUME NEW s \in Slots, NEW t \in Slots, Assign(s, t) PROVE Once
      BY <2>2, DropClauseFacts DEF Assign
    <2>3. CASE Done
      <3>1. running
        BY <2>3 DEF Done
      <3> QED BY <2>3, <3>1, DoneFacts DEF IInv
    <2>4. ASSUME deletion' = <<>> PROVE Once
      BY <2>4, ShortLists DEF gone
    <2> HIDE DEF Once
    <2> QED BY <2>1, <2>2, <2>3, <2>4
            DEF Next, CreateProved, CreateUnproved, Copy, AssignSame, DestroyLate
  <1> QED BY <1>1, SpecIInv, PTL DEF Spec, DeletedOnce
----------------------------------------------------------------------------
(* The free list, enumerated.                                              *)

FreeList(t, free) == Linked(t.table, -1, t.freepos, free)

\* The initial list has every entry (rc_init).
LEMMA InitFreeList == FreeList(rc_init, 0..(InitSize - 1))
<1> DEFINE k == InitSize
           e == [n \in 0..k |-> IF n = k THEN -1 ELSE n]
<1>1. k \in Nat \ {0} BY InitSizeAssumption
<1>2. rc_init.freepos = 0 /\ \A i \in 0..(k - 1) : rc_init.table[i] = IF i = k - 1 THEN -1 ELSE i + 1
  BY DEF rc_init, ChainFrom
<1> HIDE DEF k
<1>3. e \in [0..k -> Int] BY <1>1
<1>4. e[0] = 0 /\ e[k] = -1 BY <1>1
<1>5. \A n \in 0..(k - 1) : e[n] = n /\ e[n + 1] = IF n = k - 1 THEN -1 ELSE n + 1 BY <1>1
<1> HIDE DEF e
<1>6. LinkedBy(rc_init.table, -1, rc_init.freepos, 0..(k - 1), k, e) BY <1>1, <1>2, <1>4, <1>5 DEF LinkedBy
<1> QED BY <1>1, <1>3, <1>6 DEF FreeList, Linked, k

\* The list of an exhausted table is empty, and growing lists the new entries (rc_grow).
LEMMA GrowFreeList ==
  ASSUME NEW t, t.allocated \in Nat \ {0}, NEW free \in SUBSET Nat, FreeList(t, free),
         t.freepos = -1
  PROVE  /\ free = {}
         /\ FreeList(rc_grow(t), t.allocated..(t.allocated * 2 - 1))
<1> DEFINE a == t.allocated
           g == rc_grow(t)
           e == [n \in 0..a |-> IF n = a THEN -1 ELSE a + n]
<1>1. free = {} BY LinkedEmpty DEF FreeList
<1>2. a \in Nat \ {0} OBVIOUS
<1>3. g.freepos = a /\ \A i \in a..(a * 2 - 1) : g.table[i] = IF i = a * 2 - 1 THEN -1 ELSE i + 1
  <2>1. g.freepos = a /\ g.table = [i \in 0..(a * 2 - 1) |->
                        IF i < a THEN t.table[i] ELSE ChainFrom(a, a * 2)[i]]
    BY DEF rc_grow
  <2>2. \A i \in a..(a * 2 - 1) : ChainFrom(a, a * 2)[i] = IF i = a * 2 - 1 THEN -1 ELSE i + 1
    BY <1>2 DEF ChainFrom
  <2> HIDE DEF g
  <2> QED BY <1>2, <2>1, <2>2
<1> HIDE DEF a, g
<1>4. e \in [0..a -> Int] BY <1>2
<1>5. e[0] = a /\ e[a] = -1 BY <1>2
<1>6. \A n \in 0..(a - 1) :
        /\ e[n] = a + n /\ a + n \in a..(a * 2 - 1)
        /\ e[n + 1] = IF a + n = a * 2 - 1 THEN -1 ELSE a + n + 1
  BY <1>2
<1>7. \A i \in a..(a * 2 - 1) : i - a \in 0..(a - 1) /\ a + (i - a) = i BY <1>2
<1> HIDE DEF e
<1>8. \A n \in 0..(a - 1) : e[n + 1] = g.table[e[n]] BY <1>3, <1>6
<1>9. \A i \in a..(a * 2 - 1) : \E n \in 0..(a - 1) : e[n] = i BY <1>6, <1>7
<1>10. \A m, n \in 0..(a - 1) : e[m] = e[n] => m = n
  <2> TAKE m, n \in 0..(a - 1)
  <2>1. e[m] = a + m /\ e[n] = a + n BY <1>6
  <2> QED BY <1>2, <2>1
<1>11. LinkedBy(g.table, -1, g.freepos, a..(a * 2 - 1), a, e)
  BY <1>3, <1>5, <1>6, <1>8, <1>9, <1>10 DEF LinkedBy
<1> QED BY <1>1, <1>2, <1>4, <1>11 DEF FreeList, Linked, a, g

Visited(t, free) ==
    LET after[n \in 0..Cardinality(free)] ==
            IF n = 0 THEN t.freepos
            ELSE IF after[n - 1] = -1 THEN -1 ELSE t.table[after[n - 1]]
    IN  /\ {after[n] : n \in DOMAIN after} = free \cup {-1}
        /\ after[Cardinality(free)] = -1

\* Following the links from freepos visits the free entries, each once, and ends.
LEMMA ListVisited ==
  ASSUME NEW t, NEW free \in SUBSET Nat, FreeList(t, free)
  PROVE  Visited(t, free)
<1>1. PICK k \in Nat : \E d \in [0..k -> Int] : LinkedBy(t.table, -1, t.freepos, free, k, d) BY DEF FreeList, Linked
<1>2. PICK e \in [0..k -> Int] : LinkedBy(t.table, -1, t.freepos, free, k, e) BY <1>1
<1>3. Cardinality(free) = k BY <1>2, LinkedLength
<1> DEFINE Body(f) == [n \in 0..Cardinality(free) |->
                         IF n = 0 THEN t.freepos
                         ELSE IF f[n - 1] = -1 THEN -1 ELSE t.table[f[n - 1]]]
           after == CHOOSE f : f = Body(f)
<1>4. \A n \in 1..k : e[n - 1] # -1 /\ e[n] = t.table[e[n - 1]]
  <2> SUFFICES ASSUME NEW n \in 1..k PROVE e[n - 1] # -1 /\ e[n] = t.table[e[n - 1]] OBVIOUS
  <2>1. n - 1 \in 0..(k - 1) /\ (n - 1) + 1 = n OBVIOUS
  <2>2. e[n - 1] \in free /\ e[(n - 1) + 1] = t.table[e[n - 1]] BY <1>2, <2>1 DEF LinkedBy
  <2> QED BY <2>1, <2>2
<1>5. e[0] = t.freepos /\ e[k] = -1 BY <1>2 DEF LinkedBy
<1>6. e = Body(e)
  <2>1. \A n \in 0..k : e[n] = IF n = 0 THEN t.freepos
                               ELSE IF e[n - 1] = -1 THEN -1 ELSE t.table[e[n - 1]]
    BY <1>4, <1>5
  <2> QED BY <1>3, <2>1
<1>7. after = Body(after)
  <2> HIDE DEF Body
  <2> QED BY <1>6
<1> HIDE DEF after
<1>8. /\ after = [n \in 0..k |-> IF n = 0 THEN t.freepos
                                 ELSE IF after[n - 1] = -1 THEN -1 ELSE t.table[after[n - 1]]]
  BY <1>3, <1>7
<1>9. /\ DOMAIN after = 0..k /\ after[0] = t.freepos
      /\ \A n \in 1..k : after[n] = IF after[n - 1] = -1 THEN -1 ELSE t.table[after[n - 1]]
  BY <1>8
<1> DEFINE S == {n \in 0..k : after[n] = e[n]}
<1>10. 0 \in S BY <1>5, <1>9
<1>11. ASSUME NEW n \in 1..k, n - 1 \in S PROVE n \in S
  <2>1. after[n - 1] = e[n - 1] BY <1>11
  <2>2. after[n] = IF after[n - 1] = -1 THEN -1 ELSE t.table[after[n - 1]] BY <1>9
  <2>3. after[n] = e[n] BY <1>4, <2>1, <2>2
  <2> QED BY <2>3
<1>12. \A n \in 0..k : after[n] = e[n]
  <2>1. 0..k \subseteq S
    <3> HIDE DEF S
    <3> QED BY <1>10, <1>11, IntervalInduction
  <2> QED BY <2>1
<1>13. after[k] = -1 BY <1>5, <1>12
<1>14. \A n \in 0..k : after[n] \in free \cup {-1}
  <2> SUFFICES ASSUME NEW n \in 0..k, n # k PROVE after[n] \in free BY <1>13
  <2>1. n \in 0..(k - 1) OBVIOUS
  <2> QED BY <1>2, <1>12, <2>1 DEF LinkedBy
<1>15. \A i \in free \cup {-1} : \E n \in 0..k : after[n] = i
  <2> SUFFICES ASSUME NEW i \in free PROVE \E n \in 0..k : after[n] = i BY <1>13
  <2>1. PICK n \in 0..(k - 1) : e[n] = i BY <1>2 DEF LinkedBy
  <2> QED BY <1>12, <2>1
<1>16. {after[n] : n \in DOMAIN after} = free \cup {-1}
  <2>1. ASSUME NEW i \in {after[n] : n \in 0..k} PROVE i \in free \cup {-1} BY <1>14
  <2>2. ASSUME NEW i \in free \cup {-1} PROVE i \in {after[n] : n \in 0..k} BY <1>15
  <2>3. {after[n] : n \in 0..k} = free \cup {-1} BY <2>1, <2>2
  <2>4. DOMAIN after = 0..k BY <1>9
  <2> QED BY <2>3, <2>4
<1>17. after[Cardinality(free)] = -1 BY <1>3, <1>13
<1> QED BY <1>16, <1>17 DEF after, Visited

----------------------------------------------------------------------------
(* Which entries are free.                                                 *)

Freed(sl, t) == {i \in 0..(t.allocated - 1) : HoldersIn(sl, i) = {}}

\* A new trusted BDD takes the first free entry.
LEMMA CreateListed ==
  ASSUME NEW sl, NEW r, NEW un, Shared(sl, r, un), FreeList(r, Freed(sl, r)),
         NEW s \in Slots, sl[s] = NoTbdd, NEW h \in Tbdd, h.rc_index = RoomFor(r).freepos
  PROVE  FreeList(rc_new_entry(r), Freed([sl EXCEPT ![s] = h], rc_new_entry(r)))
<1> DEFINE room == RoomFor(r)
           i == room.freepos
           a == r.allocated
           u == rc_new_entry(r)
           sl2 == [sl EXCEPT ![s] = h]
<1>1. PICK used : /\ WellFormed(r, used)
                  /\ \A x \in Slots : sl[x].rc_index \in Nat => sl[x].rc_index \in used
  BY DEF Shared
<1>2. /\ a \in Nat \ {0} /\ used \subseteq 0..(a - 1) /\ Freed(sl, r) \in SUBSET Nat
      /\ r.table \in [0..(a - 1) -> Int]
  BY <1>1 DEF WellFormed, Freed
<1>3. /\ FreeList(room, Freed(sl, room)) /\ i # -1
      /\ room.allocated \in Nat /\ room.table \in [0..(room.allocated - 1) -> Int]
  <2>1. CASE r.freepos = -1
    <3>1. Freed(sl, r) = {} /\ FreeList(rc_grow(r), a..(a * 2 - 1))
      BY <1>2, <2>1, GrowFreeList
    <3>2. room = rc_grow(r) BY <2>1 DEF RoomFor
    <3>3. room.allocated = a * 2 /\ room.freepos = a BY <3>2 DEF rc_grow
    <3>4. WellFormed(room, 0..(a - 1)) BY <1>1, <2>1, <3>2, GrowWellFormed
    <3>5. Freed(sl, room) = a..(a * 2 - 1)
      <4>1. \A j \in 0..(a - 1) : HoldersIn(sl, j) # {} BY <3>1 DEF Freed
      <4>2. \A j \in a..(a * 2 - 1) : HoldersIn(sl, j) = {}
        BY <1>1, <1>2 DEF HoldersIn
      <4> HIDE DEF room, a
      <4>3. \A j \in 0..(a * 2 - 1) : j \in 0..(a - 1) \/ j \in a..(a * 2 - 1) BY <1>2
      <4>4. \A j \in a..(a * 2 - 1) : j \in 0..(a * 2 - 1) BY <1>2
      <4> QED BY <3>3, <4>1, <4>2, <4>3, <4>4 DEF Freed
    <3> HIDE DEF room, a
    <3> QED BY <1>2, <3>1, <3>2, <3>3, <3>4, <3>5 DEF WellFormed
  <2>2. CASE r.freepos # -1 BY <1>2, <2>2 DEF RoomFor
  <2> QED BY <2>1, <2>2
<1>4. u = [table |-> [room.table EXCEPT ![i] = 1], freepos |-> room.table[i],
           allocated |-> room.allocated]
  BY DEF rc_new_entry
<1> HIDE DEF room, u
<1>5. \A j \in 0..(room.allocated - 1) : j # i => u.table[j] = room.table[j] BY <1>3, <1>4
<1>6. Freed(sl, room) \in SUBSET Nat /\ Freed(sl, room) \subseteq 0..(room.allocated - 1)
  BY DEF Freed
<1>7. i \in Freed(sl, room) /\ FreeList(u, Freed(sl, room) \ {i})
  <2>1. u.freepos = room.table[i] BY <1>4
  <2>2. \A j \in Freed(sl, room) \ {i} : u.table[j] = room.table[j] BY <1>5, <1>6
  <2> QED BY <1>3, <1>6, <2>1, <2>2, LinkedRest DEF FreeList
<1>8. Freed(sl2, u) = Freed(sl, room) \ {i}
  <2>1. u.allocated = room.allocated BY <1>4
  <2>2. sl \in [Slots -> Tbdd \cup {NoTbdd}] BY DEF Shared
  <2>3. \A j \in 0..(room.allocated - 1) :
           HoldersIn(sl2, j) = IF j = i THEN HoldersIn(sl, j) \cup {s} ELSE HoldersIn(sl, j)
    <3> SUFFICES ASSUME NEW j \in 0..(room.allocated - 1)
                 PROVE  HoldersIn(sl2, j) = IF j = i THEN HoldersIn(sl, j) \cup {s}
                                            ELSE HoldersIn(sl, j)
      OBVIOUS
    <3>1. h.rc_index = i BY DEF room
    <3>2. sl[s].rc_index # j BY NoTbddFacts
    <3> QED BY <2>2, <3>1, <3>2 DEF HoldersIn
  <2> QED BY <2>1, <2>3 DEF Freed
<1> QED BY <1>7, <1>8 DEF u

\* What leaves the free entries free and alone leaves the list alone.
LEMMA SameListed ==
  ASSUME NEW sl, NEW sl2, NEW r, NEW r2, FreeList(r, Freed(sl, r)),
         r2.allocated = r.allocated, r2.freepos = r.freepos,
         \A i \in 0..(r.allocated - 1) : HoldersIn(sl2, i) = {} <=> HoldersIn(sl, i) = {},
         \A i \in 0..(r.allocated - 1) : HoldersIn(sl, i) = {} => r2.table[i] = r.table[i]
  PROVE  FreeList(r2, Freed(sl2, r2))
<1>1. Freed(sl2, r2) = Freed(sl, r) BY DEF Freed
<1>2. \A i \in Freed(sl, r) : r2.table[i] = r.table[i] BY DEF Freed
<1> QED BY <1>1, <1>2, LinkedSame DEF FreeList

\* The entry of a slot is one of the table.
LEMMA EntryInTable ==
  ASSUME NEW sl, NEW r, NEW un, Shared(sl, r, un)
  PROVE  /\ sl \in [Slots -> Tbdd \cup {NoTbdd}]
         /\ r = [table |-> r.table, freepos |-> r.freepos, allocated |-> r.allocated]
         /\ r.allocated \in Nat \ {0} /\ r.table \in [0..(r.allocated - 1) -> Int]
         /\ \A x \in Slots : sl[x].rc_index \in Nat => sl[x].rc_index \in 0..(r.allocated - 1)
         /\ \A x \in Slots : sl[x] # NoTbdd => sl[x].rc_index \in Nat \cup {-1}
<1>1. PICK used : /\ WellFormed(r, used)
                  /\ \A x \in Slots : sl[x].rc_index \in Nat => sl[x].rc_index \in used
  BY DEF Shared
<1> QED BY <1>1 DEF Shared, WellFormed

\* A trusted BDD without a clause has no entry.
LEMMA CreateUnprovedListed ==
  ASSUME NEW sl, NEW r, NEW un, Shared(sl, r, un), FreeList(r, Freed(sl, r)),
         NEW s \in Slots, sl[s] = NoTbdd, NEW h \in Tbdd, h.rc_index = -1
  PROVE  FreeList(r, Freed([sl EXCEPT ![s] = h], r))
<1>1. sl \in [Slots -> Tbdd \cup {NoTbdd}] BY DEF Shared
<1>2. \A i \in 0..(r.allocated - 1) : HoldersIn([sl EXCEPT ![s] = h], i) = HoldersIn(sl, i)
  BY <1>1, NoTbddFacts DEF HoldersIn
<1> QED BY <1>2, SameListed

\* A copy counts in an entry in use.
LEMMA CopyListed ==
  ASSUME NEW sl, NEW r, NEW un, Shared(sl, r, un), FreeList(r, Freed(sl, r)),
         NEW s \in Slots, sl[s] = NoTbdd, NEW t \in Slots, sl[t] # NoTbdd
  PROVE  LET r2 == rc_increment(r, sl[t].rc_index)
         IN  FreeList(r2, Freed([sl EXCEPT ![s] = sl[t]], r2))
<1> DEFINE j == sl[t].rc_index
           r2 == rc_increment(r, j)
           sl2 == [sl EXCEPT ![s] = sl[t]]
<1>1. /\ sl \in [Slots -> Tbdd \cup {NoTbdd}]
      /\ r = [table |-> r.table, freepos |-> r.freepos, allocated |-> r.allocated]
      /\ r.table \in [0..(r.allocated - 1) -> Int]
      /\ j \in Nat => j \in 0..(r.allocated - 1)
      /\ j \in Nat \cup {-1}
  BY EntryInTable
<1>2. /\ r2.allocated = r.allocated /\ r2.freepos = r.freepos
      /\ \A i \in 0..(r.allocated - 1) : i # j => r2.table[i] = r.table[i]
  <2>1. CASE j = -1 BY <2>1 DEF rc_increment
  <2>2. CASE j # -1
    <3>1. r2 = [r EXCEPT !.table[j] = r.table[j] + 1] BY <2>2 DEF rc_increment
    <3>2. r2 = [table |-> [r.table EXCEPT ![j] = r.table[j] + 1], freepos |-> r.freepos,
                allocated |-> r.allocated]
      BY <1>1, <3>1
    <3> HIDE DEF r2, j
    <3> QED BY <1>1, <3>2
  <2> QED BY <2>1, <2>2
<1>3. ASSUME NEW i \in 0..(r.allocated - 1)
      PROVE  HoldersIn(sl2, i) = {} <=> HoldersIn(sl, i) = {}
  <2>1. sl[s].rc_index # i BY NoTbddFacts
  <2>2. sl2[s] = sl[t] /\ \A x \in Slots \ {s} : sl2[x] = sl[x] BY <1>1
  <2>3. t # s OBVIOUS
  <2> HIDE DEF sl2
  <2> QED BY <2>1, <2>2, <2>3 DEF HoldersIn
<1>4. \A i \in 0..(r.allocated - 1) : HoldersIn(sl, i) = {} => i # j BY DEF HoldersIn
<1> HIDE DEF r2, sl2, j
<1>5. FreeList(r2, Freed(sl2, r2)) BY <1>2, <1>3, <1>4, SameListed
<1> QED BY <1>5 DEF r2, sl2, j

\* The last copy gives its entry back, every other leaves it in use.
LEMMA ReleaseListed ==
  ASSUME NEW sl, NEW r, NEW un, Shared(sl, r, un), FreeList(r, Freed(sl, r)),
         NEW s \in Slots, sl[s] # NoTbdd
  PROVE  LET r2 == rc_release(r, sl[s].rc_index)
         IN  FreeList(r2, Freed([sl EXCEPT ![s] = NoTbdd], r2))
<1> DEFINE j == sl[s].rc_index
           r2 == rc_release(r, j)
           sl2 == [sl EXCEPT ![s] = NoTbdd]
<1>1. /\ sl \in [Slots -> Tbdd \cup {NoTbdd}]
      /\ r = [table |-> r.table, freepos |-> r.freepos, allocated |-> r.allocated]
      /\ r.table \in [0..(r.allocated - 1) -> Int] /\ r.allocated \in Nat
      /\ j \in Nat => j \in 0..(r.allocated - 1)
      /\ j \in Nat \cup {-1}
  BY EntryInTable
<1>2. \A i \in Nat : HoldersIn(sl2, i) = HoldersIn(sl, i) \ {s}
  <2> SUFFICES ASSUME NEW i \in Nat PROVE HoldersIn(sl2, i) = HoldersIn(sl, i) \ {s} OBVIOUS
  <2>1. HoldersMove(sl, s, NoTbdd, i) BY <1>1, HoldersCount
  <2>2. NoTbdd.rc_index # i BY NoTbddFacts
  <2> QED BY <2>1, <2>2 DEF HoldersMove
<1>3. \A i \in Nat : i # j => s \notin HoldersIn(sl, i) BY DEF HoldersIn
<1>4. CASE j = -1
  <2>1. r2 = r BY <1>4 DEF rc_release
  <2> HIDE DEF r2, sl2
  <2>2. \A i \in 0..(r.allocated - 1) : HoldersIn(sl2, i) = HoldersIn(sl, i)
    <3> SUFFICES ASSUME NEW i \in 0..(r.allocated - 1)
                 PROVE  HoldersIn(sl2, i) = HoldersIn(sl, i)
      OBVIOUS
    <3>1. i \in Nat /\ i # j BY <1>1, <1>4
    <3> QED BY <1>2, <1>3, <3>1
  <2>3. FreeList(r2, Freed(sl2, r2)) BY <2>1, <2>2, SameListed
  <2> QED BY <2>3 DEF r2, sl2
<1>5. CASE j # -1
  <2>1. j \in Nat /\ s \in HoldersIn(sl, j) /\ j \in 0..(r.allocated - 1)
    BY <1>1, <1>5 DEF HoldersIn
  <2>2. r.table[j] = Cardinality(HoldersIn(sl, j))
    <3> HIDE DEF j
    <3> QED BY <2>1 DEF Shared
  <2>3. r.table[j] = 1 <=> HoldersIn(sl, j) = {s}
    <3>1. HoldersMove(sl, s, NoTbdd, j) BY <1>1, HoldersCount
    <3> HIDE DEF j
    <3> QED BY <2>1, <2>2, <3>1 DEF HoldersMove
  <2>4. CASE r.table[j] = 1
    <3>1. r2 = [table |-> [r.table EXCEPT ![j] = r.freepos], freepos |-> j,
                allocated |-> r.allocated]
      BY <1>5, <2>4 DEF rc_release, LastCopy, rc_dispose
    <3> HIDE DEF r2, j, sl2
    <3>2. r2.freepos = j /\ r2.table[j] = r.freepos /\ r2.allocated = r.allocated
          /\ \A i \in 0..(r.allocated - 1) : i # j => r2.table[i] = r.table[i]
      BY <1>1, <2>1, <3>1
    <3>3. Freed(sl, r) \in SUBSET Nat /\ j \in Nat \ Freed(sl, r) BY <2>1 DEF Freed
    <3>4. \A i \in Freed(sl, r) : r2.table[i] = r.table[i] BY <3>2, <3>3 DEF Freed
    <3>5. FreeList(r2, Freed(sl, r) \cup {j}) BY <3>2, <3>3, <3>4, LinkedMore DEF FreeList
    <3>6. Freed(sl2, r2) = Freed(sl, r) \cup {j}
      <4>1. \A i \in 0..(r.allocated - 1) :
               HoldersIn(sl2, i) = {} <=> HoldersIn(sl, i) = {} \/ i = j
        BY <1>2, <1>3, <2>3, <2>4
      <4> QED BY <2>1, <3>2, <4>1 DEF Freed
    <3>7. FreeList(r2, Freed(sl2, r2)) BY <3>5, <3>6
    <3> QED BY <3>7 DEF r2, j, sl2
  <2>5. CASE r.table[j] # 1
    <3>1. r2 = [r EXCEPT !.table[j] = r.table[j] - 1]
      BY <1>5, <2>5 DEF rc_release, LastCopy
    <3>2. r2 = [table |-> [r.table EXCEPT ![j] = r.table[j] - 1], freepos |-> r.freepos,
                allocated |-> r.allocated]
      BY <1>1, <3>1
    <3> HIDE DEF r2, j, sl2
    <3>3. r2.freepos = r.freepos /\ r2.allocated = r.allocated
          /\ \A i \in 0..(r.allocated - 1) : i # j => r2.table[i] = r.table[i]
      BY <1>1, <3>2
    <3>4. \A i \in 0..(r.allocated - 1) : HoldersIn(sl2, i) = {} <=> HoldersIn(sl, i) = {}
      BY <1>2, <1>3, <2>1, <2>3, <2>5
    <3>5. \A i \in 0..(r.allocated - 1) : HoldersIn(sl, i) = {} => i # j BY <2>1
    <3>6. FreeList(r2, Freed(sl2, r2)) BY <3>3, <3>4, <3>5, SameListed
    <3> QED BY <3>6 DEF r2, j, sl2
  <2> QED BY <2>4, <2>5
<1> QED BY <1>4, <1>5

----------------------------------------------------------------------------
(* Clauses still in the file, and references to nodes.                     *)

Kept(sl, un, de) ==
    \A id \in un : id \in de \/ \E x \in Slots : sl[x] # NoTbdd /\ sl[x].clause_id = id

\* A slot set, where there was none, keeps every clause.
LEMMA SetKept ==
  ASSUME NEW sl \in [Slots -> Tbdd \cup {NoTbdd}], NEW un, NEW de, Kept(sl, un, de),
         NEW s \in Slots, sl[s] = NoTbdd, NEW h, h # NoTbdd
  PROVE  Kept([sl EXCEPT ![s] = h], un \cup {h.clause_id}, de)
<1> DEFINE sl2 == [sl EXCEPT ![s] = h]
<1>1. sl2[s] = h /\ \A x \in Slots \ {s} : sl2[x] = sl[x] OBVIOUS
<1> HIDE DEF sl2
<1>2. Kept(sl2, un \cup {h.clause_id}, de) BY <1>1 DEF Kept
<1> QED BY <1>2 DEF sl2

\* The clause of a slot emptied is dead, or has another copy.
LEMMA ReleaseKept ==
  ASSUME NEW sl, NEW r, NEW un, Shared(sl, r, un), 0 \notin un, NEW de, Kept(sl, un, de),
         NEW s \in Slots, sl[s] # NoTbdd
  PROVE  Kept([sl EXCEPT ![s] = NoTbdd], LeftOver(r, un, sl[s]),
              IF LastCopy(r, sl[s].rc_index) THEN de \cup {sl[s].clause_id} ELSE de)
<1> DEFINE j == sl[s].rc_index
           sl2 == [sl EXCEPT ![s] = NoTbdd]
<1>1. /\ sl \in [Slots -> Tbdd \cup {NoTbdd}] /\ j \in Nat \cup {-1}
      /\ j = -1 <=> sl[s].clause_id = TAUTOLOGY
  BY DEF Shared
<1>2. sl2[s] = NoTbdd /\ \A x \in Slots \ {s} : sl2[x] = sl[x] BY <1>1
<1> HIDE DEF sl2
<1>3. \A id \in un : id \in de \/ id = sl[s].clause_id
                     \/ \E x \in Slots : sl2[x] # NoTbdd /\ sl2[x].clause_id = id
  BY <1>2 DEF Kept
<1>4. LeftOver(r, un, sl[s]) \subseteq un BY DEF LeftOver
<1>5. CASE LastCopy(r, j)
  BY <1>3, <1>4, <1>5 DEF Kept, sl2
<1>6. CASE ~LastCopy(r, j)
  <2>1. CASE j = -1
    <3>1. sl[s].clause_id \notin un BY <1>1, <2>1 DEF TAUTOLOGY
    <3> QED BY <1>3, <1>4, <1>6, <3>1 DEF Kept, sl2
  <2>2. CASE j # -1
    <3>1. j \in Nat /\ s \in HoldersIn(sl, j) BY <1>1, <2>2 DEF HoldersIn
    <3>2. r.table[j] # 1 BY <1>6, <2>2 DEF LastCopy
    <3>3. HoldersIn(sl, j) # {s}
      <4>1. HoldersMove(sl, s, NoTbdd, j) BY <1>1, HoldersCount
      <4>2. r.table[j] = Cardinality(HoldersIn(sl, j))
        <5> HIDE DEF j
        <5> QED BY <3>1 DEF Shared
      <4> HIDE DEF j
      <4> QED BY <3>1, <3>2, <4>1, <4>2 DEF HoldersMove
    <3>4. PICK x \in HoldersIn(sl, j) : x # s BY <3>1, <3>3
    <3>5. x \in Slots /\ sl[x].rc_index = j BY <3>4 DEF HoldersIn
    <3>6. sl[x] # NoTbdd BY <3>1, <3>5, NoTbddFacts
    <3>7. sl[x] = sl[s] BY <2>2, <3>5, <3>6 DEF Shared, Copies
    <3>8. sl2[x] # NoTbdd /\ sl2[x].clause_id = sl[s].clause_id BY <1>2, <3>4, <3>5, <3>6, <3>7
    <3> QED BY <1>3, <1>4, <1>6, <3>5, <3>8 DEF Kept, sl2
  <2> QED BY <2>1, <2>2
<1> QED BY <1>5, <1>6

RootsIn(sl, n) == {x \in Slots : sl[x].root = n}

Counted(sl, c) ==
    /\ c \in [Nodes -> 0..MaxRef]
    /\ \A n \in Nodes : c[n] = MaxRef \/ c[n] = Cardinality(RootsIn(sl, n))

\* Setting one slot to h changes the number of references to node n as it should.
RootsMove(sl, s, h, n) ==
    LET was == RootsIn(sl, n)
        is  == RootsIn([sl EXCEPT ![s] = h], n)
    IN  /\ Cardinality(was) \in Nat
        /\ (sl[s].root = n <=> h.root = n) => Cardinality(is) = Cardinality(was)
        /\ h.root = n /\ sl[s].root # n => Cardinality(is) = Cardinality(was) + 1
        /\ h.root # n /\ sl[s].root = n =>
             Cardinality(is) = Cardinality(was) - 1 /\ Cardinality(was) # 0

\* It does, for the slots are finite.
LEMMA RootsCount ==
  ASSUME NEW sl \in [Slots -> Tbdd \cup {NoTbdd}], NEW s \in Slots, NEW h, NEW n \in Nodes
  PROVE  RootsMove(sl, s, h, n)
<1> DEFINE was == RootsIn(sl, n)
           is == RootsIn([sl EXCEPT ![s] = h], n)
<1>1. IsFiniteSet(was)
  <2>1. was \subseteq Slots BY DEF RootsIn
  <2> QED BY <2>1, ConstantsAssumption, FS_Subset
<1>2. /\ s \in was <=> sl[s].root = n
      /\ is = IF h.root = n THEN was \cup {s} ELSE was \ {s}
  BY DEF RootsIn
<1> HIDE DEF was, is
<1>3. Cardinality(was) \in Nat /\ (Cardinality(was) = 0 <=> was = {})
  BY <1>1, FS_CardinalityType, FS_EmptySet
<1>4. s \notin was => Cardinality(was \cup {s}) = Cardinality(was) + 1
  BY <1>1, FS_AddElement
<1>5. s \in was => Cardinality(was \ {s}) = Cardinality(was) - 1
  BY <1>1, FS_RemoveElement
<1>6. /\ s \in was => was \cup {s} = was
      /\ s \notin was => was \ {s} = was
  OBVIOUS
<1> QED BY <1>2, <1>3, <1>4, <1>5, <1>6 DEF was, is, RootsMove

\* A slot set refers to its root (bdd_addref).
LEMMA AddCounted ==
  ASSUME NEW sl \in [Slots -> Tbdd \cup {NoTbdd}], NEW c, Counted(sl, c),
         NEW s \in Slots, sl[s] = NoTbdd, NEW h
  PROVE  Counted([sl EXCEPT ![s] = h], bdd_addref(c, h.root))
<1> DEFINE sl2 == [sl EXCEPT ![s] = h]
           c2 == bdd_addref(c, h.root)
<1>1. c \in [Nodes -> 0..MaxRef] /\ MaxRef \in Nat BY ConstantsAssumption DEF Counted
<1>2. c2 \in [Nodes -> 0..MaxRef] BY <1>1, RefcouType
<1>3. ASSUME NEW n \in Nodes PROVE c2[n] = MaxRef \/ c2[n] = Cardinality(RootsIn(sl2, n))
  <2>1. sl[s].root # n BY ConstantsAssumption DEF NoTbdd
  <2>2. /\ h.root # n => Cardinality(RootsIn(sl2, n)) = Cardinality(RootsIn(sl, n))
        /\ h.root = n => Cardinality(RootsIn(sl2, n)) = Cardinality(RootsIn(sl, n)) + 1
    <3>1. RootsMove(sl, s, h, n) BY RootsCount
    <3> QED BY <2>1, <3>1 DEF RootsMove
  <2>3. c2[n] = IF h.root = n /\ c[n] < MaxRef THEN c[n] + 1 ELSE c[n]
    BY <1>1 DEF bdd_addref
  <2>4. c[n] = MaxRef \/ c[n] = Cardinality(RootsIn(sl, n)) BY DEF Counted
  <2>5. c[n] \in 0..MaxRef BY <1>1
  <2> HIDE DEF c2, sl2
  <2> QED BY <1>1, <2>2, <2>3, <2>4, <2>5
<1> QED BY <1>2, <1>3 DEF Counted

\* A slot emptied refers to it no more (bdd_delref).
LEMMA DropCounted ==
  ASSUME NEW sl \in [Slots -> Tbdd \cup {NoTbdd}], NEW c, Counted(sl, c), NEW s \in Slots
  PROVE  Counted([sl EXCEPT ![s] = NoTbdd], bdd_delref(c, sl[s].root))
<1> DEFINE sl2 == [sl EXCEPT ![s] = NoTbdd]
           r == sl[s].root
           c2 == bdd_delref(c, r)
<1>1. c \in [Nodes -> 0..MaxRef] /\ MaxRef \in Nat BY ConstantsAssumption DEF Counted
<1>2. c2 \in [Nodes -> 0..MaxRef] BY <1>1, RefcouType
<1>3. ASSUME NEW n \in Nodes PROVE c2[n] = MaxRef \/ c2[n] = Cardinality(RootsIn(sl2, n))
  <2>1. NoTbdd.root # n BY ConstantsAssumption DEF NoTbdd
  <2>2. /\ r # n => Cardinality(RootsIn(sl2, n)) = Cardinality(RootsIn(sl, n))
        /\ r = n => /\ Cardinality(RootsIn(sl2, n)) = Cardinality(RootsIn(sl, n)) - 1
                    /\ Cardinality(RootsIn(sl, n)) # 0
        /\ Cardinality(RootsIn(sl, n)) \in Nat
    <3>1. RootsMove(sl, s, NoTbdd, n) BY RootsCount
    <3> QED BY <2>1, <3>1 DEF RootsMove
  <2>3. c2[n] = IF r = n /\ c[n] # MaxRef /\ c[n] > 0 THEN c[n] - 1 ELSE c[n]
    BY <1>1 DEF bdd_delref
  <2>4. c[n] = MaxRef \/ c[n] = Cardinality(RootsIn(sl, n)) BY DEF Counted
  <2>5. c[n] \in 0..MaxRef BY <1>1
  <2> HIDE DEF c2, sl2, r
  <2> QED BY <1>1, <2>2, <2>3, <2>4, <2>5
<1> QED BY <1>2, <1>3 DEF Counted

\* A temporary leaves a count as it was or stuck.
LEMMA TemporaryCounted ==
  ASSUME NEW sl, NEW c, Counted(sl, c), NEW r
  PROVE  Counted(sl, Temporary(c, r))
<1>1. c \in [Nodes -> 0..MaxRef] /\ MaxRef \in Nat \ {0} BY ConstantsAssumption DEF Counted
<1> DEFINE mid == bdd_addref(c, r)
<1>2. mid \in [Nodes -> 0..MaxRef] BY <1>1, RefcouType
<1>3. Temporary(c, r) \in [Nodes -> 0..MaxRef] BY <1>2, RefcouType DEF Temporary
<1>4. ASSUME NEW n \in Nodes PROVE Temporary(c, r)[n] = c[n] \/ Temporary(c, r)[n] = MaxRef
  <2>1. mid[n] = IF r = n /\ c[n] < MaxRef THEN c[n] + 1 ELSE c[n] BY <1>1 DEF bdd_addref
  <2> HIDE DEF mid
  <2>2. bdd_delref(mid, r)[n] = IF r = n /\ mid[n] # MaxRef /\ mid[n] > 0 THEN mid[n] - 1 ELSE mid[n]
    BY <1>2 DEF bdd_delref
  <2>3. c[n] \in 0..MaxRef BY <1>1
  <2>4. bdd_delref(mid, r)[n] = c[n] \/ bdd_delref(mid, r)[n] = MaxRef
    BY <1>1, <2>1, <2>2, <2>3
  <2> QED BY <2>4 DEF Temporary, mid
<1> QED BY <1>3, <1>4 DEF Counted

----------------------------------------------------------------------------
(* The stronger invariant, for the table and the counts together.          *)

Exact == /\ FreeList(rc, Freed(slot, rc))
         /\ Kept(slot, units, dead)
         /\ Counted(slot, refcou)

FullInv == IInv /\ (running => Exact)

\* At first everything is free and no slot refers to anything (rc_init).
LEMMA InitFull == Init => FullInv
<1> SUFFICES ASSUME Init PROVE Exact BY InitIInv DEF FullInv
<1>1. /\ slot = [s \in Slots |-> NoTbdd] /\ rc = rc_init /\ units = {}
      /\ refcou \in [Nodes -> {0, MaxRef}]
  BY DEF Init
<1>2. FreeList(rc, Freed(slot, rc))
  <2>1. rc.allocated = InitSize BY <1>1 DEF rc_init
  <2>2. \A i \in 0..(InitSize - 1) : HoldersIn(slot, i) = {}
    BY <1>1, NoTbddFacts, InitSizeAssumption DEF HoldersIn
  <2>3. Freed(slot, rc) = 0..(InitSize - 1) BY <2>1, <2>2 DEF Freed
  <2> QED BY <1>1, <2>3, InitFreeList
<1>3. Counted(slot, refcou)
  <2>1. \A n \in Nodes : RootsIn(slot, n) = {}
    <3>1. \A n \in Nodes : NoTbdd.root # n BY ConstantsAssumption DEF NoTbdd
    <3> QED BY <1>1, <3>1 DEF RootsIn
  <2>2. Cardinality({}) = 0 BY FS_EmptySet
  <2>3. {0, MaxRef} \subseteq 0..MaxRef BY ConstantsAssumption
  <2> QED BY <1>1, <2>1, <2>2, <2>3 DEF Counted
<1> QED BY <1>1, <1>2, <1>3 DEF Exact, Kept

\* What a step starts from while the package runs.
LEMMA FullFacts ==
  ASSUME FullInv, running
  PROVE  /\ IInv /\ Shared(slot, rc, units) /\ slot \in [Slots -> Tbdd \cup {NoTbdd}]
         /\ FreeList(rc, Freed(slot, rc)) /\ Kept(slot, units, dead) /\ Counted(slot, refcou)
         /\ 0 \notin units
  BY DEF FullInv, Exact, IInv, TypeOK, created

\* A new clause is kept by its slot (tbdd_create).
LEMMA CreateProvedFull ==
  ASSUME FullInv, NEW s \in Slots, NEW r \in Roots, CreateProved(s, r)
  PROVE  Exact'
<1> DEFINE h == [root |-> r, clause_id |-> counter + 1, rc_index |-> RoomFor(rc).freepos]
<1>1. /\ running /\ slot[s] = NoTbdd /\ slot' = [slot EXCEPT ![s] = h]
      /\ rc' = rc_new_entry(rc) /\ refcou' = bdd_addref(refcou, h.root)
      /\ units' = units \cup {h.clause_id} /\ dead' = dead
      /\ h.rc_index = RoomFor(rc).freepos
  BY DEF CreateProved, dead
<1>2. h \in Tbdd /\ h # NoTbdd
  <2>1. counter \in Nat BY DEF FullInv, IInv, TypeOK
  <2>2. PICK used : WellFormed(rc, used) BY <1>1, FullFacts DEF Shared
  <2>3. RoomFor(rc).freepos \in Nat BY <2>2, NewEntryWellFormed
  <2> QED BY <2>1, <2>3, NoTbddFacts DEF Tbdd
<1> HIDE DEF h
<1>3. FreeList(rc', Freed(slot', rc')) BY <1>1, <1>2, FullFacts, CreateListed
<1>4. Kept(slot', units', dead') BY <1>1, <1>2, FullFacts, SetKept
<1>5. Counted(slot', refcou') BY <1>1, FullFacts, AddCounted
<1> QED BY <1>3, <1>4, <1>5 DEF Exact, Freed, HoldersIn, Kept, Counted, RootsIn

\* A trusted BDD without a clause only refers to its root (tbdd_create).
LEMMA CreateUnprovedFull ==
  ASSUME FullInv, NEW s \in Slots, NEW r \in Roots, CreateUnproved(s, r)
  PROVE  Exact'
<1> DEFINE h == [root |-> r, clause_id |-> TAUTOLOGY, rc_index |-> -1]
<1>1. /\ running /\ slot[s] = NoTbdd /\ slot' = [slot EXCEPT ![s] = h]
      /\ rc' = rc /\ refcou' = bdd_addref(refcou, h.root)
      /\ units' = units /\ dead' = dead /\ h.rc_index = -1
  BY DEF CreateUnproved, dead
<1>2. h \in Tbdd /\ h # NoTbdd BY NoTbddFacts DEF Tbdd, TAUTOLOGY
<1> HIDE DEF h
<1>3. FreeList(rc', Freed(slot', rc')) BY <1>1, <1>2, FullFacts, CreateUnprovedListed
<1>4. Kept(slot', units', dead')
  <2>1. Kept(slot', units \cup {h.clause_id}, dead) BY <1>1, <1>2, FullFacts, SetKept
  <2> QED BY <1>1, <2>1 DEF Kept
<1>5. Counted(slot', refcou') BY <1>1, FullFacts, AddCounted
<1> QED BY <1>3, <1>4, <1>5 DEF Exact, Freed, HoldersIn, Kept, Counted, RootsIn

\* A copy adds a reference to an entry and to a node (tbdd_addref).
LEMMA CopyFull ==
  ASSUME FullInv, NEW s \in Slots, NEW t \in Slots, Copy(s, t)
  PROVE  Exact'
<1>1. /\ running /\ slot[s] = NoTbdd /\ slot[t] # NoTbdd /\ slot' = [slot EXCEPT ![s] = slot[t]]
      /\ rc' = rc_increment(rc, slot[t].rc_index) /\ refcou' = bdd_addref(refcou, slot[t].root)
      /\ units' = units /\ dead' = dead
  BY DEF Copy, Held, dead
<1>2. FreeList(rc', Freed(slot', rc')) BY <1>1, FullFacts, CopyListed
<1>3. Kept(slot', units', dead')
  <2>1. Kept(slot', units \cup {slot[t].clause_id}, dead) BY <1>1, FullFacts, SetKept
  <2> QED BY <1>1, <2>1 DEF Kept
<1>4. Counted(slot', refcou') BY <1>1, FullFacts, AddCounted
<1> QED BY <1>2, <1>3, <1>4 DEF Exact, Freed, HoldersIn, Kept, Counted, RootsIn

\* What DropClause leaves, in the terms of ReleaseKept.
LEMMA DropClauseKept ==
  ASSUME FullInv, running, NEW s \in Held, DropClause(slot[s])
  PROVE  /\ units' = LeftOver(rc, units, slot[s])
         /\ Kept([slot EXCEPT ![s] = NoTbdd], units', dead')
<1>1. units' = LeftOver(rc, units, slot[s]) BY DropClauseFacts DEF FullInv
<1>2. s \in Slots /\ slot[s] # NoTbdd BY DEF Held
<1>3. dead' = IF LastCopy(rc, slot[s].rc_index) THEN dead \cup {slot[s].clause_id} ELSE dead
  BY DropClauseFacts DEF FullInv
<1> QED BY <1>1, <1>2, <1>3, FullFacts, ReleaseKept

\* A destructor gives back what its slot held (tbdd_delref).
LEMMA DestroyFull ==
  ASSUME FullInv, NEW s \in Slots, Destroy(s)
  PROVE  Exact'
<1>1. /\ running /\ s \in Held /\ slot[s] # NoTbdd /\ slot' = [slot EXCEPT ![s] = NoTbdd]
      /\ rc' = rc_release(rc, slot[s].rc_index) /\ refcou' = bdd_delref(refcou, slot[s].root)
      /\ DropClause(slot[s])
  BY DEF Destroy, Held
<1>2. FreeList(rc', Freed(slot', rc')) BY <1>1, FullFacts, ReleaseListed
<1>3. Kept(slot', units', dead') BY <1>1, DropClauseKept
<1>4. Counted(slot', refcou') BY <1>1, FullFacts, DropCounted
<1> QED BY <1>2, <1>3, <1>4 DEF Exact, Freed, HoldersIn, Kept, Counted, RootsIn

\* A destruction followed by a copy, and by the temporary that operator= returns.
LEMMA AssignFull ==
  ASSUME FullInv, NEW s \in Slots, NEW t \in Slots, Assign(s, t)
  PROVE  Exact'
<1> DEFINE mid == [slot EXCEPT ![s] = NoTbdd]
           left == rc_release(rc, slot[s].rc_index)
           c == bdd_delref(refcou, slot[s].root)
<1>1. /\ running /\ s \in Held /\ slot[s] # NoTbdd /\ slot[t] # NoTbdd /\ s # t
      /\ DropClause(slot[s]) /\ slot' = [slot EXCEPT ![s] = slot[t]]
      /\ rc' = rc_increment(left, slot[t].rc_index)
      /\ refcou' = Temporary(bdd_addref(c, slot[t].root), slot[t].root)
  BY DEF Assign, Held
<1>2. mid \in [Slots -> Tbdd \cup {NoTbdd}] /\ mid[s] = NoTbdd /\ mid[t] = slot[t]
      /\ slot' = [mid EXCEPT ![s] = mid[t]]
  BY <1>1, FullFacts
<1>3. units' = LeftOver(rc, units, slot[s]) /\ Kept(mid, units', dead')
  BY <1>1, DropClauseKept
<1>4. Shared(mid, left, units') BY <1>1, <1>3, FullFacts, ReleaseShared
<1>5. FreeList(left, Freed(mid, left)) BY <1>1, FullFacts, ReleaseListed
<1>6. Counted(mid, c) BY <1>1, FullFacts, DropCounted
<1> HIDE DEF mid, left, c
<1>7. FreeList(rc', Freed(slot', rc'))
  <2> DEFINE r2 == rc_increment(left, mid[t].rc_index)
  <2>1. mid[t] # NoTbdd BY <1>1, <1>2
  <2>2. FreeList(r2, Freed([mid EXCEPT ![s] = mid[t]], r2))
    BY <1>2, <1>4, <1>5, <2>1, CopyListed
  <2>3. rc' = r2 BY <1>1, <1>2
  <2> QED BY <1>2, <2>2, <2>3
<1>8. Kept(slot', units', dead')
  <2>1. mid[t] # NoTbdd BY <1>1, <1>2
  <2>2. Kept([mid EXCEPT ![s] = mid[t]], units' \cup {mid[t].clause_id}, dead')
    BY <1>2, <1>3, <2>1, SetKept
  <2> QED BY <1>2, <2>2 DEF Kept
<1>9. Counted(slot', refcou')
  <2>1. Counted(slot', bdd_addref(c, slot[t].root)) BY <1>2, <1>6, AddCounted
  <2> QED BY <1>1, <2>1, TemporaryCounted
<1> QED BY <1>7, <1>8, <1>9 DEF Exact, Freed, HoldersIn, Kept, Counted, RootsIn

\* Between equal roots only the temporary is counted (operator=).
LEMMA AssignSameFull ==
  ASSUME FullInv, NEW s \in Slots, NEW t \in Slots, AssignSame(s, t)
  PROVE  Exact'
<1>1. /\ running /\ slot' = slot /\ rc' = rc /\ units' = units /\ dead' = dead
      /\ refcou' = Temporary(refcou, slot[s].root)
  BY DEF AssignSame, dead
<1>2. Counted(slot, refcou') BY <1>1, FullFacts, TemporaryCounted
<1>3. Counted(slot', refcou') BY <1>1, <1>2
<1> QED BY <1>1, <1>3, FullFacts DEF Exact, Freed, HoldersIn, Kept, Counted, RootsIn

\* The stronger invariant is inductive.
LEMMA StepFull == FullInv /\ [Next]_vars => FullInv'
<1> SUFFICES ASSUME FullInv, [Next]_vars, running' PROVE Exact' BY NextIInv DEF FullInv
<1>1. ASSUME NEW s \in Slots, NEW r \in Roots, CreateProved(s, r) PROVE Exact'
  BY <1>1, CreateProvedFull
<1>2. ASSUME NEW s \in Slots, NEW r \in Roots, CreateUnproved(s, r) PROVE Exact'
  BY <1>2, CreateUnprovedFull
<1>3. ASSUME NEW s \in Slots, NEW t \in Slots, Copy(s, t) PROVE Exact' BY <1>3, CopyFull
<1>4. ASSUME NEW s \in Slots, NEW t \in Slots, Assign(s, t) PROVE Exact' BY <1>4, AssignFull
<1>5. ASSUME NEW s \in Slots, NEW t \in Slots, AssignSame(s, t) PROVE Exact'
  BY <1>5, AssignSameFull
<1>6. ASSUME NEW s \in Slots, Destroy(s) PROVE Exact' BY <1>6, DestroyFull
<1>7. ASSUME NEW s \in Slots, DestroyLate(s) PROVE Exact' BY <1>7 DEF DestroyLate
<1>8. CASE Done BY <1>8 DEF Done
<1>9. CASE UNCHANGED vars
  <2>1. /\ slot' = slot /\ rc' = rc /\ units' = units /\ dead' = dead /\ refcou' = refcou
        /\ running
    BY <1>9 DEF vars, dead
  <2> QED BY <2>1, FullFacts DEF Exact, Freed, HoldersIn, Kept, Counted, RootsIn
<1> QED BY <1>1, <1>2, <1>3, <1>4, <1>5, <1>6, <1>7, <1>8, <1>9 DEF Next

\* The free list has every entry no slot uses, each once; a clause still in the file has
\* a copy or is the empty clause; a reference count is exact or stuck at MAXREF (rc_table,
\* tbdd_addref, tbdd_delref, bdd_addref, bdd_delref).
THEOREM TableIsExact == Spec => []TableExact
<1>1. FullInv => TableExact
  <2> SUFFICES ASSUME FullInv PROVE TableExact OBVIOUS
  <2> DEFINE free == {i \in Entries(rc) : Holders(i) = {}}
  <2>1. CASE ~running BY <2>1 DEF TableExact
  <2>2. CASE running
    <3>1. free = Freed(slot, rc)
      BY DEF FullInv, IInv, TypeOK, Entries, Holders, Freed, HoldersIn
    <3>2. FreeList(rc, free) /\ free \in SUBSET Nat
      <4>1. Freed(slot, rc) \in SUBSET Nat BY DEF Freed
      <4> QED BY <2>2, <3>1, <4>1, FullFacts
    <3>3. \A id \in units : id \in dead \/ \E s \in Held : slot[s].clause_id = id
      BY <2>2, FullFacts DEF Kept, Held
    <3>4. \A n \in Nodes :
             refcou[n] = MaxRef \/ refcou[n] = Cardinality({s \in Slots : slot[s].root = n})
      BY <2>2, FullFacts DEF Counted, RootsIn
    <3> HIDE DEF free
    <3>5. Visited(rc, free) BY <3>2, ListVisited
    <3> QED BY <3>3, <3>4, <3>5 DEF TableExact, Visited, free
  <2> QED BY <2>1, <2>2
<1> QED BY <1>1, InitFull, StepFull, PTL DEF Spec

============================================================================
