--------------------------- MODULE WrenMapProofs -----------------------------
(***************************************************************************)
(* Proofs about WrenMap, for any keys, hashes, capacities and load factor.  *)
(*                                                                         *)
(* The argument about a table: of the slots on the way from where a key     *)
(* hashes to, to where its entry is, none is open and none has that key     *)
(* (Findable).  Insertion and deletion preserve that, because an entry is   *)
(* only ever replaced by a tombstone, and there is always a slot to insert  *)
(* in, because the load factor is less than one.  The rest of the invariant *)
(* is about what resizing has copied so far (Copied), how full tables are   *)
(* (Loaded), and where a loop's keys are (Iterated).                        *)
(***************************************************************************)
EXTENDS WrenMap, WrenNumbers

Home(k, cap) == Hash[k] % cap

\* How far along the probe sequence that starts at `start` the slot is.
Offset(start, slot, cap) == IF slot >= start THEN slot - start ELSE slot - start + cap

Used(es) == {i \in DOMAIN es : es[i].key # Undefined}

\* The entry `j` steps along the probe sequence of a key.
Passed(es, cap, k, j) == es[Probe(Home(k, cap), j, cap)]

Findable(es, cap) ==
  \A i \in Used(es) : \A j \in Slots(cap) :
    j < Offset(Home(es[i].key, cap), i, cap)
      => /\ Passed(es, cap, es[i].key, j) # Open
         /\ Passed(es, cap, es[i].key, j).key # es[i].key

\* The table itself.
Stored ==
  /\ capacity \in Nat /\ count \in Nat
  /\ entries \in Table(capacity) /\ Findable(entries, capacity)
  /\ count = Cardinality(Used(entries))

Loaded ==
  /\ capacity > 0 => capacity >= MinCapacity /\ count > 0 /\ count <= Load(capacity)
  /\ pending = Idle /\ capacity > MinCapacity => count >= Load(capacity \div GrowFactor)

\* The entries the resizing loop has gone over, and what the new array holds.
Before(n) == {i \in Used(entries) : i < n}

NewCapacity == Cardinality(DOMAIN resized)
Setting == [op : {"set"}, key : Key, value : Value]
Removing == [op |-> "remove"]

Copied ==
  /\ pending \in Setting \cup {Removing}
  /\ copied \in Nat
  /\ NewCapacity \in Nat /\ NewCapacity >= MinCapacity
  /\ resized \in Table(NewCapacity) /\ Findable(resized, NewCapacity)
  /\ Cardinality(Used(resized)) = Cardinality(Before(copied))
  /\ \A i \in Before(copied) : \E j \in Used(resized) : resized[j] = entries[i]
  /\ \A j \in Used(resized) : \E i \in Before(copied) : resized[j] = entries[i]
  /\ count <= Load(NewCapacity)
  /\ pending \in Setting => count < Load(NewCapacity)
  /\ NewCapacity > MinCapacity => count >= Load(NewCapacity \div GrowFactor)
  /\ pending = Removing => capacity > 0

\* While the array is the one the loop began with, the keys it has seen are at
\* or before its iterator, and those it has not seen are after it.
Iterated ==
  /\ iterator \in Nat \cup {NoIndex}
  /\ looping /\ ~rehashed =>
       /\ \A k \in visited : \E i \in Used(entries) : i <= iterator /\ entries[i].key = k
       /\ \A k \in unvisited : \E i \in Used(entries) : i > iterator /\ entries[i].key = k

IInv ==
  /\ Stored
  /\ Loaded
  /\ pending # Idle => Copied
  /\ Iterated

-----------------------------------------------------------------------------
(* Slots and entries.                                                       *)

LEMMA SlotsAre ==
  ASSUME NEW cap \in Nat
  PROVE  /\ Slots(cap) = 0..cap - 1 /\ Slots(cap) \subseteq Nat
         /\ IsFiniteSet(Slots(cap)) /\ Cardinality(Slots(cap)) = cap
<1>1. Slots(cap) = 0..cap - 1
  BY DEF Slots
<1>2. IsFiniteSet(0..cap - 1) /\ Cardinality(0..cap - 1) = cap
  <2>1. CASE cap = 0
    <3>1. 0..cap - 1 = {}
      BY <2>1
    <3>. QED  BY <2>1, <3>1, FS_EmptySet
  <2>2. CASE cap > 0
    BY <2>2, FS_Interval
  <2>. QED  BY <2>1, <2>2
<1>. QED
  BY <1>1, <1>2

\* The probe sequence of a key comes across every slot, at its offset.
LEMMA ProbeSlots ==
  ASSUME NEW cap \in Nat \ {0}, NEW start \in Slots(cap)
  PROVE  /\ \A i \in Slots(cap) : /\ Probe(start, i, cap) \in Slots(cap)
                                 /\ Offset(start, Probe(start, i, cap), cap) = i
         /\ \A s \in Slots(cap) : /\ Offset(start, s, cap) \in Slots(cap)
                                 /\ Probe(start, Offset(start, s, cap), cap) = s
<1>1. Slots(cap) = 0..cap - 1
  BY SlotsAre
<1>. QED
  BY <1>1 DEF Probe, Offset

LEMMA HomeSlot ==
  ASSUME NEW cap \in Nat \ {0}, NEW k \in Key
  PROVE  Home(k, cap) \in Slots(cap)
<1>1. Hash[k] \in Nat
  BY MapAssumption
<1>2. Hash[k] % cap \in 0..cap - 1
  BY <1>1
<1>. QED
  BY <1>2, SlotsAre DEF Home

\* Open entries, tombstones and entries in use are told apart.
LEMMA EntryKinds ==
  ASSUME NEW cap \in Nat, NEW es \in Table(cap)
  PROVE  /\ DOMAIN es = Slots(cap)
         /\ \A i \in Slots(cap) :
              /\ es[i] \in Entry \cup {Open, Tombstone}
              /\ es[i].key = Undefined => es[i] = Open \/ es[i] = Tombstone
              /\ es[i].key # Undefined => es[i] \in Entry /\ es[i].key \in Key
         /\ Used(es) \subseteq Slots(cap) /\ IsFiniteSet(Used(es))
         /\ Open.key = Undefined /\ Tombstone.key = Undefined /\ Open # Tombstone
<1>1. DOMAIN es = Slots(cap) /\ \A i \in Slots(cap) : es[i] \in Entry \cup {Open, Tombstone}
  BY DEF Table
<1>2. \A e \in Entry : e.key \in Key /\ e.key # Undefined
  BY MapAssumption DEF Entry
<1>3. Open.key = Undefined /\ Tombstone.key = Undefined /\ Open # Tombstone
  BY DEF Open, Tombstone
<1>4. Used(es) \subseteq Slots(cap) /\ IsFiniteSet(Used(es))
  <2>1. Used(es) \subseteq Slots(cap)
    BY <1>1 DEF Used
  <2>. QED  BY <2>1, SlotsAre, FS_Subset
<1>. QED
  BY <1>1, <1>2, <1>3, <1>4

\* A table that is not full has a slot to insert in.
LEMMA SlotLeft ==
  ASSUME NEW cap \in Nat, NEW es \in Table(cap), Cardinality(Used(es)) < cap
  PROVE  \E s \in Slots(cap) : es[s].key = Undefined
<1>1. Used(es) # Slots(cap)
  <2>1. Cardinality(Slots(cap)) = cap /\ cap \in Int
    BY SlotsAre
  <2>. QED  BY <2>1
<1>. QED
  BY <1>1, EntryKinds DEF Used

-----------------------------------------------------------------------------
(* findEntry().                                                             *)

\* It finds an entry of the key, with no open one on the way to it.
LEMMA FindEntryFound ==
  ASSUME NEW cap \in Nat \ {0}, NEW es \in Table(cap), NEW k \in Key,
         FindEntry(es, cap, k).found
  PROVE  LET s == FindEntry(es, cap, k).slot
         IN s \in Slots(cap) /\ es[s].key = k
<1> DEFINE At(i) == es[Probe(Hash[k] % cap, i, cap)]
           stops == {i \in Slots(cap) : At(i) = Open \/ At(i).key = k}
           last == IF stops = {} THEN cap ELSE Min(stops)
<1>1. last < cap /\ At(last).key = k
  BY DEF FindEntry
<1>2. FindEntry(es, cap, k).slot = Probe(Hash[k] % cap, last, cap)
  BY <1>1 DEF FindEntry
<1>3. last \in Slots(cap)
  <2>1. stops # {}
    BY <1>1
  <2>2. stops \in SUBSET Nat /\ stops \subseteq Slots(cap)
    BY SlotsAre
  <2> HIDE DEF stops
  <2>. QED  BY <2>1, <2>2, MinIsLeast
<1>4. Probe(Hash[k] % cap, last, cap) \in Slots(cap)
  BY <1>3, HomeSlot, ProbeSlots DEF Home
<1>. QED
  BY <1>1, <1>2, <1>4

\* A key that is in the table is found in its entry.
LEMMA FindEntryFinds ==
  ASSUME NEW cap \in Nat \ {0}, NEW es \in Table(cap), Findable(es, cap),
         NEW s \in Used(es)
  PROVE  FindEntry(es, cap, es[s].key) = [found |-> TRUE, slot |-> s]
<1> DEFINE k == es[s].key
           h == Hash[k] % cap
           At(i) == es[Probe(h, i, cap)]
           stops == {i \in Slots(cap) : At(i) = Open \/ At(i).key = k}
           last == IF stops = {} THEN cap ELSE Min(stops)
           o == Offset(h, s, cap)
<1>1. s \in Slots(cap) /\ k \in Key /\ k # Undefined
  BY EntryKinds DEF Used
<1>2. h \in Slots(cap) /\ h = Home(k, cap)
  BY <1>1, HomeSlot DEF Home
<1>3. o \in Slots(cap) /\ Probe(h, o, cap) = s
  BY <1>1, <1>2, ProbeSlots
<1>4. \A j \in Slots(cap) : j < o => At(j) # Open /\ At(j).key # k
  BY <1>2 DEF Findable, Passed
<1> HIDE DEF h, k, o
<1>5. o \in stops /\ \A j \in stops : j >= o
  <2>1. At(o).key = k
    BY <1>3 DEF k
  <2>. QED  BY <1>3, <1>4, <2>1, SlotsAre
<1>6. last = o
  <2>1. stops \in SUBSET Nat
    BY SlotsAre
  <2> HIDE DEF stops
  <2>2. Min(stops) \in stops /\ Min(stops) \in Nat /\ \A y \in stops : Min(stops) <= y
    BY <1>5, <2>1, MinIsLeast
  <2>. QED  BY <1>5, <2>1, <2>2
<1>7. last < cap /\ At(last).key = k
  BY <1>3, <1>6, SlotsAre DEF k
<1>8. FindEntry(es, cap, k) = [found |-> TRUE, slot |-> Probe(h, last, cap)]
  BY <1>7 DEF FindEntry, h
<1>. QED
  BY <1>3, <1>6, <1>8 DEF k

\* Otherwise it returns a slot to insert the key in, if there is one, and all
\* those on the way to it are in use, by other keys.
LEMMA FindEntryMissing ==
  ASSUME NEW cap \in Nat \ {0}, NEW es \in Table(cap), NEW k \in Key,
         ~FindEntry(es, cap, k).found,
         \E s \in Slots(cap) : es[s].key = Undefined
  PROVE  LET s == FindEntry(es, cap, k).slot
         IN /\ s \in Slots(cap) /\ es[s].key = Undefined
            /\ \A j \in Slots(cap) : j < Offset(Home(k, cap), s, cap)
                 => Passed(es, cap, k, j).key \notin {Undefined, k}
<1> DEFINE h == Hash[k] % cap
           At(i) == es[Probe(h, i, cap)]
           stops == {i \in Slots(cap) : At(i) = Open \/ At(i).key = k}
           last == IF stops = {} THEN cap ELSE Min(stops)
           passed == {i \in Slots(cap) : i < last /\ At(i) = Tombstone}
           o == IF passed = {} THEN last ELSE Min(passed)
<1>1. h \in Slots(cap) /\ h = Home(k, cap)
  BY HomeSlot DEF Home
<1>2. ~(last < cap /\ At(last).key = k)
  BY DEF FindEntry
<1>3. FindEntry(es, cap, k).slot = Probe(h, o, cap)
  BY <1>2 DEF FindEntry
<1> HIDE DEF h
<1>5. stops \in SUBSET Nat /\ passed \in SUBSET Nat /\ Slots(cap) = 0..cap - 1
  BY SlotsAre
<1>6. stops # {} => /\ last \in Slots(cap) /\ At(last) = Open
                    /\ \A j \in Slots(cap) : j < last => j \notin stops
  <2> HAVE stops # {}
  <2>1. last \in stops /\ last \in Nat /\ \A j \in stops : last <= j
    <3> HIDE DEF stops
    <3>. QED  BY <1>5, MinIsLeast
  <2>2. last < cap
    BY <1>5, <2>1
  <2>3. \A j \in Slots(cap) : j < last => j \notin stops
    <3> HIDE DEF stops, last
    <3>. QED  BY <1>5, <2>1
  <2>. QED  BY <1>2, <2>1, <2>2, <2>3
<1>7. stops = {} => last = cap
  OBVIOUS
<1>8. \A j \in Slots(cap) : j < last => At(j) # Open /\ At(j).key # k
  BY <1>6, <1>7
<1>9. passed = {} => last \in Slots(cap)
  <2> HAVE passed = {}
  <2>1. PICK s \in Slots(cap) : es[s].key = Undefined
    OBVIOUS
  <2>2. Offset(h, s, cap) \in Slots(cap) /\ Probe(h, Offset(h, s, cap), cap) = s
    BY <1>1, <2>1, ProbeSlots
  <2>3. At(Offset(h, s, cap)) = Open \/ At(Offset(h, s, cap)) = Tombstone
    BY <2>1, <2>2, EntryKinds
  <2>4. CASE stops = {}
    <3>1. Offset(h, s, cap) < last
      BY <1>5, <1>7, <2>2, <2>4
    <3>. QED  BY <2>2, <2>3, <2>4, <3>1
  <2>. QED  BY <1>6, <2>4
<1>10. o \in Slots(cap) /\ o <= last /\ At(o).key = Undefined
  <2>1. CASE passed = {}
    <3>1. last < cap
      BY <1>5, <1>9, <2>1
    <3>2. stops # {}
      BY <1>7, <3>1
    <3>3. o = last /\ last \in Slots(cap) /\ At(last).key = Undefined
      BY <1>6, <2>1, <3>2, EntryKinds
    <3>4. last <= last
      BY <1>5, <3>3
    <3> HIDE DEF o, last, At
    <3>. QED  BY <3>3, <3>4
  <2>2. CASE passed # {}
    <3>1. Min(passed) \in passed
      <4> HIDE DEF passed
      <4>. QED  BY <1>5, <2>2, MinIsLeast
    <3>2. o = Min(passed)
      BY <2>2
    <3>3. o \in Slots(cap) /\ o < last /\ At(o) = Tombstone
      <4> HIDE DEF o, At, last
      <4>. QED  BY <3>1, <3>2
    <3>4. last \in Nat
      BY <1>5, <1>6, <1>7
    <3> HIDE DEF o, last
    <3>. QED  BY <1>5, <3>3, <3>4, EntryKinds
  <2>. QED  BY <2>1, <2>2
<1>11. \A j \in Slots(cap) : j < o => At(j) # Tombstone
  <2> SUFFICES ASSUME NEW j \in Slots(cap), j < o, At(j) = Tombstone PROVE FALSE
    OBVIOUS
  <2>1. j < last
    <3>1. last \in Nat
      BY <1>5, <1>6, <1>7
    <3> HIDE DEF o, last
    <3>. QED  BY <1>5, <1>10, <3>1
  <2>2. j \in passed
    BY <2>1
  <2>3. Min(passed) <= j /\ o = Min(passed) /\ Min(passed) \in Nat
    <3>1. o = Min(passed)
      BY <2>2
    <3> HIDE DEF passed, o
    <3>. QED  BY <1>5, <2>2, <3>1, MinIsLeast
  <2> HIDE DEF o, passed
  <2>. QED  BY <1>5, <2>3
<1>12. \A j \in Slots(cap) : j < o => At(j).key \notin {Undefined, k}
  <2> SUFFICES ASSUME NEW j \in Slots(cap), j < o PROVE At(j).key \notin {Undefined, k}
    OBVIOUS
  <2>1. j < last
    <3>1. last \in Nat
      BY <1>5, <1>6, <1>7
    <3> HIDE DEF o, last
    <3>. QED  BY <1>5, <1>10, <3>1
  <2> HIDE DEF At, last, o
  <2>2. At(j) # Open /\ At(j).key # k
    BY <1>8, <2>1
  <2>3. At(j) # Tombstone
    BY <1>11
  <2>4. At(j).key = Undefined => At(j) = Open \/ At(j) = Tombstone
    <3>1. Probe(h, j, cap) \in Slots(cap)
      BY <1>1, ProbeSlots
    <3>. QED  BY <3>1, EntryKinds DEF At
  <2>. QED  BY <2>2, <2>3, <2>4
<1> HIDE DEF o
<1>13. Offset(h, Probe(h, o, cap), cap) = o /\ Probe(h, o, cap) \in Slots(cap)
  BY <1>1, <1>10, ProbeSlots
<1>. QED
  BY <1>1, <1>3, <1>10, <1>12, <1>13 DEF Passed

\* No key is in the table twice.
LEMMA KeysUnique ==
  ASSUME NEW cap \in Nat \ {0}, NEW es \in Table(cap), Findable(es, cap),
         NEW s \in Used(es), NEW t \in Used(es), es[s].key = es[t].key
  PROVE  s = t
<1>1. /\ FindEntry(es, cap, es[s].key) = [found |-> TRUE, slot |-> s]
      /\ FindEntry(es, cap, es[t].key) = [found |-> TRUE, slot |-> t]
  BY FindEntryFinds
<1>. QED
  BY <1>1

\* A lookup tells whether the key is there.
LEMMA ContainsKey ==
  ASSUME NEW cap \in Nat, NEW es \in Table(cap), Findable(es, cap), NEW k \in Key
  PROVE  Contains(es, cap, k) <=> \E s \in Used(es) : es[s].key = k
<1>1. CASE cap = 0
  <2>1. Used(es) = {}
    BY <1>1, EntryKinds, SlotsAre
  <2>. QED  BY <1>1, <2>1 DEF Contains
<1>2. CASE cap # 0
  <2>1. cap \in Nat \ {0} /\ cap > 0
    BY <1>2
  <2>2. ASSUME FindEntry(es, cap, k).found
        PROVE  \E s \in Used(es) : es[s].key = k
    <3> DEFINE s == FindEntry(es, cap, k).slot
    <3>1. s \in Slots(cap) /\ es[s].key = k
      BY <2>1, <2>2, FindEntryFound
    <3>2. k # Undefined
      BY MapAssumption
    <3>3. s \in Used(es)
      <4> HIDE DEF s
      <4>. QED  BY <3>1, <3>2, EntryKinds DEF Used
    <3>. QED  BY <3>1, <3>3
  <2>3. ASSUME NEW s \in Used(es), es[s].key = k
        PROVE  FindEntry(es, cap, k).found
    <3>1. FindEntry(es, cap, es[s].key) = [found |-> TRUE, slot |-> s]
      BY <2>1, FindEntryFinds
    <3>. QED  BY <2>3, <3>1
  <2>. QED  BY <2>1, <2>2, <2>3 DEF Contains
<1>. QED
  BY <1>1, <1>2

\* What inserting does, and that everything can be found as before.
LEMMA InsertKeeps ==
  ASSUME NEW cap \in Nat \ {0}, NEW es \in Table(cap), Findable(es, cap),
         Cardinality(Used(es)) < cap, NEW k \in Key, NEW v \in Value
  PROVE  \E s \in Slots(cap) :
           /\ Insert(es, cap, k, v) = [es EXCEPT ![s] = [key |-> k, value |-> v]]
           /\ Insert(es, cap, k, v) \in Table(cap)
           /\ Findable(Insert(es, cap, k, v), cap)
           /\ Used(Insert(es, cap, k, v)) = Used(es) \cup {s}
           /\ s \in Used(es) <=> Contains(es, cap, k)
           /\ \A i \in Used(es) : es[i].key = k <=> i = s
<1> DEFINE s == FindEntry(es, cap, k).slot
           new == [key |-> k, value |-> v]
           t == [es EXCEPT ![s] = new]
           h == Home(k, cap)
<1>1. Insert(es, cap, k, v) = t
  BY DEF Insert
<1>2. k # Undefined /\ new \in Entry /\ new.key = k /\ new # Open
  BY MapAssumption DEF Entry, Open
<1>3. \E f \in Slots(cap) : es[f].key = Undefined
  BY SlotLeft
<1>4. s \in Slots(cap)
  BY <1>3, FindEntryFound, FindEntryMissing
<1>5. /\ es[s].key = k \/ es[s].key = Undefined
      /\ es[s].key = k <=> FindEntry(es, cap, k).found
  BY <1>2, <1>3, FindEntryFound, FindEntryMissing
<1>6. FindEntry(es, cap, k).found <=> Contains(es, cap, k)
  BY DEF Contains
<1>7. DOMAIN es = Slots(cap) /\ DOMAIN t = Slots(cap)
  BY EntryKinds
<1>8. /\ t[s] = new /\ \A i \in Slots(cap) : i # s => t[i] = es[i]
      /\ t \in Table(cap)
  <2>1. t[s] = new /\ \A i \in Slots(cap) : i # s => t[i] = es[i]
    BY <1>4, <1>7
  <2>2. \A i \in Slots(cap) : t[i] \in Entry \cup {Open, Tombstone}
    BY <1>2, <2>1, EntryKinds
  <2>3. t = [i \in Slots(cap) |-> t[i]]
    BY <1>7
  <2> HIDE DEF t
  <2>. QED  BY <2>1, <2>2, <2>3 DEF Table
<1> HIDE DEF s, t, new
<1>9. Used(t) = Used(es) \cup {s}
  BY <1>2, <1>4, <1>7, <1>8 DEF Used
<1>10. s \in Used(es) <=> Contains(es, cap, k)
  BY <1>2, <1>4, <1>5, <1>6, <1>7 DEF Used
<1>11. \A i \in Used(es) : es[i].key = k <=> i = s
  <2> TAKE i \in Used(es)
  <2>1. ASSUME es[i].key = k
        PROVE  i = s
    <3>1. FindEntry(es, cap, es[i].key) = [found |-> TRUE, slot |-> i]
      BY FindEntryFinds
    <3>. QED  BY <2>1, <3>1 DEF s
  <2>2. es[i].key # Undefined
    BY DEF Used
  <2>. QED  BY <1>5, <2>1, <2>2
<1>12. Findable(t, cap)
  <2> SUFFICES ASSUME NEW i \in Used(t), NEW j \in Slots(cap),
                      j < Offset(Home(t[i].key, cap), i, cap)
               PROVE  /\ Passed(t, cap, t[i].key, j) # Open
                      /\ Passed(t, cap, t[i].key, j).key # t[i].key
    BY DEF Findable
  <2> DEFINE p == Probe(Home(t[i].key, cap), j, cap)
  <2>1. i \in Slots(cap) /\ t[i].key \in Key
    BY <1>8, EntryKinds DEF Used
  <2>2. Home(t[i].key, cap) \in Slots(cap)
    BY <2>1, HomeSlot
  <2>3. p \in Slots(cap) /\ Offset(Home(t[i].key, cap), p, cap) = j
    BY <2>2, ProbeSlots
  <2>4. Passed(t, cap, t[i].key, j) = t[p]
    BY DEF Passed
  <2>5. j \in Nat /\ p # i
    BY <2>3, SlotsAre
  <2> HIDE DEF p
  <2>6. ASSUME i # s \/ es[s].key = k
        PROVE  t[p] # Open /\ t[p].key # t[i].key
    <3>1. i \in Used(es) /\ t[i].key = es[i].key
      <4>1. es[s].key = k => s \in Used(es)
        BY <1>2, <1>4, <1>7 DEF Used
      <4>. QED  BY <1>2, <1>8, <1>9, <2>1, <2>6, <4>1
    <3>2. es[p] # Open /\ es[p].key # es[i].key
      <4>1. Passed(es, cap, es[i].key, j) = es[p]
        BY <3>1 DEF Passed, p
      <4>. QED  BY <3>1, <4>1 DEF Findable
    <3>3. CASE p = s
      <4>1. t[p] # Open /\ t[p].key = k
        BY <1>2, <1>8, <3>3
      <4>2. es[i].key # k
        BY <1>11, <2>5, <3>1, <3>3
      <4>. QED  BY <3>1, <4>1, <4>2
    <3>4. CASE p # s
      BY <1>8, <2>3, <3>1, <3>2, <3>4
    <3>. QED  BY <3>3, <3>4
  <2>7. ASSUME i = s, es[s].key # k
        PROVE  t[p] # Open /\ t[p].key # t[i].key
    <3>1. ~FindEntry(es, cap, k).found /\ t[i].key = k
      BY <1>2, <1>5, <1>8, <2>7
    <3>2. \A l \in Slots(cap) : l < Offset(Home(k, cap), s, cap)
            => Passed(es, cap, k, l).key \notin {Undefined, k}
      BY <1>3, <3>1, FindEntryMissing DEF s
    <3>3. es[p].key \notin {Undefined, k}
      BY <2>7, <3>1, <3>2 DEF Passed, p
    <3>4. t[p] = es[p]
      BY <1>8, <2>3, <2>5, <2>7
    <3>. QED  BY <3>1, <3>3, <3>4, EntryKinds
  <2>. QED  BY <2>4, <2>6, <2>7
<1>. QED
  BY <1>1, <1>4, <1>8, <1>9, <1>10, <1>11, <1>12 DEF t, new

\* What inserting does to the number of entries in use.
LEMMA InsertCounts ==
  ASSUME NEW cap \in Nat, NEW es \in Table(cap), NEW s \in Slots(cap)
  PROVE  /\ Cardinality(Used(es)) \in Nat
         /\ Cardinality(Used(es) \cup {s})
              = IF s \in Used(es) THEN Cardinality(Used(es)) ELSE Cardinality(Used(es)) + 1
         /\ s \in Used(es) => /\ Cardinality(Used(es) \ {s}) = Cardinality(Used(es)) - 1
                              /\ Cardinality(Used(es)) > 0
<1>1. IsFiniteSet(Used(es))
  BY EntryKinds
<1>2. Cardinality(Used(es)) \in Nat
  BY <1>1, FS_CardinalityType
<1>3. s \in Used(es) => Used(es) \cup {s} = Used(es)
  OBVIOUS
<1>4. Cardinality(Used(es)) = 0 <=> Used(es) = {}
  BY <1>1, FS_EmptySet
<1>5. s \in Used(es) => Cardinality(Used(es) \ {s}) = Cardinality(Used(es)) - 1
  BY <1>1, FS_RemoveElement
<1>6. s \notin Used(es) => Cardinality(Used(es) \cup {s}) = Cardinality(Used(es)) + 1
  BY <1>1, FS_AddElement
<1>7. s \in Used(es) => Cardinality(Used(es)) > 0
  BY <1>2, <1>4
<1>. QED
  BY <1>2, <1>3, <1>5, <1>6, <1>7

\* A tombstone in place of an entry leaves the others where they are found.
LEMMA DeleteKeeps ==
  ASSUME NEW cap \in Nat \ {0}, NEW es \in Table(cap), Findable(es, cap), NEW s \in Used(es)
  PROVE  LET t == [es EXCEPT ![s] = Tombstone]
         IN /\ t \in Table(cap) /\ Findable(t, cap)
            /\ Used(t) = Used(es) \ {s}
<1> DEFINE t == [es EXCEPT ![s] = Tombstone]
<1>1. s \in Slots(cap) /\ DOMAIN es = Slots(cap) /\ DOMAIN t = Slots(cap)
  BY EntryKinds
<1>2. t[s] = Tombstone /\ \A i \in Slots(cap) : i # s => t[i] = es[i]
  BY <1>1
<1>3. t \in Table(cap)
  <2>1. \A i \in Slots(cap) : t[i] \in Entry \cup {Open, Tombstone}
    BY <1>2, EntryKinds
  <2>2. t = [i \in Slots(cap) |-> t[i]]
    BY <1>1
  <2> HIDE DEF t
  <2>. QED  BY <2>1, <2>2 DEF Table
<1> HIDE DEF t
<1>4. Tombstone # Open /\ Tombstone.key = Undefined
  BY EntryKinds
<1>5. Used(t) = Used(es) \ {s}
  BY <1>1, <1>2, <1>4 DEF Used
<1>6. Findable(t, cap)
  <2> SUFFICES ASSUME NEW i \in Used(t), NEW j \in Slots(cap),
                      j < Offset(Home(t[i].key, cap), i, cap)
               PROVE  /\ Passed(t, cap, t[i].key, j) # Open
                      /\ Passed(t, cap, t[i].key, j).key # t[i].key
    BY DEF Findable
  <2> DEFINE p == Probe(Home(t[i].key, cap), j, cap)
  <2>1. i \in Used(es) /\ i # s /\ i \in Slots(cap) /\ t[i] = es[i]
    BY <1>1, <1>2, <1>5, EntryKinds
  <2>2. es[i].key \in Key /\ es[i].key # Undefined
    BY <2>1, EntryKinds DEF Used
  <2>3. p \in Slots(cap)
    BY <2>1, <2>2, HomeSlot, ProbeSlots
  <2>4. Passed(t, cap, t[i].key, j) = t[p] /\ Passed(es, cap, es[i].key, j) = es[p]
    BY <2>1 DEF Passed
  <2> HIDE DEF p
  <2>5. es[p] # Open /\ es[p].key # es[i].key
    BY <2>1, <2>4 DEF Findable
  <2>. QED  BY <1>2, <1>4, <2>1, <2>2, <2>3, <2>4, <2>5
<1>. QED
  BY <1>3, <1>5, <1>6 DEF t

-----------------------------------------------------------------------------
(* The load factor.                                                         *)

LEMMA Products ==
  ASSUME NEW a \in Nat, NEW b \in Nat, NEW c \in Nat, a <= b
  PROVE  a * c <= b * c /\ a * c \in Nat /\ b * c \in Nat
  OBVIOUS

\* A hundredth is rounded down.
LEMMA Hundredths ==
  ASSUME NEW n \in Nat
  PROVE  /\ n \div 100 \in Nat
         /\ 100 * (n \div 100) <= n /\ n < 100 * (n \div 100) + 100
  OBVIOUS

LEMMA LoadType ==
  ASSUME NEW cap \in Nat
  PROVE  /\ cap * LoadPercent \in Nat /\ Load(cap) \in Nat
         /\ 100 * Load(cap) <= cap * LoadPercent
         /\ cap * LoadPercent < 100 * Load(cap) + 100
<1>1. cap * LoadPercent \in Nat
  BY Products, MapAssumption
<1>. QED
  BY <1>1, Hundredths DEF Load

\* A table is never full.
LEMMA LoadBounds ==
  ASSUME NEW cap \in Nat
  PROVE  /\ Load(0) = 0
         /\ cap > 0 => Load(cap) < cap
<1>1. Load(0) = 0
  BY MapAssumption DEF Load
<1>2. LoadPercent * cap <= 99 * cap
  BY MapAssumption, Products
<1>3. LoadPercent * cap = cap * LoadPercent
  BY MapAssumption
<1>4. 100 * Load(cap) <= 99 * cap
  BY <1>2, <1>3, LoadType, MapAssumption
<1>. QED
  BY <1>1, <1>4, LoadType

LEMMA LoadMonotone ==
  ASSUME NEW a \in Nat, NEW b \in Nat, a <= b
  PROVE  Load(a) <= Load(b)
<1>1. a * LoadPercent <= b * LoadPercent
  BY Products, MapAssumption
<1> DEFINE x == a * LoadPercent
           y == b * LoadPercent
           p == Load(a)
           q == Load(b)
<1>2. /\ x \in Nat /\ p \in Nat /\ 100 * p <= x /\ x < 100 * p + 100
      /\ y \in Nat /\ q \in Nat /\ 100 * q <= y /\ y < 100 * q + 100
  BY LoadType
<1>3. x <= y
  BY <1>1
<1> HIDE DEF x, y, p, q
<1>4. p <= q
  BY <1>2, <1>3
<1>. QED
  BY <1>4 DEF p, q

\* A table that is at least twice as large has room for one more.
LEMMA LoadGrows ==
  ASSUME NEW a \in Nat, NEW b \in Nat, 2 * a <= b, b >= MinCapacity
  PROVE  Load(a) + 1 <= Load(b)
<1>1. (2 * a) * LoadPercent <= b * LoadPercent /\ MinCapacity * LoadPercent <= b * LoadPercent
  BY Products, MapAssumption
<1>2. (2 * a) * LoadPercent = 2 * (a * LoadPercent)
  BY MapAssumption
<1> DEFINE x == a * LoadPercent
           y == b * LoadPercent
           p == Load(a)
           q == Load(b)
<1>3. /\ x \in Nat /\ p \in Nat /\ 100 * p <= x /\ x < 100 * p + 100
      /\ y \in Nat /\ q \in Nat /\ 100 * q <= y /\ y < 100 * q + 100
  BY LoadType
<1>4. 2 * x <= y
  BY <1>1, <1>2
<1>5. 100 <= y
  <2>1. MinCapacity * LoadPercent >= 100 /\ MinCapacity * LoadPercent \in Nat
    BY MapAssumption, Products
  <2>. QED  BY <1>1, <1>3, <2>1
<1> HIDE DEF x, y, p, q
<1>6. p + 1 <= q
  BY <1>3, <1>4, <1>5
<1>. QED
  BY <1>6 DEF p, q

\* Dividing by GROW_FACTOR at least halves.
LEMMA Halves ==
  ASSUME NEW cap \in Nat
  PROVE  /\ cap \div GrowFactor \in Nat /\ 2 * (cap \div GrowFactor) <= cap
         /\ cap * GrowFactor \in Nat /\ 2 * cap <= cap * GrowFactor
         /\ (cap * GrowFactor) \div GrowFactor = cap
         /\ MinCapacity > 0
<1> DEFINE d == cap \div GrowFactor
<1>1. GrowFactor \in Nat /\ GrowFactor >= 2
  BY MapAssumption
<1>2. d \in Nat /\ GrowFactor * d <= cap
  BY <1>1
<1> HIDE DEF d
<1>3. 2 * d <= GrowFactor * d
  BY <1>1, <1>2, Products
<1>4. GrowFactor * d \in Nat
  BY <1>1, <1>2, Products
<1>5. 2 * d <= cap
  BY <1>2, <1>3, <1>4
<1>6. 2 * cap <= GrowFactor * cap /\ GrowFactor * cap = cap * GrowFactor
  BY <1>1, Products
<1>7. (cap * GrowFactor) \div GrowFactor = cap
  BY <1>1
<1>8. cap * GrowFactor \in Nat
  BY <1>1, Products
<1>9. MinCapacity > 0
  <2>1. MinCapacity = 0 => MinCapacity * LoadPercent = 0
    BY MapAssumption
  <2>. QED  BY <2>1, MapAssumption
<1>. QED
  BY <1>2, <1>5, <1>6, <1>7, <1>8, <1>9 DEF d

-----------------------------------------------------------------------------
(* The steps preserve the invariant.                                        *)

LEMMA InitKeeps == Init => IInv
<1> SUFFICES ASSUME Init PROVE IInv
  OBVIOUS
<1>1. /\ entries = NoEntries /\ capacity = 0 /\ count = 0 /\ pending = Idle
      /\ looping = FALSE /\ iterator = NoIndex
  BY DEF Init
<1>2. Slots(0) = {}
  BY DEF Slots
<1>3. entries \in Table(0) /\ Used(entries) = {}
  BY <1>1, <1>2 DEF Table, NoEntries, Used
<1>4. Cardinality(Used(entries)) = 0
  BY <1>3, FS_EmptySet
<1>5. Findable(entries, 0)
  BY <1>3 DEF Findable
<1>6. Stored
  BY <1>1, <1>3, <1>4, <1>5 DEF Stored
<1>7. ~(0 > MinCapacity)
  BY MapAssumption
<1>8. Loaded
  BY <1>1, <1>7 DEF Loaded
<1>9. Iterated
  BY <1>1 DEF Iterated
<1>. QED
  BY <1>1, <1>6, <1>8, <1>9 DEF IInv

\* The keys that stay in the same array stay where they are.
LEMMA LoopKept ==
  ASSUME Iterated, NEW keys, Observe(keys),
         \/ rehashed'
         \/ rehashed' = rehashed /\ \A i \in Used(entries) : entries[i].key \in keys
              => i \in Used(entries') /\ entries'[i].key = entries[i].key
  PROVE  Iterated'
<1>1. /\ visited' = visited \cap keys /\ unvisited' = unvisited \cap keys
      /\ UNCHANGED <<looping, iterator>>
  BY DEF Observe
<1>. QED
  BY <1>1 DEF Iterated

\* A resizing begins with an empty array and nothing gone over.
LEMMA StartCopies ==
  ASSUME Stored', NEW cap \in Nat, cap >= MinCapacity, NEW op \in Setting \cup {Removing},
         StartResize(cap, op), count' <= Load(cap), op \in Setting => count' < Load(cap),
         cap > MinCapacity => count' >= Load(cap \div GrowFactor),
         op = Removing => capacity' > 0
  PROVE  Copied'
<1>1. pending' = op /\ resized' = [i \in Slots(cap) |-> Open] /\ copied' = 0
  BY DEF StartResize
<1>2. NewCapacity' = cap
  BY <1>1, SlotsAre DEF NewCapacity
<1>3. resized' \in Table(cap) /\ Used(resized') = {}
  BY <1>1 DEF Table, Used, Open
<1>4. Findable(resized', cap)
  BY <1>3 DEF Findable
<1>5. Before(copied)' = {}
  <2>1. \A i \in Used(entries') : ~(i < 0)
    <3>1. entries' \in Table(capacity') /\ capacity' \in Nat
      BY DEF Stored
    <3>2. Used(entries') \subseteq Nat
      BY <3>1, EntryKinds, SlotsAre
    <3>. QED  BY <3>2
  <2>. QED  BY <1>1, <2>1 DEF Before
<1>. QED
  BY <1>1, <1>2, <1>3, <1>4, <1>5 DEF Copied

LEMMA MapSetKeeps ==
  ASSUME NEW k \in Key, NEW v \in Value, IInv, MapSet(k, v)
  PROVE  IInv'
<1>1. /\ pending = Idle /\ capacity \in Nat /\ count \in Nat
      /\ entries \in Table(capacity) /\ Findable(entries, capacity)
      /\ count = Cardinality(Used(entries))
  BY DEF MapSet, IInv, Stored
<1>2. CASE count + 1 > Load(capacity)
  <2> DEFINE cap == Max({capacity * GrowFactor, MinCapacity})
             op == [op |-> "set", key |-> k, value |-> v]
  <2>1. StartResize(cap, op) /\ UNCHANGED <<table, loop>>
    BY <1>2 DEF MapSet
  <2>2. op \in Setting /\ op # Removing /\ op # Idle
    BY DEF Setting, Removing, Idle
  <2>3. UNCHANGED <<entries, capacity, count>>
    BY <2>1 DEF table
  <2>4. Stored' /\ Loaded' /\ Iterated'
    <3>1. pending' # Idle
      BY <2>1, <2>2 DEF StartResize
    <3>. QED  BY <2>1, <2>3, <3>1 DEF IInv, Stored, Loaded, Iterated, loop
  <2>5. /\ capacity * GrowFactor \in Nat /\ 2 * capacity <= capacity * GrowFactor
        /\ (capacity * GrowFactor) \div GrowFactor = capacity /\ MinCapacity > 0
        /\ MinCapacity \in Nat
    BY <1>1, Halves, MapAssumption
  <2> HIDE DEF op
  <2>6. cap = IF capacity * GrowFactor >= MinCapacity THEN capacity * GrowFactor ELSE MinCapacity
    BY <2>5, MaxOfTwo
  <2> HIDE DEF cap
  <2>7. cap \in Nat /\ cap >= MinCapacity /\ 2 * capacity <= cap
    BY <1>1, <2>5, <2>6
  <2>8. /\ Load(capacity) + 1 <= Load(cap) /\ Load(capacity) \in Nat /\ Load(cap) \in Nat
    BY <1>1, <2>7, LoadGrows, LoadType
  <2>9. count <= Load(capacity)
    <3>1. CASE capacity = 0
      <4>1. Used(entries) = {}
        BY <1>1, <3>1, EntryKinds, SlotsAre
      <4>2. count = 0
        BY <1>1, <4>1, FS_EmptySet
      <4>. QED  BY <2>8, <4>2
    <3>2. CASE capacity > 0
      BY <3>2 DEF IInv, Loaded
    <3>. QED  BY <1>1, <3>1, <3>2
  <2>10. count < Load(cap) /\ count <= Load(cap)
    BY <1>1, <2>8, <2>9
  <2>11. cap > MinCapacity => count >= Load(cap \div GrowFactor)
    <3> HAVE cap > MinCapacity
    <3>1. cap = capacity * GrowFactor
      BY <2>5, <2>6
    <3>2. cap \div GrowFactor = capacity
      BY <2>5, <3>1
    <3>. QED  BY <1>1, <1>2, <2>8, <3>2
  <2>12. Copied'
    BY <2>1, <2>2, <2>3, <2>4, <2>7, <2>10, <2>11, StartCopies
  <2>. QED  BY <2>4, <2>12 DEF IInv
<1>3. CASE count + 1 <= Load(capacity)
  <2>1. /\ entries' = Insert(entries, capacity, k, v)
        /\ count' = IF Contains(entries, capacity, k) THEN count ELSE count + 1
        /\ Observe(LiveKeys(entries'))
        /\ UNCHANGED <<capacity, pending, rehashed>>
    <3>1. ~(count + 1 > Load(capacity))
      BY <1>1, <1>3, LoadType
    <3>. QED  BY <3>1 DEF MapSet, resizing
  <2>2. capacity \in Nat \ {0} /\ count < capacity
    <3>1. Load(capacity) \in Nat /\ Load(0) = 0
      BY <1>1, LoadBounds, LoadType
    <3>2. capacity # 0
      BY <1>1, <1>3, <3>1
    <3>3. Load(capacity) < capacity
      BY <1>1, <3>2, LoadBounds
    <3>. QED  BY <1>1, <1>3, <3>1, <3>2, <3>3
  <2>3. PICK s \in Slots(capacity) :
          /\ entries' = [entries EXCEPT ![s] = [key |-> k, value |-> v]]
          /\ entries' \in Table(capacity)
          /\ Findable(entries', capacity)
          /\ Used(entries') = Used(entries) \cup {s}
          /\ s \in Used(entries) <=> Contains(entries, capacity, k)
          /\ \A i \in Used(entries) : entries[i].key = k <=> i = s
    <3> DEFINE t == Insert(entries, capacity, k, v)
    <3>1. \E s \in Slots(capacity) :
            /\ t = [entries EXCEPT ![s] = [key |-> k, value |-> v]]
            /\ t \in Table(capacity) /\ Findable(t, capacity)
            /\ Used(t) = Used(entries) \cup {s}
            /\ s \in Used(entries) <=> Contains(entries, capacity, k)
            /\ \A i \in Used(entries) : entries[i].key = k <=> i = s
      BY <1>1, <2>2, InsertKeeps
    <3>2. entries' = t
      BY <2>1
    <3> HIDE DEF t
    <3>. QED  BY <3>1, <3>2
  <2>4. /\ count' = Cardinality(Used(entries')) /\ count' \in Nat
        /\ count' > 0 /\ count <= count' /\ count' <= count + 1
    <3>1. /\ Cardinality(Used(entries) \cup {s})
               = IF s \in Used(entries) THEN count ELSE count + 1
          /\ s \in Used(entries) => count > 0
      BY <1>1, InsertCounts
    <3>2. Used(entries') = Used(entries) \cup {s} /\ (s \in Used(entries) <=> Contains(entries, capacity, k))
      BY <2>3
    <3>3. CASE s \in Used(entries)
      <4>1. count' = count
        BY <2>1, <3>2, <3>3
      <4>. QED  BY <1>1, <3>1, <3>2, <3>3, <4>1
    <3>4. CASE s \notin Used(entries)
      <4>1. count' = count + 1
        BY <2>1, <3>2, <3>4
      <4>. QED  BY <1>1, <3>1, <3>2, <3>4, <4>1
    <3>. QED  BY <3>3, <3>4
  <2>5. Stored'
    BY <1>1, <2>1, <2>3, <2>4 DEF Stored
  <2>6. Loaded'
    <3>1. capacity >= MinCapacity
      BY <2>2 DEF IInv, Loaded
    <3>2. count' <= Load(capacity)
      BY <1>1, <1>3, <2>4, LoadType
    <3>3. capacity > MinCapacity => count' >= Load(capacity \div GrowFactor)
      <4>1. capacity > MinCapacity => count >= Load(capacity \div GrowFactor)
        BY <1>1 DEF IInv, Loaded
      <4>2. Load(capacity \div GrowFactor) \in Nat
        BY <1>1, Halves, LoadType
      <4>. QED  BY <1>1, <2>4, <4>1, <4>2
    <3>. QED  BY <2>1, <2>4, <3>1, <3>2, <3>3 DEF Loaded
  <2>7. Iterated'
    <3>1. \A i \in Used(entries) : i \in Used(entries') /\ entries'[i].key = entries[i].key
      BY <1>1, <2>3, EntryKinds
    <3>. QED  BY <2>1, <3>1, LoopKept DEF IInv
  <2>. QED  BY <1>1, <2>1, <2>5, <2>6, <2>7 DEF IInv
<1>. QED
  BY <1>1, <1>2, <1>3, LoadType

\* Removal: the entry becomes a tombstone, and the table then goes away, stays
\* or begins to shrink.
LEMMA MapRemoveKeyKeeps ==
  ASSUME NEW k \in Key, IInv, MapRemoveKey(k)
  PROVE  IInv'
<1> DEFINE s == FindEntry(entries, capacity, k).slot
           left == [entries EXCEPT ![s] = Deleted]
<1>1. /\ pending = Idle /\ capacity \in Nat /\ count \in Nat
      /\ entries \in Table(capacity) /\ Findable(entries, capacity)
      /\ count = Cardinality(Used(entries))
  BY DEF MapRemoveKey, IInv, Stored
<1>2. capacity \in Nat \ {0} /\ capacity > 0 /\ FindEntry(entries, capacity, k).found
  BY <1>1 DEF MapRemoveKey, Contains
<1>3. s \in Used(entries) /\ entries[s].key = k
  <2>1. s \in Slots(capacity) /\ entries[s].key = k /\ k # Undefined
    BY <1>1, <1>2, FindEntryFound, MapAssumption
  <2> HIDE DEF s
  <2>. QED  BY <1>1, <2>1, EntryKinds DEF Used
<1>4. /\ count' = count - 1 /\ Observe(LiveKeys(left))
      /\ \/ /\ count = 1 /\ entries' = NoEntries /\ capacity' = 0
            /\ rehashed' = TRUE /\ UNCHANGED pending
         \/ /\ count # 1 /\ ~Sparse(count - 1) /\ entries' = left
            /\ UNCHANGED <<capacity, pending, rehashed>>
         \/ /\ count # 1 /\ Sparse(count - 1) /\ entries' = left
            /\ StartResize(Max({capacity \div GrowFactor, MinCapacity}), Removing)
            /\ UNCHANGED <<capacity, rehashed>>
  BY DEF MapRemoveKey, ClearedCapacity, resizing, Removing
<1> HIDE DEF s
<1>5. /\ left \in Table(capacity) /\ Findable(left, capacity)
      /\ Used(left) = Used(entries) \ {s}
  BY <1>1, <1>2, <1>3, DeleteKeeps DEF Deleted
<1>6. /\ count > 0 /\ count - 1 \in Nat /\ count - 1 = Cardinality(Used(left))
  <2>1. s \in Slots(capacity)
    BY <1>1, <1>3, EntryKinds
  <2>. QED  BY <1>1, <1>3, <1>5, <2>1, InsertCounts, ZenonT(30)
<1>7. \A i \in Used(entries) : entries[i].key \in LiveKeys(left)
        => i \in Used(left) /\ left[i].key = entries[i].key
  <2> SUFFICES ASSUME NEW i \in Used(entries), entries[i].key \in LiveKeys(left)
               PROVE  i \in Used(left) /\ left[i].key = entries[i].key
    OBVIOUS
  <2>1. DOMAIN left = Slots(capacity) /\ DOMAIN entries = Slots(capacity)
    BY <1>1, <1>5, EntryKinds
  <2>2. PICK j \in DOMAIN left : left[j].key = entries[i].key /\ left[j].key # Undefined
    BY DEF LiveKeys
  <2>3. j \in Used(left) /\ j # s /\ j \in Used(entries)
    BY <1>5, <2>2 DEF Used
  <2>4. left[j] = entries[j] /\ i \in DOMAIN entries
    BY <2>1, <2>2, <2>3 DEF Used
  <2>5. i = j
    BY <1>1, <1>2, <2>2, <2>3, <2>4, KeysUnique
  <2>. QED  BY <2>2, <2>3, <2>5
<1> HIDE DEF left
<1>8. count <= Load(capacity) /\ capacity >= MinCapacity
  BY <1>2 DEF IInv, Loaded
<1>9. CASE count = 1
  <2>1. /\ count' = 0 /\ entries' = NoEntries /\ capacity' = 0
        /\ rehashed' = TRUE /\ pending' = Idle
    BY <1>1, <1>4, <1>9
  <2>2. entries' \in Table(0) /\ Used(entries') = {}
    BY <2>1 DEF Table, NoEntries, Used, Slots
  <2>3. Stored'
    BY <2>1, <2>2, FS_EmptySet DEF Stored, Findable
  <2>4. Loaded'
    BY <2>1, MapAssumption DEF Loaded
  <2>5. Iterated'
    BY <1>4, <2>1, LoopKept DEF IInv
  <2>. QED  BY <2>1, <2>3, <2>4, <2>5 DEF IInv
<1>10. CASE count # 1
  <2>1. entries' = left /\ capacity' = capacity /\ rehashed' = rehashed /\ count' = count - 1
    BY <1>4, <1>10
  <2>2. Stored'
    BY <1>1, <1>5, <1>6, <2>1 DEF Stored
  <2>3. Iterated'
    BY <1>4, <1>7, <2>1, LoopKept DEF IInv
  <2>4. count' > 0 /\ count' \in Nat /\ count' <= Load(capacity)
    BY <1>1, <1>6, <1>8, <1>10, <2>1, LoadType
  <2>5. CASE ~Sparse(count - 1)
    <3>1. pending' = Idle
      BY <1>1, <1>4, <1>10, <2>5
    <3>2. capacity > MinCapacity => count - 1 >= Load(capacity \div GrowFactor)
      <4>1. Load(capacity \div GrowFactor) \in Nat
        BY <1>1, Halves, LoadType
      <4>. QED  BY <1>6, <2>5, <4>1 DEF Sparse
    <3>3. Loaded'
      BY <1>8, <2>1, <2>4, <3>2 DEF Loaded
    <3>. QED  BY <2>2, <2>3, <3>1, <3>3 DEF IInv
  <2>6. CASE Sparse(count - 1)
    <3> DEFINE d == capacity \div GrowFactor
               cap == Max({d, MinCapacity})
    <3>1. StartResize(cap, Removing)
      BY <1>4, <1>10, <2>6
    <3>2. /\ d \in Nat /\ 2 * d <= capacity /\ MinCapacity \in Nat
          /\ capacity > MinCapacity /\ count - 1 < Load(d)
      BY <1>1, <2>6, Halves, MapAssumption DEF Sparse
    <3>3. count >= Load(d)
      BY <1>1, <3>2 DEF IInv, Loaded
    <3> HIDE DEF d
    <3>4. cap = IF d >= MinCapacity THEN d ELSE MinCapacity
      BY <3>2, MaxOfTwo
    <3> HIDE DEF cap
    <3>5. cap \in Nat /\ cap >= MinCapacity /\ d <= cap
      BY <3>2, <3>4
    <3>6. Load(d) <= Load(cap) /\ Load(d) \in Nat /\ Load(cap) \in Nat
      BY <3>2, <3>5, LoadMonotone, LoadType
    <3>7. count' <= Load(cap)
      BY <1>1, <2>1, <3>2, <3>6
    <3>8. cap > MinCapacity => count' >= Load(cap \div GrowFactor)
      <4> HAVE cap > MinCapacity
      <4>1. cap = d
        BY <3>2, <3>4
      <4>2. d \div GrowFactor \in Nat /\ 2 * (d \div GrowFactor) <= d
        BY <3>2, Halves
      <4>3. Load(d \div GrowFactor) + 1 <= Load(d) /\ Load(d \div GrowFactor) \in Nat
        BY <3>2, <3>5, <4>1, <4>2, LoadGrows, LoadType
      <4>. QED  BY <1>1, <2>1, <3>3, <3>6, <4>1, <4>3
    <3>9. Removing \notin Setting /\ pending' = Removing /\ Removing # Idle
      BY <3>1 DEF Removing, Setting, StartResize, Idle
    <3>10. Copied'
      BY <1>2, <2>1, <2>2, <3>1, <3>5, <3>7, <3>8, <3>9, StartCopies
    <3>11. Loaded'
      BY <1>8, <2>1, <2>4, <3>9 DEF Loaded
    <3>. QED  BY <2>2, <2>3, <3>10, <3>11 DEF IInv
  <2>. QED  BY <2>5, <2>6
<1>. QED
  BY <1>9, <1>10

LEMMA MapClearKeeps ==
  ASSUME IInv, MapClear
  PROVE  IInv'
<1>1. /\ count' = 0 /\ entries' = NoEntries /\ capacity' = 0
      /\ rehashed' = TRUE /\ pending' = Idle /\ Observe({})
  BY DEF MapClear, ClearedCapacity, resizing
<1>2. entries' \in Table(0) /\ Used(entries') = {}
  BY <1>1 DEF Table, NoEntries, Used, Slots
<1>3. Stored'
  BY <1>1, <1>2, FS_EmptySet DEF Stored, Findable
<1>4. Loaded'
  BY <1>1, MapAssumption DEF Loaded
<1>5. Iterated'
  BY <1>1, LoopKept DEF IInv
<1>. QED
  BY <1>1, <1>3, <1>4, <1>5 DEF IInv

\* The new array has room for the entry that is copied, and not yet its key.
LEMMA CopyEntryKeeps ==
  ASSUME IInv, CopyEntry
  PROVE  IInv'
<1> DEFINE i == Min(ToCopy)
           t == Insert(resized, NewCapacity, entries[i].key, entries[i].value)
<1>1. /\ capacity \in Nat /\ count \in Nat
      /\ entries \in Table(capacity) /\ Findable(entries, capacity)
      /\ count = Cardinality(Used(entries))
  BY DEF IInv, Stored
<1>2. pending # Idle /\ Copied /\ ToCopy # {}
  BY DEF CopyEntry, IInv
<1>3. copied' = i + 1 /\ resized' = t /\ UNCHANGED <<table, pending, loop>>
  BY DEF CopyEntry, NewCapacity
<1>4. UNCHANGED <<entries, capacity, count, looping, iterator, visited, unvisited, rehashed>>
  BY <1>3 DEF table, loop
<1>5. /\ copied \in Nat /\ NewCapacity \in Nat /\ NewCapacity >= MinCapacity
      /\ resized \in Table(NewCapacity) /\ Findable(resized, NewCapacity)
      /\ Cardinality(Used(resized)) = Cardinality(Before(copied))
      /\ count <= Load(NewCapacity)
  BY <1>2 DEF Copied
<1>6. Used(entries) \subseteq Nat /\ IsFiniteSet(Used(entries)) /\ DOMAIN entries = Slots(capacity)
  BY <1>1, EntryKinds, SlotsAre
<1>7. i \in Used(entries) /\ i \in Nat /\ i >= copied /\ \A j \in Used(entries) : j >= copied => i <= j
  <2>1. ToCopy = {j \in Used(entries) : j >= copied}
    BY DEF ToCopy, Used
  <2>2. ToCopy \in SUBSET Nat
    BY <1>6, <2>1
  <2>3. Min(ToCopy) \in ToCopy /\ Min(ToCopy) \in Nat /\ \A j \in ToCopy : Min(ToCopy) <= j
    BY <1>2, <2>2, MinIsLeast
  <2>. QED  BY <2>1, <2>3
<1> HIDE DEF i
<1>8. entries[i] = [key |-> entries[i].key, value |-> entries[i].value]
      /\ entries[i].key \in Key /\ entries[i].value \in Value /\ entries[i].key # Undefined
  <2>1. entries[i] \in Entry /\ entries[i].key # Undefined
    BY <1>1, <1>6, <1>7, EntryKinds DEF Used
  <2>. QED  BY <2>1 DEF Entry
<1>9. Before(copied) \cup {i} = {j \in Used(entries) : j < i + 1} /\ i \notin Before(copied)
  BY <1>5, <1>6, <1>7 DEF Before
<1>10. /\ IsFiniteSet(Before(copied)) /\ Cardinality(Before(copied)) \in Nat
       /\ Cardinality(Before(copied) \cup {i}) = Cardinality(Before(copied)) + 1
       /\ Cardinality(Before(copied) \cup {i}) <= count
  <2>1. Before(copied) \subseteq Used(entries) /\ Before(copied) \cup {i} \subseteq Used(entries)
    BY <1>7 DEF Before
  <2>2. IsFiniteSet(Before(copied)) /\ Cardinality(Before(copied) \cup {i}) <= count
    BY <1>1, <1>6, <2>1, FS_Subset
  <2>. QED  BY <1>9, <2>2, FS_CardinalityType, FS_AddElement
<1>11. NewCapacity \in Nat \ {0} /\ Cardinality(Used(resized)) < NewCapacity
  <2>1. Load(NewCapacity) \in Nat /\ Load(0) = 0 /\ Cardinality(Used(resized)) < Load(NewCapacity)
    BY <1>1, <1>5, <1>10, LoadType, LoadBounds
  <2>2. NewCapacity # 0
    BY <1>5, <1>10, <2>1
  <2>3. Load(NewCapacity) < NewCapacity
    BY <1>5, <2>2, LoadBounds
  <2>. QED  BY <1>5, <1>10, <2>1, <2>2, <2>3
<1>12. \A j \in Used(resized) : resized[j].key # entries[i].key
  <2> SUFFICES ASSUME NEW j \in Used(resized), resized[j].key = entries[i].key
               PROVE  FALSE
    OBVIOUS
  <2>1. PICK h \in Before(copied) : resized[j] = entries[h]
    BY <1>2 DEF Copied
  <2>2. h \in Used(entries) /\ h # i
    BY <1>9, <2>1 DEF Before
  <2>3. capacity \in Nat \ {0}
    <3>1. Slots(0) = {}
      BY DEF Slots
    <3>. QED  BY <1>1, <1>6, <1>7, <3>1 DEF Used
  <2>. QED  BY <1>1, <1>7, <2>1, <2>2, <2>3, KeysUnique
<1>13. PICK s \in Slots(NewCapacity) :
         /\ t = [resized EXCEPT ![s] = [key |-> entries[i].key, value |-> entries[i].value]]
         /\ t \in Table(NewCapacity) /\ Findable(t, NewCapacity)
         /\ Used(t) = Used(resized) \cup {s}
         /\ s \in Used(resized) <=> Contains(resized, NewCapacity, entries[i].key)
  BY <1>5, <1>8, <1>11, InsertKeeps
<1>14. s \notin Used(resized)
  BY <1>5, <1>8, <1>12, <1>13, ContainsKey
<1> HIDE DEF t
<1>15. DOMAIN resized = Slots(NewCapacity) /\ DOMAIN t = Slots(NewCapacity)
  BY <1>5, <1>13, EntryKinds
<1>16. NewCapacity' = NewCapacity
  BY <1>3, <1>15 DEF NewCapacity
<1>17. Before(copied)' = Before(copied) \cup {i}
  BY <1>3, <1>4, <1>9 DEF Before
<1>18. Cardinality(Used(t)) = Cardinality(Before(copied) \cup {i})
  <2>1. Cardinality(Used(resized) \cup {s})
          = IF s \in Used(resized) THEN Cardinality(Used(resized)) ELSE Cardinality(Used(resized)) + 1
    BY <1>5, InsertCounts
  <2>2. Used(t) = Used(resized) \cup {s}
    BY <1>13
  <2>. QED  BY <1>5, <1>10, <1>14, <2>1, <2>2
<1>19. t[s] = entries[i] /\ \A j \in Used(resized) : t[j] = resized[j]
  <2>1. Used(resized) \subseteq Slots(NewCapacity)
    BY <1>5, EntryKinds
  <2>. QED  BY <1>8, <1>13, <1>14, <1>15, <2>1
<1>20. \A h \in Before(copied) \cup {i} : \E j \in Used(t) : t[j] = entries[h]
  <2>1. \A h \in Before(copied) : \E j \in Used(resized) : resized[j] = entries[h]
    BY <1>2 DEF Copied
  <2>. QED  BY <1>13, <1>19, <2>1
<1>21. \A j \in Used(t) : \E h \in Before(copied) \cup {i} : t[j] = entries[h]
  <2>1. \A j \in Used(resized) : \E h \in Before(copied) : resized[j] = entries[h]
    BY <1>2 DEF Copied
  <2>. QED  BY <1>13, <1>19, <2>1, ZenonT(30)
<1>22. copied' \in Nat
  BY <1>3, <1>7
<1>23. Used(resized)' = Used(t) /\ resized' = t
  BY <1>3 DEF Used
<1>24. /\ pending' \in Setting \cup {Removing}
       /\ count' <= Load(NewCapacity)
       /\ pending' \in Setting => count' < Load(NewCapacity)
       /\ NewCapacity > MinCapacity => count' >= Load(NewCapacity \div GrowFactor)
       /\ pending' = Removing => capacity' > 0
  BY <1>2, <1>3, <1>4 DEF Copied
<1>25. Copied'
  <2>1. \A h \in Before(copied)' : \E j \in Used(resized') : resized'[j] = entries'[h]
    BY <1>4, <1>17, <1>20, <1>23
  <2>2. \A j \in Used(resized') : \E h \in Before(copied)' : resized'[j] = entries'[h]
    BY <1>4, <1>17, <1>21, <1>23
  <2>3. resized' \in Table(NewCapacity') /\ Findable(resized', NewCapacity')
    BY <1>13, <1>16, <1>23
  <2>4. Cardinality(Used(resized')) = Cardinality(Before(copied)')
    BY <1>17, <1>18, <1>23
  <2>5. /\ pending' \in Setting \cup {Removing}
        /\ count' <= Load(NewCapacity')
        /\ pending' \in Setting => count' < Load(NewCapacity')
        /\ NewCapacity' > MinCapacity => count' >= Load(NewCapacity' \div GrowFactor)
        /\ pending' = Removing => capacity' > 0
    BY <1>16, <1>24
  <2>6. NewCapacity' \in Nat /\ NewCapacity' >= MinCapacity
    BY <1>5, <1>16
  <2>. QED  BY <1>22, <2>1, <2>2, <2>3, <2>4, <2>5, <2>6 DEF Copied
<1>26. Stored' /\ Loaded' /\ Iterated'
  BY <1>3, <1>4 DEF IInv, Stored, Loaded, Iterated
<1>. QED
  BY <1>25, <1>26 DEF IInv

\* A key is in the new array when it is in the old one, once all is copied.
LEMMA AllCopied ==
  ASSUME IInv, pending # Idle, ToCopy = {}
  PROVE  /\ Before(copied) = Used(entries)
         /\ Cardinality(Used(resized)) = count
         /\ \A k \in Key : Contains(resized, NewCapacity, k) <=> Contains(entries, capacity, k)
<1>1. /\ capacity \in Nat /\ count \in Nat
      /\ entries \in Table(capacity) /\ Findable(entries, capacity)
      /\ count = Cardinality(Used(entries))
  BY DEF IInv, Stored
<1>2. /\ copied \in Nat /\ NewCapacity \in Nat
      /\ resized \in Table(NewCapacity) /\ Findable(resized, NewCapacity)
      /\ Cardinality(Used(resized)) = Cardinality(Before(copied))
      /\ \A i \in Before(copied) : \E j \in Used(resized) : resized[j] = entries[i]
      /\ \A j \in Used(resized) : \E i \in Before(copied) : resized[j] = entries[i]
  BY DEF IInv, Copied
<1>3. Used(entries) \subseteq Nat
  BY <1>1, EntryKinds, SlotsAre
<1>4. Before(copied) = Used(entries)
  <2>1. \A i \in Used(entries) : ~(i >= copied)
    BY DEF ToCopy, Used
  <2>. QED  BY <1>2, <1>3, <2>1 DEF Before
<1>5. ASSUME NEW k \in Key
      PROVE  Contains(resized, NewCapacity, k) <=> Contains(entries, capacity, k)
  <2>1. /\ Contains(entries, capacity, k) <=> \E i \in Used(entries) : entries[i].key = k
        /\ Contains(resized, NewCapacity, k) <=> \E j \in Used(resized) : resized[j].key = k
    BY <1>1, <1>2, ContainsKey
  <2>2. (\E i \in Used(entries) : entries[i].key = k) <=> (\E j \in Used(resized) : resized[j].key = k)
    BY <1>2, <1>4
  <2>. QED  BY <2>1, <2>2
<1>. QED
  BY <1>1, <1>2, <1>4, <1>5

LEMMA FinishResizeKeeps ==
  ASSUME IInv, FinishResize
  PROVE  IInv'
<1> DEFINE new == Insert(resized, NewCapacity, pending.key, pending.value)
<1>1. /\ capacity \in Nat /\ count \in Nat
      /\ entries \in Table(capacity) /\ Findable(entries, capacity)
  BY DEF IInv, Stored
<1>2. /\ pending # Idle /\ Copied /\ ToCopy = {}
      /\ capacity' = NewCapacity /\ pending' = Idle
      /\ Observe(LiveKeys(entries')) /\ rehashed' = TRUE
  BY DEF FinishResize, NewCapacity, IInv
<1>3. /\ NewCapacity \in Nat /\ NewCapacity >= MinCapacity
      /\ resized \in Table(NewCapacity) /\ Findable(resized, NewCapacity)
      /\ count <= Load(NewCapacity)
      /\ pending \in Setting => count < Load(NewCapacity)
      /\ NewCapacity > MinCapacity => count >= Load(NewCapacity \div GrowFactor)
      /\ pending = Removing => capacity > 0
  BY <1>2 DEF Copied
<1>4. NewCapacity \in Nat \ {0} /\ Load(NewCapacity) \in Nat /\ Load(NewCapacity) < NewCapacity
      /\ Load(NewCapacity \div GrowFactor) \in Nat
  <2>1. MinCapacity \in Nat /\ MinCapacity > 0
    BY Halves, MapAssumption
  <2>2. NewCapacity > 0
    BY <1>3, <2>1
  <2>. QED  BY <1>3, <2>2, Halves, LoadType, LoadBounds
<1>5. Cardinality(Used(resized)) = count
  BY <1>2, AllCopied
<1>6. Iterated'
  BY <1>2, LoopKept DEF IInv
<1>7. CASE pending = Removing
  <2>1. entries' = resized /\ count' = count
    BY <1>7 DEF FinishResize, Removing
  <2>2. Stored'
    BY <1>1, <1>2, <1>3, <1>5, <2>1 DEF Stored
  <2>3. count > 0
    BY <1>3, <1>7 DEF IInv, Loaded
  <2>4. Loaded'
    BY <1>2, <1>3, <2>1, <2>3 DEF Loaded
  <2>. QED  BY <1>2, <1>6, <2>2, <2>4 DEF IInv
<1>8. CASE pending \in Setting
  <2>1. pending.op = "set" /\ pending.key \in Key /\ pending.value \in Value
    BY <1>8 DEF Setting
  <2>2. /\ entries' = new
        /\ count' = IF Contains(entries, capacity, pending.key) THEN count ELSE count + 1
    BY <2>1 DEF FinishResize, NewCapacity, Counted
  <2>3. Cardinality(Used(resized)) < NewCapacity
    BY <1>1, <1>3, <1>4, <1>5, <1>8
  <2>4. PICK s \in Slots(NewCapacity) :
          /\ new \in Table(NewCapacity) /\ Findable(new, NewCapacity)
          /\ Used(new) = Used(resized) \cup {s}
          /\ s \in Used(resized) <=> Contains(resized, NewCapacity, pending.key)
    BY <1>3, <1>4, <2>1, <2>3, InsertKeeps
  <2>5. Contains(resized, NewCapacity, pending.key) <=> Contains(entries, capacity, pending.key)
    BY <1>2, <2>1, AllCopied
  <2> HIDE DEF new
  <2>6. /\ Cardinality(Used(resized) \cup {s})
             = IF s \in Used(resized) THEN count ELSE count + 1
        /\ s \in Used(resized) => count > 0
    BY <1>3, <1>5, InsertCounts
  <2>7. /\ count' = Cardinality(Used(entries')) /\ count' \in Nat
        /\ count' > 0 /\ count <= count' /\ count' <= count + 1
    <3>1. Used(entries') = Used(resized) \cup {s}
      BY <2>2, <2>4
    <3>2. CASE s \in Used(resized)
      <4>1. count' = count
        BY <2>2, <2>4, <2>5, <3>2
      <4>. QED  BY <1>1, <2>6, <3>1, <3>2, <4>1
    <3>3. CASE s \notin Used(resized)
      <4>1. count' = count + 1
        BY <2>2, <2>4, <2>5, <3>3
      <4>. QED  BY <1>1, <2>6, <3>1, <3>3, <4>1
    <3>. QED  BY <3>2, <3>3
  <2>8. Stored'
    BY <1>2, <1>3, <2>2, <2>4, <2>7 DEF Stored
  <2>9. Loaded'
    <3>1. count' <= Load(NewCapacity)
      BY <1>1, <1>3, <1>4, <1>8, <2>7
    <3>2. NewCapacity > MinCapacity => count' >= Load(NewCapacity \div GrowFactor)
      BY <1>1, <1>3, <1>4, <2>7
    <3>. QED  BY <1>2, <1>3, <2>7, <3>1, <3>2 DEF Loaded
  <2>. QED  BY <1>2, <1>6, <2>8, <2>9 DEF IInv
<1>. QED
  BY <1>2, <1>7, <1>8 DEF Copied

\* A loop starts before the first entry, with all keys still to be seen.
LEMMA LoopStartKeeps ==
  ASSUME IInv, LoopStart
  PROVE  IInv'
<1>1. /\ iterator' = NoIndex /\ visited' = {} /\ unvisited' = LiveKeys(entries)
      /\ UNCHANGED <<entries, capacity, count, pending, resized, copied>>
  BY DEF LoopStart, table, resizing
<1>2. Used(entries) \subseteq Nat
  BY EntryKinds, SlotsAre DEF IInv, Stored
<1>3. \A k \in LiveKeys(entries) : \E i \in Used(entries) : i > NoIndex /\ entries[i].key = k
  BY <1>2 DEF LiveKeys, Used, NoIndex
<1>4. Iterated'
  BY <1>1, <1>3 DEF Iterated
<1>5. Stored' /\ Loaded' /\ (pending' # Idle => Copied')
  BY <1>1 DEF IInv, Stored, Loaded, Copied, Before, NewCapacity
<1>. QED
  BY <1>4, <1>5 DEF IInv

\* The next index is that of the first entry in use past the iterator.
LEMMA NextIndex ==
  ASSUME IInv, LoopNext
  PROVE  /\ iterator' \in Used(entries) /\ iterator' \in Nat /\ iterator' > iterator
         /\ \A i \in Used(entries) : i > iterator => iterator' <= i
<1>1. entries \in Table(capacity) /\ capacity \in Nat /\ iterator \in Nat \cup {NoIndex}
  BY DEF IInv, Stored, Iterated
<1>2. DOMAIN entries = Slots(capacity) /\ Used(entries) \subseteq Nat
  BY <1>1, EntryKinds, SlotsAre
<1>3. FirstIndex = iterator + 1 /\ iterator \in Int
  BY <1>1 DEF FirstIndex, NoIndex
<1>4. UsedFrom = {i \in Used(entries) : i > iterator}
  BY <1>2, <1>3 DEF UsedFrom, Used
<1>5. UsedFrom # {} /\ iterator' = Min(UsedFrom)
  BY DEF LoopNext
<1>6. UsedFrom \in SUBSET Nat
  BY <1>2, <1>4
<1>7. iterator' \in UsedFrom /\ iterator' \in Nat /\ \A i \in UsedFrom : iterator' <= i
  BY <1>5, <1>6, MinIsLeast
<1>. QED
  BY <1>4, <1>7

LEMMA LoopNextKeeps ==
  ASSUME IInv, LoopNext
  PROVE  IInv'
<1> DEFINE n == iterator'
<1>1. /\ visited' = visited \cup {entries[n].key} /\ unvisited' = unvisited \ {entries[n].key}
      /\ UNCHANGED <<entries, capacity, count, pending, resized, copied, looping, rehashed>>
  BY DEF LoopNext, table, resizing
<1>2. /\ n \in Used(entries) /\ n \in Nat /\ n > iterator
      /\ \A i \in Used(entries) : i > iterator => n <= i
  BY NextIndex
<1>3. entries \in Table(capacity) /\ capacity \in Nat /\ iterator \in Nat \cup {NoIndex}
  BY DEF IInv, Stored, Iterated
<1>4. Used(entries) \subseteq Nat /\ iterator \in Int
  BY <1>3, EntryKinds, SlotsAre DEF NoIndex
<1> HIDE DEF n
<1>5. ASSUME looping, ~rehashed
      PROVE  /\ \A k \in visited' : \E i \in Used(entries) : i <= n /\ entries[i].key = k
             /\ \A k \in unvisited' : \E i \in Used(entries) : i > n /\ entries[i].key = k
  <2>1. /\ \A k \in visited : \E i \in Used(entries) : i <= iterator /\ entries[i].key = k
        /\ \A k \in unvisited : \E i \in Used(entries) : i > iterator /\ entries[i].key = k
    BY <1>5 DEF IInv, Iterated
  <2>2. ASSUME NEW k \in visited'
        PROVE  \E i \in Used(entries) : i <= n /\ entries[i].key = k
    <3>1. CASE k = entries[n].key
      <4>1. n <= n
        BY <1>2
      <4>. QED  BY <1>2, <3>1, <4>1
    <3>2. CASE k \in visited
      <4>1. PICK i \in Used(entries) : i <= iterator /\ entries[i].key = k
        BY <2>1, <3>2
      <4>2. i <= n
        BY <1>2, <1>4, <4>1
      <4>. QED  BY <4>1, <4>2
    <3>. QED  BY <1>1, <2>2, <3>1, <3>2
  <2>3. ASSUME NEW k \in unvisited'
        PROVE  \E i \in Used(entries) : i > n /\ entries[i].key = k
    <3>1. k \in unvisited /\ k # entries[n].key
      BY <1>1, <2>3
    <3>2. PICK i \in Used(entries) : i > iterator /\ entries[i].key = k
      BY <2>1, <3>1
    <3>3. n <= i /\ i # n /\ i \in Nat
      BY <1>2, <1>4, <3>1, <3>2
    <3>4. i > n
      BY <1>2, <3>3
    <3>. QED  BY <3>2, <3>4
  <2>. QED  BY <2>2, <2>3
<1>6. Iterated'
  <2>1. Used(entries') = Used(entries)
    BY <1>1
  <2>. QED  BY <1>1, <1>2, <1>5, <2>1 DEF Iterated, n
<1>7. Stored' /\ Loaded' /\ (pending' # Idle => Copied')
  BY <1>1 DEF IInv, Stored, Loaded, Copied, Before, NewCapacity
<1>. QED
  BY <1>6, <1>7 DEF IInv

LEMMA LoopEndKeeps ==
  ASSUME IInv, LoopEnd
  PROVE  IInv'
<1>1. /\ iterator' = NoIndex /\ looping' = FALSE
      /\ UNCHANGED <<entries, capacity, count, pending, resized, copied>>
  BY DEF LoopEnd, table, resizing
<1>2. Iterated'
  BY <1>1 DEF Iterated
<1>3. Stored' /\ Loaded' /\ (pending' # Idle => Copied')
  BY <1>1 DEF IInv, Stored, Loaded, Copied, Before, NewCapacity
<1>. QED
  BY <1>2, <1>3 DEF IInv

LEMMA StutterKeeps ==
  ASSUME IInv, UNCHANGED vars
  PROVE  IInv'
<1>1. UNCHANGED <<entries, capacity, count, pending, resized, copied,
                  looping, iterator, visited, unvisited, rehashed>>
  BY DEF vars, table, resizing, loop
<1>. QED
  BY <1>1 DEF IInv, Stored, Loaded, Copied, Before, NewCapacity, Iterated

\* Every step keeps the invariant, so all reachable states have it.
THEOREM Inductive == Spec => []IInv
<1>1. Init => IInv
  BY InitKeeps
<1>2. IInv /\ [Next]_vars => IInv'
  <2> SUFFICES ASSUME IInv, [Next]_vars PROVE IInv'
    OBVIOUS
  <2>1. ASSUME NEW k \in Key, NEW v \in Value, MapSet(k, v) PROVE IInv'
    BY <2>1, MapSetKeeps
  <2>2. ASSUME NEW k \in Key, MapRemoveKey(k) PROVE IInv'
    BY <2>2, MapRemoveKeyKeeps
  <2>3. CASE MapClear
    BY <2>3, MapClearKeeps
  <2>4. CASE CopyEntry
    BY <2>4, CopyEntryKeeps
  <2>5. CASE FinishResize
    BY <2>5, FinishResizeKeeps
  <2>6. CASE LoopStart
    BY <2>6, LoopStartKeeps
  <2>7. CASE LoopNext
    BY <2>7, LoopNextKeeps
  <2>8. CASE LoopEnd
    BY <2>8, LoopEndKeeps
  <2>9. CASE UNCHANGED vars
    BY <2>9, StutterKeeps
  <2>. QED  BY <2>1, <2>2, <2>3, <2>4, <2>5, <2>6, <2>7, <2>8, <2>9 DEF Next
<1>. QED
  BY <1>1, <1>2, PTL DEF Spec

-----------------------------------------------------------------------------
(* What the runs check, for all keys, hashes, capacities and load factors.  *)

LEMMA StoredIsFound ==
  ASSUME Stored, Loaded
  PROVE  FindsEntry
<1>1. capacity \in Nat /\ count \in Nat /\ entries \in Table(capacity)
      /\ Findable(entries, capacity) /\ count = Cardinality(Used(entries))
  BY DEF Stored
<1>2. DOMAIN entries = Slots(capacity)
  BY <1>1, EntryKinds
<1>3. ASSUME NEW i \in DOMAIN entries, entries[i].key # Undefined
      PROVE  FindEntry(entries, capacity, entries[i].key) = [found |-> TRUE, slot |-> i]
  <2>1. i \in Used(entries)
    BY <1>3 DEF Used
  <2>2. capacity # 0
    BY <1>1, <1>2, <1>3, SlotsAre
  <2>. QED  BY <1>1, <2>1, <2>2, FindEntryFinds
<1>4. ASSUME capacity > 0, NEW k \in Key, ~FindEntry(entries, capacity, k).found
      PROVE  /\ FindEntry(entries, capacity, k).slot \in DOMAIN entries
             /\ entries[FindEntry(entries, capacity, k).slot].key = Undefined
  <2>1. Cardinality(Used(entries)) < capacity
    BY <1>1, <1>4, LoadBounds, LoadType DEF Loaded
  <2>2. \E s \in Slots(capacity) : entries[s].key = Undefined
    BY <1>1, <2>1, SlotLeft
  <2>3. capacity \in Nat \ {0}
    BY <1>1, <1>4
  <2>. QED  BY <1>1, <1>2, <1>4, <2>2, <2>3, FindEntryMissing
<1>. QED
  BY <1>3, <1>4 DEF FindsEntry

\* findEntry() finds every entry in use under its key, so no key is in a table
\* twice, and comes across a slot for every key that is not there.
THEOREM EntriesFound == Spec => []FindsEntry
<1>1. IInv => FindsEntry
  BY StoredIsFound DEF IInv
<1>. QED
  BY <1>1, Inductive, PTL

\* The count that wrenMapSet(), wrenMapRemoveKey() and resizeMap() keep is that
\* of the entries in use, and the array is as full as the load factor says.
THEOREM TablesLoaded == Spec => []LoadKept
<1>1. IInv => LoadKept
  <2>1. Used(entries) = {i \in DOMAIN entries : entries[i].key # Undefined}
    BY DEF Used
  <2>. QED  BY <2>1 DEF IInv, Stored, Loaded, LoadKept
<1>. QED
  BY <1>1, Inductive, PTL

\* A `for` loop over a map that keeps its array sees a key once at most while
\* it is there, and none is left unseen at the end.
THEOREM LoopsVisitEach == Spec => VisitsEach
<1> DEFINE A == /\ LoopNext /\ ~rehashed => entries[iterator'].key \notin visited
                /\ LoopEnd /\ ~rehashed => unvisited = {}
<1>1. IInv => A
  <2> HAVE IInv
  <2>1. /\ capacity \in Nat /\ entries \in Table(capacity) /\ Findable(entries, capacity)
        /\ iterator \in Nat \cup {NoIndex}
    BY DEF IInv, Stored, Iterated
  <2>2. DOMAIN entries = Slots(capacity) /\ Used(entries) \subseteq Nat /\ iterator \in Int
    BY <2>1, EntryKinds, SlotsAre DEF NoIndex
  <2>3. ASSUME LoopNext, ~rehashed
        PROVE  entries[iterator'].key \notin visited
    <3> SUFFICES ASSUME entries[iterator'].key \in visited PROVE FALSE
      OBVIOUS
    <3>1. looping
      BY <2>3 DEF LoopNext
    <3>2. PICK i \in Used(entries) : i <= iterator /\ entries[i].key = entries[iterator'].key
      BY <2>3, <3>1 DEF IInv, Iterated
    <3>3. iterator' \in Used(entries) /\ iterator' > iterator /\ iterator' \in Nat
      BY <2>3, NextIndex
    <3>4. capacity # 0
      BY <2>2, <3>3, SlotsAre DEF Used
    <3>5. i = iterator'
      BY <2>1, <3>2, <3>3, <3>4, KeysUnique
    <3>. QED  BY <2>2, <3>2, <3>3, <3>5
  <2>4. ASSUME LoopEnd, ~rehashed
        PROVE  unvisited = {}
    <3> SUFFICES ASSUME NEW k \in unvisited PROVE FALSE
      OBVIOUS
    <3>1. looping /\ UsedFrom = {}
      BY <2>4 DEF LoopEnd
    <3>2. PICK i \in Used(entries) : i > iterator /\ entries[i].key = k
      BY <2>4, <3>1 DEF IInv, Iterated
    <3>3. FirstIndex = iterator + 1
      BY <2>1 DEF FirstIndex, NoIndex
    <3>4. i >= FirstIndex /\ i \in Slots(capacity) /\ entries[i].key # Undefined
      BY <2>2, <3>2, <3>3 DEF Used
    <3>. QED  BY <3>1, <3>4 DEF UsedFrom
  <2>. QED  BY <2>3, <2>4
<1>2. IInv /\ [Next]_vars => [A]_vars
  BY <1>1
<1>. QED
  BY <1>2, Inductive, PTL DEF Spec, VisitsEach

-----------------------------------------------------------------------------
(* The table implements a map.                                              *)

\* The values a table has under a key.
ValuesOf(es, k) == {es[i].value : i \in {j \in DOMAIN es : es[j].key = k}}

Mapping(es) == [k \in Key |-> ValuesOf(es, k)]

LEMMA InsertPuts ==
  ASSUME NEW cap \in Nat \ {0}, NEW es \in Table(cap), Findable(es, cap),
         Cardinality(Used(es)) < cap, NEW k \in Key, NEW v \in Value
  PROVE  Mapping(Insert(es, cap, k, v)) = [Mapping(es) EXCEPT ![k] = {v}]
<1> DEFINE t == Insert(es, cap, k, v)
<1>1. PICK s \in Slots(cap) :
        /\ t = [es EXCEPT ![s] = [key |-> k, value |-> v]]
        /\ \A i \in Used(es) : es[i].key = k <=> i = s
  BY InsertKeeps
<1> HIDE DEF t
<1>2. DOMAIN es = Slots(cap) /\ DOMAIN t = Slots(cap)
  BY <1>1, EntryKinds
<1>3. t[s].key = k /\ t[s].value = v /\ \A i \in Slots(cap) : i # s => t[i] = es[i]
  BY <1>1, <1>2
<1>4. \A i \in Slots(cap) : es[i].key \in Key => i \in Used(es)
  BY <1>2, MapAssumption DEF Used
<1>5. ValuesOf(t, k) = {v}
  <2>1. {j \in DOMAIN t : t[j].key = k} = {s}
    BY <1>1, <1>2, <1>3, <1>4
  <2>. QED  BY <1>3, <2>1 DEF ValuesOf
<1>6. ASSUME NEW q \in Key, q # k
      PROVE  ValuesOf(t, q) = ValuesOf(es, q)
  <2>1. {j \in DOMAIN t : t[j].key = q} = {j \in DOMAIN es : es[j].key = q}
    <3>1. es[s].key # q
      BY <1>1, <1>4, <1>6
    <3>. QED  BY <1>2, <1>3, <1>6, <3>1
  <2>2. \A j \in {i \in DOMAIN t : t[i].key = q} : t[j].value = es[j].value
    BY <1>2, <1>3, <1>6
  <2>. QED  BY <2>1, <2>2 DEF ValuesOf
<1>7. Mapping(t) = [Mapping(es) EXCEPT ![k] = {v}]
  <2>1. \A q \in Key : ValuesOf(t, q) = IF q = k THEN {v} ELSE ValuesOf(es, q)
    BY <1>5, <1>6
  <2>. QED  BY <2>1, Zenon DEF Mapping
<1>. QED
  BY <1>7 DEF t

LEMMA RemovalDeletes ==
  ASSUME NEW cap \in Nat \ {0}, NEW es \in Table(cap), Findable(es, cap), NEW s \in Used(es)
  PROVE  Mapping([es EXCEPT ![s] = Tombstone]) = [Mapping(es) EXCEPT ![es[s].key] = {}]
<1> DEFINE t == [es EXCEPT ![s] = Tombstone]
           k == es[s].key
<1>1. DOMAIN es = Slots(cap) /\ DOMAIN t = Slots(cap) /\ s \in Slots(cap) /\ k \in Key
  BY EntryKinds DEF Used
<1>2. t[s].key = Undefined /\ \A i \in Slots(cap) : i # s => t[i] = es[i]
  BY <1>1, EntryKinds
<1>3. \A i \in Slots(cap) : es[i].key = k => i = s
  <2> SUFFICES ASSUME NEW i \in Slots(cap), es[i].key = k PROVE i = s
    OBVIOUS
  <2>1. i \in Used(es)
    BY <1>1, MapAssumption DEF Used
  <2>. QED  BY <2>1, KeysUnique
<1> HIDE DEF t, k
<1>4. Undefined \notin Key
  BY MapAssumption
<1>5. ValuesOf(t, k) = {}
  <2>1. {j \in DOMAIN t : t[j].key = k} = {}
    BY <1>1, <1>2, <1>3, <1>4
  <2>. QED  BY <2>1 DEF ValuesOf
<1>6. ASSUME NEW q \in Key, q # k
      PROVE  ValuesOf(t, q) = ValuesOf(es, q)
  <2>1. {j \in DOMAIN t : t[j].key = q} = {j \in DOMAIN es : es[j].key = q}
    BY <1>1, <1>2, <1>4, <1>6 DEF k
  <2>2. \A j \in {i \in DOMAIN t : t[i].key = q} : t[j].value = es[j].value
    BY <1>1, <1>2, <1>4
  <2>. QED  BY <2>1, <2>2 DEF ValuesOf
<1>7. Mapping(t) = [Mapping(es) EXCEPT ![k] = {}]
  <2>1. \A q \in Key : ValuesOf(t, q) = IF q = k THEN {} ELSE ValuesOf(es, q)
    BY <1>5, <1>6
  <2>. QED  BY <2>1, Zenon DEF Mapping
<1>. QED
  BY <1>7 DEF t, k

\* A table with no entry in use has no values.
LEMMA NoneMapped ==
  ASSUME NEW es, Used(es) = {}
  PROVE  Mapping(es) = [k \in Key |-> {}]
<1>1. \A k \in Key : {j \in DOMAIN es : es[j].key = k} = {}
  BY MapAssumption DEF Used
<1>2. \A k \in Key : ValuesOf(es, k) = {}
  BY <1>1 DEF ValuesOf
<1>. QED
  BY <1>2, Zenon DEF Mapping

LEMMA SetPuts ==
  ASSUME NEW k \in Key, NEW v \in Value, IInv, MapSet(k, v)
  PROVE  \/ entries' = entries
         \/ Mapping(entries') = [Mapping(entries) EXCEPT ![k] = {v}]
<1>1. /\ capacity \in Nat /\ count \in Nat
      /\ entries \in Table(capacity) /\ Findable(entries, capacity)
      /\ count = Cardinality(Used(entries))
  BY DEF IInv, Stored
<1>2. CASE count + 1 > Load(capacity)
  BY <1>2 DEF MapSet, table
<1>3. CASE ~(count + 1 > Load(capacity))
  <2>1. entries' = Insert(entries, capacity, k, v)
    BY <1>3 DEF MapSet
  <2>2. Load(capacity) \in Nat /\ Load(0) = 0
    BY <1>1, LoadBounds, LoadType
  <2>3. capacity # 0
    BY <1>1, <1>3, <2>2
  <2>4. Load(capacity) < capacity
    BY <1>1, <2>3, LoadBounds
  <2>5. count < capacity
    BY <1>1, <1>3, <2>2, <2>4
  <2>. QED  BY <1>1, <2>1, <2>3, <2>5, InsertPuts
<1>. QED
  BY <1>2, <1>3

LEMMA RemoveDeletes ==
  ASSUME NEW k \in Key, IInv, MapRemoveKey(k)
  PROVE  Mapping(entries') = [Mapping(entries) EXCEPT ![k] = {}]
<1> DEFINE s == FindEntry(entries, capacity, k).slot
           left == [entries EXCEPT ![s] = Tombstone]
<1>1. /\ capacity \in Nat /\ count \in Nat
      /\ entries \in Table(capacity) /\ Findable(entries, capacity)
      /\ count = Cardinality(Used(entries))
  BY DEF IInv, Stored
<1>2. capacity \in Nat \ {0} /\ FindEntry(entries, capacity, k).found
  BY <1>1 DEF MapRemoveKey, Contains
<1>3. s \in Slots(capacity) /\ s \in Used(entries) /\ entries[s].key = k
  <2>1. s \in Slots(capacity) /\ entries[s].key = k /\ k # Undefined
    BY <1>1, <1>2, FindEntryFound, MapAssumption
  <2> HIDE DEF s
  <2>. QED  BY <1>1, <2>1, EntryKinds DEF Used
<1>4. entries' = left \/ (count = 1 /\ entries' = NoEntries)
  BY DEF MapRemoveKey, Deleted
<1> HIDE DEF s
<1>5. /\ Mapping(left) = [Mapping(entries) EXCEPT ![k] = {}]
      /\ Used(left) = Used(entries) \ {s} /\ left \in Table(capacity)
  BY <1>1, <1>2, <1>3, RemovalDeletes, DeleteKeeps
<1> HIDE DEF left
<1>6. ASSUME count = 1, entries' = NoEntries
      PROVE  Mapping(entries') = Mapping(left)
  <2>1. Cardinality(Used(left)) = 0 /\ IsFiniteSet(Used(left))
    <3>1. Cardinality(Used(entries) \ {s}) = Cardinality(Used(entries)) - 1
      BY <1>1, <1>3, InsertCounts
    <3>2. IsFiniteSet(Used(left))
      BY <1>1, <1>5, EntryKinds
    <3>. QED  BY <1>1, <1>5, <1>6, <3>1, <3>2
  <2>2. Used(left) = {} /\ Used(NoEntries) = {}
    BY <2>1, FS_EmptySet DEF Used, NoEntries
  <2>. QED  BY <1>6, <2>2, NoneMapped
<1>. QED
  BY <1>4, <1>5, <1>6

LEMMA ClearErases ==
  ASSUME MapClear
  PROVE  Mapping(entries') = [k \in Key |-> {}]
<1>1. Used(entries') = {}
  BY DEF MapClear, Used, NoEntries
<1>. QED
  BY <1>1, NoneMapped

\* The new array maps keys to the same values, once all is copied.
LEMMA SameMapping ==
  ASSUME IInv, pending # Idle, ToCopy = {}
  PROVE  Mapping(resized) = Mapping(entries)
<1>1. /\ \A i \in Used(entries) : \E j \in Used(resized) : resized[j] = entries[i]
      /\ \A j \in Used(resized) : \E i \in Used(entries) : resized[j] = entries[i]
  BY AllCopied DEF IInv, Copied
<1>2. ASSUME NEW k \in Key
      PROVE  ValuesOf(resized, k) = ValuesOf(entries, k)
  <2>1. /\ {j \in DOMAIN resized : resized[j].key = k} = {j \in Used(resized) : resized[j].key = k}
        /\ {j \in DOMAIN entries : entries[j].key = k} = {j \in Used(entries) : entries[j].key = k}
    BY MapAssumption DEF Used
  <2>2. {resized[j].value : j \in {i \in Used(resized) : resized[i].key = k}}
          = {entries[j].value : j \in {i \in Used(entries) : entries[i].key = k}}
    BY <1>1
  <2>. QED  BY <2>1, <2>2 DEF ValuesOf
<1>. QED
  BY <1>2, Zenon DEF Mapping

LEMMA FinishPuts ==
  ASSUME IInv, FinishResize
  PROVE  \/ Mapping(entries') = Mapping(entries)
         \/ \E k \in Key, v \in Value :
              Mapping(entries') = [Mapping(entries) EXCEPT ![k] = {v}]
<1>1. pending # Idle /\ ToCopy = {} /\ count \in Nat
  BY DEF FinishResize, IInv, Stored
<1>2. /\ pending \in Setting \cup {Removing}
      /\ NewCapacity \in Nat /\ NewCapacity >= MinCapacity
      /\ resized \in Table(NewCapacity) /\ Findable(resized, NewCapacity)
      /\ pending \in Setting => count < Load(NewCapacity)
  BY <1>1 DEF IInv, Copied
<1>3. Mapping(resized) = Mapping(entries) /\ Cardinality(Used(resized)) = count
  BY <1>1, SameMapping, AllCopied
<1>4. CASE pending = Removing
  BY <1>3, <1>4 DEF FinishResize, Removing
<1>5. CASE pending \in Setting
  <2>1. pending.op = "set" /\ pending.key \in Key /\ pending.value \in Value
    BY <1>5 DEF Setting
  <2>2. entries' = Insert(resized, NewCapacity, pending.key, pending.value)
    BY <2>1 DEF FinishResize, NewCapacity
  <2>3. NewCapacity > 0 /\ Load(NewCapacity) \in Nat
    <3>1. MinCapacity \in Nat /\ MinCapacity > 0
      BY Halves, MapAssumption
    <3>. QED  BY <1>2, <3>1, LoadType
  <2>4. Load(NewCapacity) < NewCapacity
    BY <1>2, <2>3, LoadBounds
  <2>5. NewCapacity \in Nat \ {0} /\ Cardinality(Used(resized)) < NewCapacity
    BY <1>1, <1>2, <1>3, <1>5, <2>3, <2>4
  <2>6. Mapping(entries') = [Mapping(resized) EXCEPT ![pending.key] = {pending.value}]
    <3>1. Mapping(Insert(resized, NewCapacity, pending.key, pending.value))
            = [Mapping(resized) EXCEPT ![pending.key] = {pending.value}]
      <4>1. /\ NewCapacity \in Nat \ {0} /\ Cardinality(Used(resized)) < NewCapacity
            /\ resized \in Table(NewCapacity) /\ Findable(resized, NewCapacity)
            /\ pending.key \in Key /\ pending.value \in Value
        BY <1>2, <2>1, <2>5
      <4> HIDE DEF NewCapacity
      <4>. QED  BY <4>1, InsertPuts, SMTT(30)
    <3>. QED  BY <2>2, <3>1
  <2>. QED  BY <1>3, <2>1, <2>6
<1>. QED
  BY <1>2, <1>4, <1>5

\* Setting puts a value at the end of its last step, removing deletes one at
\* its first, and the resizing in between, or afterwards, and the loops change
\* nothing of what the map holds: ObjMap implements WrenDict.
THEOREM ImplementsDict == Spec => IsDict
<1>1. Init => Dict!Init
  <2> SUFFICES ASSUME Init PROVE Dict!Init
    OBVIOUS
  <2>1. Used(entries) = {}
    BY DEF Init, NoEntries, Used
  <2>2. Mapping(entries) = [k \in Key |-> {}]
    BY <2>1, NoneMapped
  <2>. QED  BY <2>2 DEF Dict!Init, Mapping, ValuesOf
<1>2. IInv /\ [Next]_vars
        => \/ Mapping(entries') = Mapping(entries)
           \/ \E k \in Key, v \in Value :
                Mapping(entries') = [Mapping(entries) EXCEPT ![k] = {v}]
           \/ \E k \in Key : Mapping(entries') = [Mapping(entries) EXCEPT ![k] = {}]
           \/ Mapping(entries') = [k \in Key |-> {}]
  <2> SUFFICES ASSUME IInv, [Next]_vars
               PROVE  \/ Mapping(entries') = Mapping(entries)
                      \/ \E k \in Key, v \in Value :
                           Mapping(entries') = [Mapping(entries) EXCEPT ![k] = {v}]
                      \/ \E k \in Key :
                           Mapping(entries') = [Mapping(entries) EXCEPT ![k] = {}]
                      \/ Mapping(entries') = [k \in Key |-> {}]
    OBVIOUS
  <2>1. CASE entries' = entries
    BY <2>1
  <2>2. ASSUME NEW k \in Key, NEW v \in Value, MapSet(k, v)
        PROVE  \/ entries' = entries
               \/ Mapping(entries') = [Mapping(entries) EXCEPT ![k] = {v}]
    BY <2>2, SetPuts
  <2>3. ASSUME NEW k \in Key, MapRemoveKey(k)
        PROVE  Mapping(entries') = [Mapping(entries) EXCEPT ![k] = {}]
    BY <2>3, RemoveDeletes
  <2>4. CASE MapClear
    BY <2>4, ClearErases
  <2>5. CASE FinishResize
    BY <2>5, FinishPuts
  <2>6. CASE CopyEntry \/ LoopStart \/ LoopNext \/ LoopEnd \/ UNCHANGED vars
    BY <2>1, <2>6 DEF CopyEntry, LoopStart, LoopNext, LoopEnd, vars, table
  <2>. QED  BY <2>1, <2>2, <2>3, <2>4, <2>5, <2>6, Zenon DEF Next
<1>3. IInv /\ [Next]_vars => [Dict!Next]_(Mapping(entries))
  BY <1>2, Zenon DEF Dict!Next, Dict!Put, Dict!Delete, Dict!Erase, Mapping, ValuesOf
<1>. QED
  BY <1>1, <1>3, Inductive, PTL DEF Spec, IsDict, Dict!Spec, Mapping, ValuesOf

=============================================================================
