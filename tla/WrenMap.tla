------------------------------ MODULE WrenMap -------------------------------
(***************************************************************************)
(* ObjMap, the hash table behind class Map and the registry of modules:     *)
(* open addressing with linear probing and tombstones, grown and shrunk as  *)
(* entries come and go, and iterated by entry index while a script is free  *)
(* to change it.                                                            *)
(*                                                                         *)
(* Resizing is a loop that inserts the entries of the old array into a new  *)
(* one; each turn is a step.  Keys and values are members of small sets;    *)
(* what matters of a key is its hash.                                       *)
(*                                                                         *)
(* An operator X_Y is X with the mistake Y, which a property must notice;   *)
(* the specification itself never uses it.                                  *)
(***************************************************************************)
EXTENDS Integers, FiniteSets, FiniteSetsExt

CONSTANTS
  Key,          (* the keys scripts use, immutable values of Wren           *)
  Value,        (* the values, among them the Booleans, which also tell an  *)
                (* open entry from a tombstone                              *)
  Undefined,    (* UNDEFINED_VAL, the key of an entry that is not in use    *)
  Hash,         (* hashValue()                                              *)
  MinCapacity,  (* MIN_CAPACITY                                             *)
  GrowFactor,   (* GROW_FACTOR                                              *)
  LoadPercent,  (* MAP_LOAD_PERCENT                                         *)
  MaxIterations (* how many times a script iterates over the map            *)

ASSUME MapAssumption ==
  /\ Undefined \notin Key
  /\ BOOLEAN \subseteq Value
  /\ Hash \in [Key -> Nat]
  /\ MinCapacity \in Nat /\ GrowFactor \in Nat \ {0, 1}
  /\ LoadPercent \in 1..99
  /\ MinCapacity * LoadPercent >= 100
  /\ MaxIterations \in Nat

VARIABLES
  entries,      (* ObjMap.entries                                           *)
  capacity,     (* ObjMap.capacity                                          *)
  count,        (* ObjMap.count                                             *)
  pending,      (* what wrenMapSet() or wrenMapRemoveKey() still has to do  *)
                (* once the resizing it asked for is done                   *)
  resized,      (* the array resizeMap() fills                              *)
  copied,       (* the old entries below it have been gone over             *)
  looping,      (* whether a `for` loop over the map is under way           *)
  iterator,     (* its iterator: the last index, or NoIndex for null        *)
  iterations,   (* how many loops were started                              *)
  visited,      (* keys the loop has seen and that have stayed in the map   *)
  unvisited,    (* keys there since the loop began that it has not seen     *)
  rehashed      (* whether the array was replaced since the loop began      *)

table == <<entries, capacity, count>>
resizing == <<pending, resized, copied>>
loop == <<looping, iterator, iterations, visited, unvisited, rehashed>>
vars == <<table, resizing, loop>>

Open == [key |-> Undefined, value |-> FALSE]
Tombstone == [key |-> Undefined, value |-> TRUE]
Entry == [key : Key, value : Value]

Slots(cap) == {i \in 0..cap : i # cap}
Table(cap) == [Slots(cap) -> Entry \cup {Open, Tombstone}]
NoIndex == -1
NoEntries == [i \in {} |-> Open]
Idle == [op |-> "none"]

Init ==
  /\ entries = NoEntries /\ capacity = 0 /\ count = 0
  /\ pending = Idle /\ resized = NoEntries /\ copied = 0
  /\ looping = FALSE /\ iterator = NoIndex /\ iterations = 0
  /\ visited = {} /\ unvisited = {} /\ rehashed = FALSE

-----------------------------------------------------------------------------
(* Lookup and insertion.                                                    *)

\* The slot `i` steps along the probe sequence that starts at slot `start`.
Probe(start, i, cap) == IF start + i < cap THEN start + i ELSE start + i - cap

\* findEntry(): the entry of the key if there is one, else the one to insert
\* the key in, the first tombstone passed or the open entry the walk ends at.
FindEntry_StopsAtTombstone(es, cap, k) ==
  LET At(i) == es[Probe(Hash[k] % cap, i, cap)]
      stops == {i \in Slots(cap) : At(i).key \in {Undefined, k}}
      last == IF stops = {} THEN cap ELSE Min(stops)
  IN [found |-> last < cap /\ At(last).key = k,
      slot |-> Probe(Hash[k] % cap, last, cap)]

FindEntry(es, cap, k) ==
  LET At(i) == es[Probe(Hash[k] % cap, i, cap)]
      stops == {i \in Slots(cap) : At(i) = Open \/ At(i).key = k}
      last == IF stops = {} THEN cap ELSE Min(stops)
      found == last < cap /\ At(last).key = k
      passed == {i \in Slots(cap) : i < last /\ At(i) = Tombstone}
  IN [found |-> found,
      slot |-> Probe(Hash[k] % cap,
                     IF found \/ passed = {} THEN last ELSE Min(passed), cap)]

\* insertEntry().
Insert(es, cap, k, v) ==
  [es EXCEPT ![FindEntry(es, cap, k).slot] = [key |-> k, value |-> v]]

Contains(es, cap, k) == cap > 0 /\ FindEntry(es, cap, k).found

\* How many entries the table may hold before it grows.
Load(cap) == (cap * LoadPercent) \div 100

LiveKeys(es) == {es[i].key : i \in DOMAIN es} \ {Undefined}

\* What a loop over the map has seen, after a step that leaves `keys` in it.
Observe(keys) ==
  /\ visited' = visited \cap keys
  /\ unvisited' = unvisited \cap keys
  /\ UNCHANGED <<looping, iterator, iterations>>

-----------------------------------------------------------------------------
(* Operations.                                                              *)

\* The new array is allocated; the entries are copied by CopyEntry.
StartResize(cap, op) ==
  /\ pending' = op
  /\ resized' = [i \in Slots(cap) |-> Open]
  /\ copied' = 0

\* wrenMapSet(): makes room first, even for a key that is already there.
MapSet(k, v) ==
  /\ pending = Idle
  /\ IF count + 1 > Load(capacity)
     THEN /\ StartResize(Max({capacity * GrowFactor, MinCapacity}),
                         [op |-> "set", key |-> k, value |-> v])
          /\ UNCHANGED <<table, loop>>
     ELSE /\ entries' = Insert(entries, capacity, k, v)
          /\ count' = IF Contains(entries, capacity, k) THEN count ELSE count + 1
          /\ Observe(LiveKeys(entries'))
          /\ UNCHANGED <<capacity, resizing, rehashed>>

\* wrenMapClear().
ClearedCapacity == 0

MapClear ==
  /\ pending = Idle
  /\ entries' = NoEntries /\ capacity' = ClearedCapacity /\ count' = 0
  /\ Observe({})
  /\ rehashed' = TRUE
  /\ UNCHANGED resizing

\* wrenMapRemoveKey() of a key that is there: leaves a tombstone, frees the
\* array with the last entry, and shrinks a table that has become sparse.
Deleted_LeavesOpen == Open

Deleted == Tombstone

Sparse_Late(n) == capacity > MinCapacity /\ n + 1 < Load(capacity \div GrowFactor)

Sparse(n) == capacity > MinCapacity /\ n < Load(capacity \div GrowFactor)

MapRemoveKey(k) ==
  /\ pending = Idle
  /\ Contains(entries, capacity, k)
  /\ LET left == [entries EXCEPT ![FindEntry(entries, capacity, k).slot] = Deleted]
     IN
     /\ count' = count - 1
     /\ Observe(LiveKeys(left))
     /\ \/ /\ count = 1
           /\ entries' = NoEntries /\ capacity' = ClearedCapacity
           /\ rehashed' = TRUE
           /\ UNCHANGED resizing
        \/ /\ count # 1 /\ ~Sparse(count - 1)
           /\ entries' = left
           /\ UNCHANGED <<capacity, resizing, rehashed>>
        \/ /\ count # 1 /\ Sparse(count - 1)
           /\ entries' = left
           /\ StartResize(Max({capacity \div GrowFactor, MinCapacity}),
                          [op |-> "remove"])
           /\ UNCHANGED <<capacity, rehashed>>

\* The loop of resizeMap() adds the next used entry to the new array; it skips
\* open entries and tombstones.
ToCopy == {i \in DOMAIN entries : i >= copied /\ entries[i].key # Undefined}

CopyEntry ==
  /\ pending # Idle
  /\ ToCopy # {}
  /\ LET i == Min(ToCopy) IN
     /\ copied' = i + 1
     /\ resized' = Insert(resized, Cardinality(DOMAIN resized),
                          entries[i].key, entries[i].value)
  /\ UNCHANGED <<table, pending, loop>>

\* The new array replaces the old one, and a wrenMapSet() that was making room
\* inserts its entry.
Counted(k) == IF Contains(entries, capacity, k) THEN count ELSE count + 1

FinishResize ==
  LET cap == Cardinality(DOMAIN resized) IN
  /\ pending # Idle
  /\ ToCopy = {}
  /\ capacity' = cap
  /\ IF pending.op = "set"
     THEN /\ entries' = Insert(resized, cap, pending.key, pending.value)
          /\ count' = Counted(pending.key)
     ELSE entries' = resized /\ UNCHANGED count
  /\ pending' = Idle /\ resized' = NoEntries /\ copied' = 0
  /\ Observe(LiveKeys(entries'))
  /\ rehashed' = TRUE

-----------------------------------------------------------------------------
(* Iteration: `for (key in map.keys)` calls iterate(_), and keyIteratorValue_ *)
(* on its result, before each turn of the body.                             *)

LoopStart ==
  /\ pending = Idle
  /\ ~looping /\ iterations < MaxIterations
  /\ looping' = TRUE /\ iterator' = NoIndex /\ iterations' = iterations + 1
  /\ visited' = {} /\ unvisited' = LiveKeys(entries) /\ rehashed' = FALSE
  /\ UNCHANGED <<table, resizing>>

\* The entries iterate(_) looks at: all of them first, and then those past the
\* index it returned last, none if the array has no such index any more.
FirstIndex_Skips == IF iterator = NoIndex THEN 0 ELSE iterator + 2

FirstIndex == IF iterator = NoIndex THEN 0 ELSE iterator + 1

UsedFrom ==
  {i \in Slots(capacity) : i >= FirstIndex /\ entries[i].key # Undefined}

LoopNext ==
  /\ pending = Idle
  /\ looping
  /\ UsedFrom # {}
  /\ iterator' = Min(UsedFrom)
  /\ visited' = visited \cup {entries[iterator'].key}
  /\ unvisited' = unvisited \ {entries[iterator'].key}
  /\ UNCHANGED <<table, resizing, looping, iterations, rehashed>>

LoopEnd ==
  /\ pending = Idle
  /\ looping
  /\ UsedFrom = {}
  /\ looping' = FALSE /\ iterator' = NoIndex
  /\ visited' = {} /\ unvisited' = {} /\ rehashed' = FALSE
  /\ UNCHANGED <<table, resizing, iterations>>

Next ==
  \/ \E k \in Key, v \in Value : MapSet(k, v)
  \/ \E k \in Key : MapRemoveKey(k)
  \/ MapClear
  \/ CopyEntry
  \/ FinishResize
  \/ LoopStart
  \/ LoopNext
  \/ LoopEnd

Spec == Init /\ [][Next]_vars

-----------------------------------------------------------------------------
\* Every entry in use is where a lookup of its key finds it, whatever was
\* removed from the probe sequence before it and wherever the table wraps
\* around (findEntry), so that no key is in the table twice; and the walk for a
\* new key always comes across an entry to insert it in, even with no open
\* entry left, as the assertion of findEntry() says.
FindsEntry ==
  /\ \A i \in DOMAIN entries :
       entries[i].key # Undefined =>
         FindEntry(entries, capacity, entries[i].key) = [found |-> TRUE, slot |-> i]
  /\ capacity > 0 =>
       \A k \in Key :
         LET found == FindEntry(entries, capacity, k) IN
         ~found.found => /\ found.slot \in DOMAIN entries
                         /\ entries[found.slot].key = Undefined

\* The array has as many entries as the capacity says, the count is that of the
\* ones in use, and it keeps to the load factor although a key that is
\* overwritten and a key that is new are told apart only after the table has
\* grown.  Growing and shrinking do not chase each other: a table above the
\* minimum, just grown or not, holds what would fill the next smaller one.
LoadKept ==
  /\ entries \in Table(capacity)
  /\ count = Cardinality({i \in DOMAIN entries : entries[i].key # Undefined})
  /\ capacity > 0 => count > 0 /\ count <= Load(capacity)
  /\ pending = Idle /\ capacity > MinCapacity => count >= Load(capacity \div GrowFactor)

\* Unless the array is replaced on the way, a loop never sees a key twice while
\* it stays in the map, and sees every key that is in the map from its
\* beginning to its end, whatever else is set and removed by its body.
VisitsEach ==
  [][/\ LoopNext /\ ~rehashed => entries[iterator'].key \notin visited
     /\ LoopEnd /\ ~rehashed => unvisited = {}]_vars

\* The table implements a map: its resizing steps change nothing.
Dict == INSTANCE WrenDict
          WITH dict <- [k \in Key |-> {entries[i].value :
                          i \in {j \in DOMAIN entries : entries[j].key = k}}]
IsDict == Dict!Spec

=============================================================================
