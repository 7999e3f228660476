--------------------------- MODULE DataApi_proofs ---------------------------
(***************************************************************************)
(* The mods' hash maps of memory blocks, for any threads, maps, keys and   *)
(* blocks: what a call has found stays, and every block has one owner.     *)
(***************************************************************************)
EXTENDS DataApi, FiniteSetTheorems, TLAPS

Op == {"create", "get", "erase", "destroy", None}
Place == {"idle", "handle", "map", "alloc", "zero", "insert", "free", "erase", "empty"}
Call == [op : Op, map : Maps \cup {None}, key : Keys \cup {None}, at : Place,
         mem : Blocks \cup {None}]

DataTypeOK ==
  /\ u32_memory_hashmaps \subseteq spent /\ spent \subseteq Maps
  /\ entries \in [Maps -> [Keys -> Blocks \cup {None}]]
  /\ heap \in [Blocks -> {"free", "dirty", "zeroed"}]
  /\ call \in [Threads -> Call]

(* Where a call can be, and what it has by then. *)
CallOK(c) ==
  \/ c = Idle
  \/ /\ c.map \in spent
     /\ c.op # "destroy" => c.key \in Keys
     /\ \/ c.op = "create" /\ c.at \in {"handle", "map", "alloc", "zero", "insert"}
        \/ c.op = "get" /\ c.at \in {"handle", "map"}
        \/ c.op = "erase" /\ c.at \in {"handle", "map", "free", "erase"}
        \/ c.op = "destroy" /\ c.at \in {"handle", "map", "free", "empty"}
     /\ c.at \in {"zero", "insert", "free"} => c.mem \in Blocks

(* What a call has read is still so, because callers keep to the rules: the map
   it has found is there, and its entry is as it has found it. *)
Stays(t) ==
  /\ CallOK(call[t])
  /\ call[t].at \notin {"idle", "handle"} => call[t].map \in u32_memory_hashmaps
  /\ call[t].op = "erase" /\ call[t].at = "free" => Entry(t) = call[t].mem
  /\ call[t].op = "create" /\ call[t].at \in {"alloc", "zero", "insert"} =>
       Entry(t) = None
  /\ call[t].op = "destroy" /\ call[t].at = "empty" => Filled(call[t].map) = {}

UnusedEmpty == \A m \in Maps \ spent, k \in Keys : entries[m][k] = None

CallInv ==
  /\ DataTypeOK /\ Apart /\ UnusedEmpty
  /\ \A t \in Threads : Stays(t)

(* Who answers for a block: an entry, or a call. *)
InMap(m, k, b) ==
  m \in u32_memory_hashmaps /\ entries[m][k] = b /\ ~ Erased(m, k)
Holds(t, b) ==
  /\ call[t].mem = b
  /\ \/ call[t].at \in {"zero", "insert"}
     \/ call[t].at = "free" /\ call[t].op = "destroy"

OwnersOK ==
  /\ \A b \in Blocks, m \in Maps, k \in Keys : InMap(m, k, b) => heap[b] = "zeroed"
  /\ \A b \in Blocks, m, n \in Maps, k, l \in Keys :
       InMap(m, k, b) /\ InMap(n, l, b) => m = n /\ k = l
  /\ \A b \in Blocks, t \in Threads : Holds(t, b) =>
       heap[b] # "free" /\ (call[t].at = "insert" => heap[b] = "zeroed")
  /\ \A b \in Blocks, t, u \in Threads : Holds(t, b) /\ Holds(u, b) => t = u
  /\ \A b \in Blocks, t \in Threads, m \in Maps, k \in Keys :
       ~ (InMap(m, k, b) /\ Holds(t, b))
  /\ \A b \in Blocks : heap[b] # "free" =>
       \/ \E t \in Threads : Holds(t, b)
       \/ \E m \in Maps, k \in Keys : InMap(m, k, b)
-----------------------------------------------------------------------------
(***************************************************************************)
(* How a step of one thread changes calls and entries.                     *)
(***************************************************************************)
Others(t) == \A u \in Threads \ {t} : call'[u] = call[u]

Moved(t, place, mem) ==
  /\ call' \in [Threads -> Call] /\ Others(t)
  /\ call'[t].op = call[t].op /\ call'[t].map = call[t].map
  /\ call'[t].key = call[t].key
  /\ call'[t].at = place /\ call'[t].mem = mem

LEMMA IdleType == Idle \in Call
BY DEF Idle, Call, Op, Place

LEMMA Moves ==
  ASSUME DataTypeOK, NEW t \in Threads, NEW place \in Place
  PROVE  /\ GoesTo(t, place) => Moved(t, place, call[t].mem)
         /\ \A mem \in Blocks \cup {None} :
              GoesWith(t, place, mem) => Moved(t, place, mem)
         /\ Returns(t) => /\ call' \in [Threads -> Call] /\ Others(t)
                          /\ call'[t] = Idle
<1>1. call \in [Threads -> Call] /\ call[t] \in Call
  BY DEF DataTypeOK
<1>2. ASSUME GoesTo(t, place) PROVE Moved(t, place, call[t].mem)
  BY <1>1, <1>2 DEF GoesTo, Moved, Others, Call
<1>3. ASSUME NEW mem \in Blocks \cup {None}, GoesWith(t, place, mem)
      PROVE  Moved(t, place, mem)
  BY <1>1, <1>3 DEF GoesWith, Moved, Others, Call
<1>4. ASSUME Returns(t)
      PROVE  call' \in [Threads -> Call] /\ Others(t) /\ call'[t] = Idle
  BY <1>1, <1>4, IdleType DEF Returns, Others
<1>5. QED
  BY <1>2, <1>3, <1>4

(* Only the entry of k in m is written. *)
OneEntry(m, k, mem) ==
  /\ entries' \in [Maps -> [Keys -> Blocks \cup {None}]]
  /\ \A n \in Maps, l \in Keys :
       entries'[n][l] = IF n = m /\ l = k THEN mem ELSE entries[n][l]

LEMMA EntryWritten ==
  ASSUME DataTypeOK, NEW m \in Maps, NEW k \in Keys, NEW mem \in Blocks \cup {None},
         entries' = [entries EXCEPT ![m][k] = mem]
  PROVE  OneEntry(m, k, mem)
BY DEF DataTypeOK, OneEntry

(* A step of t that writes no entry another call has read. *)
LEMMA StepKeepsCalls ==
  ASSUME CallInv, NEW t \in Threads, call[t] # Idle,
         call' \in [Threads -> Call], Others(t),
         \/ call'[t] = Idle
         \/ /\ call'[t].op = call[t].op /\ call'[t].map = call[t].map
            /\ call'[t].key = call[t].key,
         spent' = spent, u32_memory_hashmaps' \subseteq u32_memory_hashmaps,
         \A m \in u32_memory_hashmaps \ u32_memory_hashmaps' :
           m = call[t].map /\ call[t].op = "destroy",
         heap' \in [Blocks -> {"free", "dirty", "zeroed"}],
         \/ entries' = entries
         \/ \E k \in Keys, x \in Blocks \cup {None} :
              /\ OneEntry(call[t].map, k, x)
              /\ \/ call[t].op = "destroy"
                 \/ call[t].op \in {"create", "erase"} /\ k = call[t].key,
         Stays(t)'
  PROVE  CallInv'
<1>1. /\ call[t].map \in spent /\ spent \subseteq Maps /\ DataTypeOK
      /\ Apart /\ UnusedEmpty
      /\ \A u \in Threads : Stays(u)
  BY DEF CallInv, Stays, CallOK, DataTypeOK
<1>2. DataTypeOK'
  BY <1>1 DEF DataTypeOK, OneEntry
<1>3. Apart'
  <2>1. \A u \in Threads : call[u].map = None => call[u] = Idle
    BY <1>1, NoneAssumption DEF Stays, CallOK
  <2>2. /\ Idle.op = None /\ Idle.map = None /\ Idle.key = None
        /\ ~ Excludes(Idle, Idle)
    BY DEF Idle, Excludes, None
  <2>3. ASSUME NEW u \in Threads \ {t}
        PROVE  ~ Excludes(call'[t], call[u]) /\ ~ Excludes(call[u], call'[t])
    <3>1. ~ Excludes(call[t], call[u]) /\ ~ Excludes(call[u], call[t])
      BY <1>1 DEF Apart
    <3>2. CASE call'[t] = Idle
      BY <2>1, <2>2, <3>2 DEF Excludes, None
    <3>3. CASE /\ call'[t].op = call[t].op /\ call'[t].map = call[t].map
               /\ call'[t].key = call[t].key
      BY <3>1, <3>3 DEF Excludes
    <3>4. QED
      BY <3>2, <3>3
  <2>4. QED
    BY <1>1, <2>3 DEF Apart, Others
<1>4. UnusedEmpty'
  BY <1>1 DEF UnusedEmpty, OneEntry
<1>5. ASSUME NEW u \in Threads \ {t}
      PROVE  Stays(u)'
  <2>1. call'[u] = call[u] /\ Stays(u)
    BY <1>1 DEF Others
  <2>2. ~ Excludes(call[t], call[u]) /\ ~ Excludes(call[u], call[t])
    BY <1>1 DEF Apart
  <2>3. call[u].at \notin {"idle", "handle"} =>
          call[u].map \in u32_memory_hashmaps'
    BY <2>1, <2>2 DEF Stays, Excludes
  <2>4. CASE entries' = entries
    BY <2>1, <2>3, <2>4 DEF Stays, Entry, CallOK, Filled
  <2>5. CASE \E k \in Keys, x \in Blocks \cup {None} :
               /\ OneEntry(call[t].map, k, x)
               /\ \/ call[t].op = "destroy"
                  \/ call[t].op \in {"create", "erase"} /\ k = call[t].key
    <3>1. ASSUME call[u].op \in {"create", "erase"},
                 call[u].at \notin {"idle", "handle"}
          PROVE  Entry(u)' = Entry(u)
      <4>1. call[u].map \in Maps /\ call[u].key \in Keys
        BY <1>1, <2>1, <3>1 DEF Stays, CallOK, Idle
      <4>2. QED
        BY <2>1, <2>2, <2>5, <3>1, <4>1 DEF Entry, Excludes, OneEntry
    <3>2. ASSUME call[u].op = "destroy", call[u].at = "empty"
          PROVE  Filled(call[u].map)' = Filled(call[u].map)
      <4>1. call[u].map \in Maps
        BY <1>1, <2>1, <3>2 DEF Stays, CallOK, Idle
      <4>2. call[u].map # call[t].map
        BY <2>2, <3>2 DEF Excludes
      <4>3. \A k \in Keys : entries'[call[u].map][k] = entries[call[u].map][k]
        BY <2>5, <4>1, <4>2 DEF OneEntry
      <4>4. QED
        BY <2>1, <4>3 DEF Filled
    <3>3. QED
      BY <2>1, <2>3, <3>1, <3>2 DEF Stays, CallOK
  <2>6. QED
    BY <2>4, <2>5
<1>6. QED
  BY <1>2, <1>3, <1>4, <1>5 DEF CallInv
-----------------------------------------------------------------------------
LEMMA CallTypes ==
  ASSUME CallInv, NEW t \in Threads
  PROVE  /\ DataTypeOK /\ Stays(t) /\ call[t] \in Call
         /\ call[t].at # "idle" =>
              /\ call[t] # Idle /\ call[t].map \in spent /\ call[t].map \in Maps
              /\ call[t].op # "destroy" => call[t].key \in Keys
<1>1. DataTypeOK /\ Stays(t) /\ call[t] \in Call /\ CallOK(call[t])
  BY DEF CallInv, DataTypeOK, Stays
<1>2. Idle.at = "idle" /\ spent \subseteq Maps
  BY <1>1 DEF DataTypeOK, Idle
<1>3. QED
  BY <1>1, <1>2 DEF CallOK

LEMMA IdleStays ==
  ASSUME NEW t \in Threads, call'[t] = Idle
  PROVE  Stays(t)'
<1>1. Idle.at = "idle" /\ Idle.op = None /\ None # "destroy"
  BY DEF Idle, None
<1>2. QED
  BY <1>1, NoneAssumption DEF Stays, CallOK

LEMMA CallsUnchanged ==
  ASSUME CallInv, UNCHANGED <<u32_memory_hashmaps, spent, entries, heap, call>>
  PROVE  CallInv'
BY DEF CallInv, DataTypeOK, Apart, UnusedEmpty, Stays, CallOK, Entry, Filled

LEMMA FindsKeeps ==
  ASSUME CallInv, NEW t \in Threads, FindsMap(t)
  PROVE  CallInv'
<1>1. /\ call[t].at = "handle" /\ DataTypeOK /\ Stays(t)
      /\ UNCHANGED <<u32_memory_hashmaps, spent, entries, heap>>
      /\ call[t] # Idle
  BY CallTypes DEF FindsMap, WithMap, At
<1>2. CASE call[t].map \in u32_memory_hashmaps /\ GoesTo(t, "map")
  <2>1. Moved(t, "map", call[t].mem)
    BY <1>1, <1>2, Moves DEF Place
  <2>2. Stays(t)'
    BY <1>1, <1>2, <2>1 DEF Moved, Stays, CallOK
  <2>3. QED
    BY <1>1, <2>1, <2>2, StepKeepsCalls DEF Moved, DataTypeOK
<1>3. CASE UNCHANGED call
  BY <1>1, <1>3, CallsUnchanged
<1>4. QED
  BY <1>2, <1>3 DEF FindsMap

LEMMA LooksUpKeeps ==
  ASSUME CallInv, NEW t \in Threads, LooksUp(t)
  PROVE  CallInv'
<1>1. /\ call[t].at = "map" /\ call[t].op \in {"create", "get", "erase"}
      /\ DataTypeOK /\ Stays(t) /\ call[t] # Idle
      /\ UNCHANGED <<u32_memory_hashmaps, spent, entries, heap>>
      /\ call[t].map \in Maps /\ call[t].key \in Keys
  BY CallTypes DEF LooksUp, WithMap, At, mapVars
<1>2. Entry(t) \in Blocks \cup {None} /\ heap' \in [Blocks -> {"free", "dirty", "zeroed"}]
  BY <1>1 DEF Entry, DataTypeOK
<1>3. CASE Returns(t)
  BY <1>1, <1>2, <1>3, IdleStays, Moves, StepKeepsCalls DEF Place
<1>4. ASSUME NEW place, NEW mem, Moved(t, place, mem), Stays(t)'
      PROVE  CallInv'
  BY <1>1, <1>2, <1>4, StepKeepsCalls DEF Moved
<1>5. CASE call[t].op = "create" /\ Entry(t) = None /\ GoesTo(t, "alloc")
  <2>1. Moved(t, "alloc", call[t].mem)
    BY <1>1, <1>5, Moves DEF Place
  <2>2. Stays(t)'
    BY <1>1, <1>5, <2>1 DEF Moved, Stays, CallOK, Entry
  <2>3. QED
    BY <1>4, <2>1, <2>2
<1>6. CASE call[t].op = "erase" /\ Entry(t) = None /\ GoesTo(t, "erase")
  <2>1. Moved(t, "erase", call[t].mem)
    BY <1>1, <1>6, Moves DEF Place
  <2>2. Stays(t)'
    BY <1>1, <1>6, <2>1 DEF Moved, Stays, CallOK
  <2>3. QED
    BY <1>4, <2>1, <2>2
<1>7. CASE call[t].op = "erase" /\ Entry(t) # None /\ GoesWith(t, "free", Entry(t))
  <2>1. Moved(t, "free", Entry(t))
    BY <1>1, <1>2, <1>7, Moves DEF Place
  <2>2. Stays(t)'
    BY <1>1, <1>2, <1>7, <2>1 DEF Moved, Stays, CallOK, Entry
  <2>3. QED
    BY <1>4, <2>1, <2>2
<1>8. QED
  BY <1>3, <1>5, <1>6, <1>7 DEF LooksUp

LEMMA HeapStepsKeep ==
  ASSUME CallInv, NEW t \in Threads, Allocates(t) \/ Zeroes(t) \/ Frees(t)
  PROVE  CallInv'
<1>1. /\ DataTypeOK /\ Stays(t) /\ call[t] # Idle
      /\ UNCHANGED <<u32_memory_hashmaps, spent, entries>>
      /\ call[t].map \in Maps
  BY CallTypes DEF Allocates, Zeroes, Frees, WithMap, At, mapVars
<1>2. ASSUME NEW place, NEW mem, Moved(t, place, mem), Stays(t)',
             heap' \in [Blocks -> {"free", "dirty", "zeroed"}]
      PROVE  CallInv'
  BY <1>1, <1>2, StepKeepsCalls DEF Moved
<1>3. CASE Allocates(t)
  <2>1. PICK b \in Blocks :
          heap' = [heap EXCEPT ![b] = "dirty"] /\ GoesWith(t, "zero", b)
    BY <1>3 DEF Allocates
  <2>2. Moved(t, "zero", b)
    BY <1>1, <2>1, Moves DEF Place
  <2>3. Stays(t)'
    BY <1>1, <1>3, <2>2 DEF Allocates, WithMap, At, Moved, Stays, CallOK, Entry
  <2>4. QED
    BY <1>1, <1>2, <2>1, <2>2, <2>3 DEF DataTypeOK
<1>4. CASE Zeroes(t)
  <2>1. Moved(t, "insert", call[t].mem)
    BY <1>1, <1>4, Moves DEF Place, Zeroes
  <2>2. Stays(t)'
    BY <1>1, <1>4, <2>1 DEF Zeroes, WithMap, At, Moved, Stays, CallOK, Entry
  <2>3. QED
    BY <1>1, <1>2, <1>4, <2>1, <2>2 DEF DataTypeOK, Zeroes
<1>5. CASE Frees(t)
  <2>1. PICK place \in {"erase", "map"} :
          GoesTo(t, place) /\ (place = "erase" <=> call[t].op = "erase")
    BY <1>5 DEF Frees
  <2>2. Moved(t, place, call[t].mem)
    BY <1>1, <2>1, Moves DEF Place
  <2>3. Stays(t)'
    BY <1>1, <1>5, <2>1, <2>2 DEF Frees, WithMap, At, Moved, Stays, CallOK
  <2>4. QED
    BY <1>1, <1>2, <1>5, <2>2, <2>3 DEF DataTypeOK, Frees
<1>6. QED
  BY <1>3, <1>4, <1>5

LEMMA WritesKeep ==
  ASSUME CallInv, NEW t \in Threads, Inserts(t) \/ Erases(t) \/ erase_first(t)
  PROVE  CallInv'
<1>1. /\ DataTypeOK /\ Stays(t) /\ call[t] # Idle
      /\ UNCHANGED <<u32_memory_hashmaps, spent, heap>>
      /\ call[t].map \in Maps
      /\ call[t].op # "destroy" => call[t].key \in Keys
      /\ heap' \in [Blocks -> {"free", "dirty", "zeroed"}]
  BY CallTypes DEF Inserts, Erases, erase_first, WithMap, At, mapVars, DataTypeOK
<1>2. CASE Inserts(t) \/ Erases(t)
  <2>1. PICK x \in Blocks \cup {None} : WithEntry(t, x)
    BY <1>1, <1>2 DEF Inserts, Erases, WithMap, At, Stays, CallOK
  <2>2. OneEntry(call[t].map, call[t].key, x)
    BY <1>1, <1>2, <2>1, EntryWritten DEF WithEntry, Inserts, Erases, WithMap, At
  <2>3. call' \in [Threads -> Call] /\ Others(t) /\ call'[t] = Idle
    BY <1>1, <1>2, Moves DEF Inserts, Erases, Place
  <2>4. call[t].op \in {"create", "erase"} /\ call[t].key \in Keys
    BY <1>1, <1>2 DEF Inserts, Erases, WithMap, At
  <2>5. QED
    BY <1>1, <2>2, <2>3, <2>4, IdleStays, StepKeepsCalls
<1>3. CASE erase_first(t)
  <2>1. PICK k \in Filled(call[t].map) :
          /\ GoesWith(t, "free", entries[call[t].map][k])
          /\ entries' = [entries EXCEPT ![call[t].map][k] = None]
    BY <1>3 DEF erase_first
  <2>2. k \in Keys /\ entries[call[t].map][k] \in Blocks
    BY <1>1, <2>1 DEF Filled, DataTypeOK
  <2>3. OneEntry(call[t].map, k, None)
    BY <1>1, <2>1, <2>2, EntryWritten
  <2>4. Moved(t, "free", entries[call[t].map][k])
    BY <1>1, <2>1, <2>2, Moves DEF Place
  <2>5. call[t].op = "destroy" /\ Stays(t)'
    BY <1>1, <1>3, <2>2, <2>4 DEF erase_first, WithMap, At, Moved, Stays, CallOK
  <2>6. QED
    BY <1>1, <2>2, <2>3, <2>4, <2>5, StepKeepsCalls DEF Moved
<1>4. QED
  BY <1>2, <1>3

LEMMA FindsEmptyKeeps ==
  ASSUME CallInv, NEW t \in Threads, FindsEmpty(t)
  PROVE  CallInv'
<1>1. /\ DataTypeOK /\ Stays(t) /\ call[t] # Idle /\ call[t].op = "destroy"
      /\ call[t].at = "map" /\ Filled(call[t].map) = {}
      /\ UNCHANGED <<u32_memory_hashmaps, spent, entries, heap>>
  BY CallTypes DEF FindsEmpty, WithMap, At, mapVars
<1>2. Moved(t, "empty", call[t].mem)
  BY <1>1, Moves DEF FindsEmpty, Place
<1>3. Stays(t)'
  BY <1>1, <1>2 DEF Moved, Stays, CallOK, Filled
<1>4. QED
  BY <1>1, <1>2, <1>3, StepKeepsCalls DEF Moved, DataTypeOK

LEMMA ErasesMapKeeps ==
  ASSUME CallInv, NEW t \in Threads, ErasesMap(t)
  PROVE  CallInv'
<1>1. /\ DataTypeOK /\ Stays(t) /\ call[t] # Idle /\ call[t].op = "destroy"
      /\ UNCHANGED <<spent, heap, entries>>
      /\ u32_memory_hashmaps' = u32_memory_hashmaps \ {call[t].map}
      /\ heap' \in [Blocks -> {"free", "dirty", "zeroed"}]
  BY CallTypes DEF ErasesMap, WithMap, At, DataTypeOK
<1>2. call' \in [Threads -> Call] /\ Others(t) /\ call'[t] = Idle
  BY <1>1, Moves DEF ErasesMap, Place
<1>3. QED
  BY <1>1, <1>2, IdleStays, StepKeepsCalls

LEMMA CallingKeeps ==
  ASSUME CallInv, NEW t \in Threads, Calls(t), Apart'
  PROVE  CallInv'
<1>1. PICK op \in {"create", "get", "erase", "destroy"}, m \in spent, k \in Keys :
        call' = [call EXCEPT ![t] =
          [op |-> op, map |-> m, key |-> IF op = "destroy" THEN None ELSE k,
           at |-> "handle", mem |-> None]]
  BY DEF Calls
<1> DEFINE c == [op |-> op, map |-> m, key |-> IF op = "destroy" THEN None ELSE k,
                 at |-> "handle", mem |-> None]
<1>2. /\ DataTypeOK /\ call \in [Threads -> Call] /\ m \in Maps
      /\ UNCHANGED <<u32_memory_hashmaps, spent, entries, heap>>
  BY CallTypes DEF Calls, mapVars, DataTypeOK
<1>3. c \in Call /\ CallOK(c) /\ c.at = "handle"
  BY <1>2 DEF Call, Op, Place, CallOK
<1>4. call' = [call EXCEPT ![t] = c]
  BY <1>1
<1> HIDE DEF c
<1>5. call' \in [Threads -> Call] /\ Others(t) /\ call'[t] = c
  BY <1>2, <1>3, <1>4 DEF Others
<1>6. \A u \in Threads : Stays(u)'
  BY <1>2, <1>3, <1>5 DEF CallInv, Stays, CallOK, Others, Entry, Filled
<1>7. QED
  BY <1>2, <1>5, <1>6 DEF CallInv, DataTypeOK, UnusedEmpty

LEMMA CreatingKeeps ==
  ASSUME CallInv, NEW t \in Threads, create_map(t)
  PROVE  CallInv'
BY DEF create_map, CallInv, DataTypeOK, Apart, UnusedEmpty, Stays, CallOK, Entry, Filled

LEMMA CallInvInit == Init => CallInv
BY IdleType
   DEF Init, CallInv, DataTypeOK, Apart, UnusedEmpty, Stays, CallOK, Excludes, Idle,
       None

LEMMA CallInvStep ==
  ASSUME CallInv, [CarefulNext]_vars
  PROVE  CallInv'
<1>1. CASE UNCHANGED vars
  BY <1>1, CallsUnchanged DEF vars, mapVars
<1>2. ASSUME NEW t \in Threads, create_map(t) \/ Calls(t) \/ Step(t), Apart'
      PROVE  CallInv'
  BY <1>2, CreatingKeeps, CallingKeeps, FindsKeeps, LooksUpKeeps, HeapStepsKeep,
     WritesKeep, FindsEmptyKeeps, ErasesMapKeeps DEF Step
<1>3. QED
  BY <1>1, <1>2 DEF CarefulNext, Next
-----------------------------------------------------------------------------
(***************************************************************************)
(* Who answers for the blocks.                                             *)
(***************************************************************************)

(* A step that hands no block over. *)
LEMMA SameOwners ==
  ASSUME OwnersOK, heap' = heap,
         \A b \in Blocks, m \in Maps, k \in Keys : InMap(m, k, b)' <=> InMap(m, k, b),
         \A b \in Blocks, t \in Threads : Holds(t, b)' <=> Holds(t, b),
         \A t \in Threads : call'[t].at = "insert" => call[t].at = "insert"
  PROVE  OwnersOK'
BY DEF OwnersOK

(* Who else is at an entry that t may write. *)
LEMMA ErasersAlone ==
  ASSUME CallInv, NEW t \in Threads, call[t].at # "idle", NEW u \in Threads,
         call[u].op = "erase", call[u].at = "erase", call[u].map = call[t].map,
         call[u].key = call[t].key \/ call[t].op = "destroy"
  PROVE  u = t
BY DEF CallInv, Apart, Excludes

LEMMA QuietOwners ==
  ASSUME CallInv, OwnersOK, NEW t \in Threads,
         FindsMap(t) \/ LooksUp(t) \/ FindsEmpty(t)
  PROVE  OwnersOK'
<1>1. /\ DataTypeOK /\ Stays(t) /\ call[t] \in Call
      /\ call[t].map \in Maps /\ call[t].at \in {"handle", "map"}
      /\ UNCHANGED <<u32_memory_hashmaps, spent, entries, heap>>
  BY CallTypes DEF FindsMap, LooksUp, FindsEmpty, WithMap, At, mapVars
<1>2. CASE UNCHANGED call
  BY <1>1, <1>2, SameOwners DEF InMap, Erased, Holds
<1>3. ASSUME call' \in [Threads -> Call], Others(t),
             call'[t].at \in {"idle", "map", "alloc", "empty"}
      PROVE  OwnersOK'
  <2>1. \A u \in Threads : call'[u].at = "erase" <=> call[u].at = "erase"
    BY <1>1, <1>3 DEF Others
  <2>2. \A m, k : Erased(m, k)' <=> Erased(m, k)
    BY <1>1, <1>3, <2>1 DEF Erased, Others
  <2>3. QED
    BY <1>1, <1>3, <2>2, SameOwners DEF InMap, Holds, Others
<1>4. ASSUME call[t].op = "erase", call[t].at = "map", call[t].key \in Keys,
             Entry(t) = None \/ call'[t].at = "free",
             \/ Moved(t, "erase", call[t].mem)
             \/ Moved(t, "free", Entry(t))
      PROVE  OwnersOK'
  <2>1. \A m \in Maps, k \in Keys :
          \/ Erased(m, k)' <=> Erased(m, k)
          \/ entries[m][k] = None
    BY <1>1, <1>4 DEF Erased, Moved, Others, Entry
  <2>2. \A b \in Blocks, m \in Maps, k \in Keys : InMap(m, k, b)' <=> InMap(m, k, b)
    BY <1>1, <2>1, NoneAssumption DEF InMap
  <2>3. \A b \in Blocks, u \in Threads : Holds(u, b)' <=> Holds(u, b)
    BY <1>1, <1>4 DEF Holds, Moved, Others
  <2>4. \A u \in Threads : call'[u].at = "insert" => call[u].at = "insert"
    BY <1>1, <1>4 DEF Moved, Others
  <2>5. QED
    BY <1>1, <2>2, <2>3, <2>4, SameOwners
<1>5. CASE FindsMap(t)
  <2>1. CASE GoesTo(t, "map")
    BY <1>1, <1>3, <2>1, Moves DEF Place, Moved
  <2>2. QED
    BY <1>2, <1>5, <2>1 DEF FindsMap
<1>6. CASE LooksUp(t)
  <2>1. CASE Returns(t)
    BY <1>1, <1>3, <2>1, Moves DEF Place, Idle
  <2>2. CASE GoesTo(t, "alloc")
    BY <1>1, <1>3, <2>2, Moves DEF Place, Moved
  <2>3. CASE call[t].op = "erase" /\ Entry(t) = None /\ GoesTo(t, "erase")
    <3>1. Moved(t, "erase", call[t].mem)
      BY <1>1, <2>3, Moves DEF Place
    <3>2. call[t].key \in Keys /\ call[t].at = "map"
      BY <1>6, <2>3, CallTypes DEF LooksUp, WithMap, At
    <3>3. QED
      BY <1>4, <2>3, <3>1, <3>2
  <2>4. CASE call[t].op = "erase" /\ GoesWith(t, "free", Entry(t))
    <3>1. call[t].key \in Keys /\ call[t].at = "map"
      BY <1>6, <2>4, CallTypes DEF LooksUp, WithMap, At
    <3>2. Entry(t) \in Blocks \cup {None}
      BY <1>1, <3>1 DEF Entry, DataTypeOK
    <3>3. Moved(t, "free", Entry(t))
      BY <1>1, <2>4, <3>2, Moves DEF Place
    <3>4. call'[t].at = "free"
      BY <3>3 DEF Moved
    <3>5. QED
      BY <1>4, <2>4, <3>1, <3>3, <3>4
  <2>5. QED
    BY <1>6, <2>1, <2>2, <2>3, <2>4 DEF LooksUp
<1>7. CASE FindsEmpty(t)
  <2>1. GoesTo(t, "empty")
    BY <1>7 DEF FindsEmpty
  <2>2. QED
    BY <1>1, <1>3, <2>1, Moves DEF Place, Moved
<1>8. QED
  BY <1>5, <1>6, <1>7

LEMMA ErasedSame ==
  ASSUME NEW t \in Threads, Others(t),
         call[t].at # "erase", call'[t].at # "erase"
  PROVE  \A m, k : Erased(m, k)' <=> Erased(m, k)
BY DEF Erased, Others

LEMMA AllocatesOwners ==
  ASSUME CallInv, OwnersOK, NEW t \in Threads, Allocates(t)
  PROVE  OwnersOK'
<1>1. /\ DataTypeOK /\ call[t].op = "create" /\ call[t].at = "alloc"
      /\ UNCHANGED <<u32_memory_hashmaps, entries>>
  BY CallTypes DEF Allocates, WithMap, At, mapVars
<1>2. PICK b \in Blocks : /\ heap[b] = "free" /\ heap' = [heap EXCEPT ![b] = "dirty"]
                          /\ GoesWith(t, "zero", b)
  BY DEF Allocates
<1>3. Moved(t, "zero", b)
  BY <1>1, <1>2, Moves DEF Place
<1>4. \A x \in Blocks : heap'[x] = IF x = b THEN "dirty" ELSE heap[x]
  BY <1>1, <1>2 DEF DataTypeOK
<1>5. \A x \in Blocks, m \in Maps, k \in Keys : InMap(m, k, x)' <=> InMap(m, k, x)
  BY <1>1, <1>3, ErasedSame DEF InMap, Moved
<1>6. \A x \in Blocks, u \in Threads :
        Holds(u, x)' <=> Holds(u, x) \/ (u = t /\ x = b)
  BY <1>1, <1>3 DEF Holds, Moved, Others
<1>7. /\ \A m \in Maps, k \in Keys : ~ InMap(m, k, b)
      /\ \A u \in Threads : ~ Holds(u, b)
      /\ \A x \in Blocks : ~ Holds(t, x)
  BY <1>1, <1>2 DEF OwnersOK, Holds
<1>8. \A u \in Threads : call'[u].at = "insert" => call[u].at = "insert" /\ u # t
  BY <1>1, <1>3 DEF Moved, Others
<1>9. \A x \in Blocks, u \in Threads : Holds(u, x)' =>
        heap'[x] # "free" /\ (call'[u].at = "insert" => heap'[x] = "zeroed")
  BY <1>4, <1>6, <1>7, <1>8 DEF OwnersOK
<1>10. \A x \in Blocks, m \in Maps, k \in Keys : InMap(m, k, x)' => heap'[x] = "zeroed"
  BY <1>4, <1>5, <1>7 DEF OwnersOK
<1>11. \A x \in Blocks : heap'[x] # "free" =>
         \/ \E u \in Threads : Holds(u, x)'
         \/ \E m \in Maps, k \in Keys : InMap(m, k, x)'
  BY <1>4, <1>5, <1>6 DEF OwnersOK
<1>12. QED
  BY <1>5, <1>6, <1>7, <1>9, <1>10, <1>11 DEF OwnersOK

LEMMA ZeroesOwners ==
  ASSUME CallInv, OwnersOK, NEW t \in Threads, Zeroes(t)
  PROVE  OwnersOK'
<1> DEFINE b == call[t].mem
<1>1. /\ DataTypeOK /\ call[t].op = "create" /\ call[t].at = "zero"
      /\ UNCHANGED <<u32_memory_hashmaps, entries>> /\ b \in Blocks
      /\ heap' = [heap EXCEPT ![b] = "zeroed"]
  BY CallTypes DEF Zeroes, WithMap, At, mapVars, Stays, CallOK, Idle
<1>2. Moved(t, "insert", b)
  BY <1>1, Moves DEF Place, Zeroes
<1>3. \A x \in Blocks : heap'[x] = IF x = b THEN "zeroed" ELSE heap[x]
  BY <1>1 DEF DataTypeOK
<1>4. \A x \in Blocks, m \in Maps, k \in Keys : InMap(m, k, x)' <=> InMap(m, k, x)
  BY <1>1, <1>2, ErasedSame DEF InMap, Moved
<1>5. \A x \in Blocks, u \in Threads : Holds(u, x)' <=> Holds(u, x)
  BY <1>1, <1>2 DEF Holds, Moved, Others
<1>6. Holds(t, b)
  BY <1>1 DEF Holds
<1>7. \A u \in Threads \ {t} : call'[u] = call[u]
  BY <1>2 DEF Moved, Others
<1>8. \A x \in Blocks : Holds(t, x) => x = b
  BY DEF Holds
<1> HIDE DEF b
<1>9. heap[b] # "free"
  BY <1>1, <1>6 DEF OwnersOK
<1>10. \A x \in Blocks, u \in Threads : Holds(u, x)' =>
         heap'[x] # "free" /\ (call'[u].at = "insert" => heap'[x] = "zeroed")
  BY <1>3, <1>5, <1>6, <1>7, <1>8 DEF OwnersOK
<1>11. \A x \in Blocks, m \in Maps, k \in Keys : InMap(m, k, x)' => heap'[x] = "zeroed"
  BY <1>3, <1>4 DEF OwnersOK
<1>12. \A x \in Blocks : heap'[x] # "free" => heap[x] # "free"
  BY <1>3, <1>9
<1>13. QED
  BY <1>4, <1>5, <1>10, <1>11, <1>12 DEF OwnersOK

(* The block passes from the call to the entry. *)
LEMMA InsertsOwners ==
  ASSUME CallInv, OwnersOK, NEW t \in Threads, Inserts(t)
  PROVE  OwnersOK'
<1> DEFINE b == call[t].mem
           n == call[t].map
           l == call[t].key
<1>1. /\ DataTypeOK /\ call[t].op = "create" /\ call[t].at = "insert"
      /\ UNCHANGED <<u32_memory_hashmaps, heap>> /\ b \in Blocks
      /\ n \in Maps /\ l \in Keys /\ n \in u32_memory_hashmaps
      /\ entries[n][l] = None
  BY CallTypes DEF Inserts, WithMap, At, mapVars, Stays, CallOK, Idle, Entry
<1>2. OneEntry(n, l, b)
  BY <1>1, EntryWritten DEF Inserts, WithEntry
<1>3. call' \in [Threads -> Call] /\ Others(t) /\ call'[t] = Idle
  BY <1>1, Moves DEF Inserts, Place
<1>4. ~ Erased(n, l)
  BY <1>1, ErasersAlone DEF Erased
<1>5. \A m, k : Erased(m, k)' <=> Erased(m, k)
  BY <1>1, <1>3, ErasedSame DEF Idle
<1>6. Holds(t, b)
  BY <1>1 DEF Holds
<1>7. \A x \in Blocks, u \in Threads : Holds(u, x)' <=> Holds(u, x) /\ u # t
  BY <1>1, <1>3 DEF Holds, Others, Idle
<1>8. \A x \in Blocks, u \in Threads : u = t /\ Holds(u, x) => x = b
  BY DEF Holds
<1>9. heap[b] = "zeroed"
  BY <1>1, <1>6 DEF OwnersOK
<1>10. \A x \in Blocks, m \in Maps, k \in Keys :
         InMap(m, k, x)' <=> InMap(m, k, x) \/ (m = n /\ k = l /\ x = b)
  BY <1>1, <1>2, <1>4, <1>5, NoneAssumption DEF InMap, OneEntry
<1>11. \A u \in Threads \ {t} : call'[u] = call[u]
  BY <1>3 DEF Others
<1> HIDE DEF b, n, l
<1>12. \A m \in Maps, k \in Keys : ~ InMap(m, k, b)
  BY <1>1, <1>6 DEF OwnersOK
<1>13. \A u \in Threads : Holds(u, b) => u = t
  BY <1>1, <1>6 DEF OwnersOK
<1>14. heap' = heap
  BY <1>1
<1>15. \A x \in Blocks : heap'[x] # "free" =>
         \/ \E u \in Threads : Holds(u, x)'
         \/ \E m \in Maps, k \in Keys : InMap(m, k, x)'
  BY <1>1, <1>7, <1>8, <1>10, <1>14 DEF OwnersOK
<1>16. \A x \in Blocks, u \in Threads : Holds(u, x)' =>
         heap'[x] # "free" /\ (call'[u].at = "insert" => heap'[x] = "zeroed")
  BY <1>7, <1>11, <1>14 DEF OwnersOK
<1>17. QED
  BY <1>7, <1>9, <1>10, <1>12, <1>13, <1>14, <1>15, <1>16 DEF OwnersOK

(* Erase frees the block while the entry still names it; destroy frees what it
   has taken out. *)
LEMMA FreesOwners ==
  ASSUME CallInv, OwnersOK, NEW t \in Threads, Frees(t)
  PROVE  OwnersOK'
<1> DEFINE b == call[t].mem
           n == call[t].map
           l == call[t].key
<1>1. /\ DataTypeOK /\ call[t].op \in {"erase", "destroy"} /\ call[t].at = "free"
      /\ UNCHANGED <<u32_memory_hashmaps, entries>> /\ b \in Blocks
      /\ n \in Maps /\ n \in u32_memory_hashmaps
      /\ heap' = [heap EXCEPT ![b] = "free"]
      /\ call[t].op = "erase" => l \in Keys /\ entries[n][l] = b
  BY CallTypes DEF Frees, WithMap, At, mapVars, Stays, CallOK, Idle, Entry
<1>2. PICK place \in {"erase", "map"} :
        Moved(t, place, b) /\ (place = "erase" <=> call[t].op = "erase")
  BY <1>1, Moves DEF Frees, Place
<1>3. \A x \in Blocks : heap'[x] = IF x = b THEN "free" ELSE heap[x]
  BY <1>1 DEF DataTypeOK
<1>4. \A u \in Threads \ {t} : call'[u] = call[u]
  BY <1>2 DEF Moved, Others
<1>5. \A x \in Blocks, u \in Threads : Holds(u, x)' <=> Holds(u, x) /\ u # t
  BY <1>1, <1>2, <1>4 DEF Holds, Moved
<1>6. CASE call[t].op = "erase"
  <2>1. ~ Erased(n, l)
    BY <1>1, ErasersAlone DEF Erased
  <2>2. InMap(n, l, b)
    BY <1>1, <1>6, <2>1 DEF InMap
  <2>3. \A m \in Maps, k \in Keys : Erased(m, k)' <=> Erased(m, k) \/ (m = n /\ k = l)
    BY <1>1, <1>2, <1>4, <1>6 DEF Erased, Moved
  <2>4. \A x \in Blocks, m \in Maps, k \in Keys :
          InMap(m, k, x)' <=> InMap(m, k, x) /\ ~ (m = n /\ k = l)
    BY <1>1, <2>3 DEF InMap
  <2>5. \A u \in Threads, x \in Blocks : Holds(u, x) => u # t
    BY <1>1, <1>6 DEF Holds
  <2>6. n \in Maps /\ l \in Keys /\ b \in Blocks
    BY <1>1, <1>6
  <2> HIDE DEF b, n, l
  <2>7. /\ \A m \in Maps, k \in Keys : InMap(m, k, b) => m = n /\ k = l
        /\ \A u \in Threads : ~ Holds(u, b)
        /\ \A x \in Blocks : InMap(n, l, x) => x = b
    BY <2>2, <2>6 DEF OwnersOK, InMap
  <2>8. \A x \in Blocks : heap'[x] # "free" =>
          \/ \E u \in Threads : Holds(u, x)'
          \/ \E m \in Maps, k \in Keys : InMap(m, k, x)'
    BY <1>3, <1>5, <2>4, <2>5, <2>7 DEF OwnersOK
  <2>9. \A x \in Blocks, u \in Threads : Holds(u, x)' =>
          heap'[x] # "free" /\ (call'[u].at = "insert" => heap'[x] = "zeroed")
    BY <1>3, <1>4, <1>5, <2>7 DEF OwnersOK
  <2>10. \A x \in Blocks, m \in Maps, k \in Keys : InMap(m, k, x)' => heap'[x] = "zeroed"
    BY <1>3, <2>4, <2>7 DEF OwnersOK
  <2>11. QED
    BY <1>5, <2>4, <2>8, <2>9, <2>10 DEF OwnersOK
<1>7. CASE call[t].op = "destroy"
  <2>1. \A x \in Blocks, m \in Maps, k \in Keys : InMap(m, k, x)' <=> InMap(m, k, x)
    BY <1>1, <1>2, <1>7, ErasedSame DEF InMap, Moved
  <2>2. Holds(t, b) /\ b \in Blocks /\ \A x \in Blocks : Holds(t, x) => x = b
    BY <1>1, <1>7 DEF Holds
  <2> HIDE DEF b
  <2>3. /\ \A m \in Maps, k \in Keys : ~ InMap(m, k, b)
        /\ \A u \in Threads : Holds(u, b) => u = t
    BY <2>2 DEF OwnersOK
  <2>4. \A x \in Blocks : heap'[x] # "free" =>
          \/ \E u \in Threads : Holds(u, x)'
          \/ \E m \in Maps, k \in Keys : InMap(m, k, x)'
    BY <1>3, <1>5, <2>1, <2>2 DEF OwnersOK
  <2>5. \A x \in Blocks, u \in Threads : Holds(u, x)' =>
          heap'[x] # "free" /\ (call'[u].at = "insert" => heap'[x] = "zeroed")
    BY <1>3, <1>4, <1>5, <2>3 DEF OwnersOK
  <2>6. \A x \in Blocks, m \in Maps, k \in Keys : InMap(m, k, x)' => heap'[x] = "zeroed"
    BY <1>3, <2>1, <2>3 DEF OwnersOK
  <2>7. QED
    BY <1>5, <2>1, <2>4, <2>5, <2>6 DEF OwnersOK
<1>8. QED
  BY <1>1, <1>6, <1>7

LEMMA ErasesOwners ==
  ASSUME CallInv, OwnersOK, NEW t \in Threads, Erases(t)
  PROVE  OwnersOK'
<1> DEFINE n == call[t].map
           l == call[t].key
<1>1. /\ DataTypeOK /\ call[t].op = "erase" /\ call[t].at = "erase"
      /\ UNCHANGED <<u32_memory_hashmaps, heap>> /\ n \in Maps /\ l \in Keys
  BY CallTypes DEF Erases, WithMap, At, mapVars
<1>2. OneEntry(n, l, None)
  BY <1>1, EntryWritten DEF Erases, WithEntry
<1>3. Others(t) /\ call'[t] = Idle
  BY <1>1, Moves DEF Erases, Place
<1>4. Erased(n, l)
  BY <1>1 DEF Erased
<1>5. \A m \in Maps, k \in Keys : ~ (m = n /\ k = l) => (Erased(m, k)' <=> Erased(m, k))
  BY <1>1, <1>3 DEF Erased, Others, Idle
<1>6. \A b \in Blocks, m \in Maps, k \in Keys : InMap(m, k, b)' <=> InMap(m, k, b)
  BY <1>1, <1>2, <1>4, <1>5, NoneAssumption DEF InMap, OneEntry
<1>7. \A b \in Blocks, u \in Threads : Holds(u, b)' <=> Holds(u, b)
  BY <1>1, <1>3 DEF Holds, Others, Idle
<1>8. \A u \in Threads : call'[u].at = "insert" => call[u].at = "insert"
  BY <1>3 DEF Others, Idle
<1>9. QED
  BY <1>1, <1>6, <1>7, <1>8, SameOwners

(* The block passes from the entry to the call. *)
LEMMA TakesOwners ==
  ASSUME CallInv, OwnersOK, NEW t \in Threads, erase_first(t)
  PROVE  OwnersOK'
<1> DEFINE n == call[t].map
<1>1. /\ DataTypeOK /\ call[t].op = "destroy" /\ call[t].at = "map"
      /\ UNCHANGED <<u32_memory_hashmaps, heap>>
      /\ n \in Maps /\ n \in u32_memory_hashmaps
  BY CallTypes DEF erase_first, WithMap, At, mapVars, Stays
<1>2. PICK l \in Filled(n) : /\ GoesWith(t, "free", entries[n][l])
                             /\ entries' = [entries EXCEPT ![n][l] = None]
  BY DEF erase_first
<1> DEFINE b == entries[n][l]
<1>3. l \in Keys /\ b \in Blocks
  BY <1>1, <1>2 DEF Filled, DataTypeOK
<1>4. OneEntry(n, l, None)
  BY <1>1, <1>2, <1>3, EntryWritten
<1>5. Moved(t, "free", b)
  BY <1>1, <1>2, <1>3, Moves DEF Place
<1>6. ~ Erased(n, l)
  BY <1>1, ErasersAlone DEF Erased
<1>7. InMap(n, l, b)
  BY <1>1, <1>6 DEF InMap
<1>8. \A m, k : Erased(m, k)' <=> Erased(m, k)
  BY <1>1, <1>5, ErasedSame DEF Moved
<1>9. \A x \in Blocks, m \in Maps, k \in Keys :
        InMap(m, k, x)' <=> InMap(m, k, x) /\ ~ (m = n /\ k = l)
  BY <1>1, <1>3, <1>4, <1>8, NoneAssumption DEF InMap, OneEntry
<1>10. \A u \in Threads \ {t} : call'[u] = call[u]
  BY <1>5 DEF Moved, Others
<1>11. \A x \in Blocks, u \in Threads : Holds(u, x)' <=> Holds(u, x) \/ (u = t /\ x = b)
  BY <1>1, <1>5, <1>10 DEF Holds, Moved
<1>12. call'[t].at # "insert" /\ \A x \in Blocks : ~ Holds(t, x)
  BY <1>1, <1>5 DEF Moved, Holds
<1>13. \A x \in Blocks : InMap(n, l, x) => x = b
  BY DEF InMap
<1>14. heap' = heap
  BY <1>1
<1> HIDE DEF b, n
<1>15. /\ \A m \in Maps, k \in Keys : InMap(m, k, b) => m = n /\ k = l
       /\ \A u \in Threads : ~ Holds(u, b)
       /\ heap[b] = "zeroed"
  BY <1>1, <1>3, <1>7 DEF OwnersOK
<1>16. \A x \in Blocks : heap'[x] # "free" =>
         \/ \E u \in Threads : Holds(u, x)'
         \/ \E m \in Maps, k \in Keys : InMap(m, k, x)'
  BY <1>9, <1>11, <1>13, <1>14 DEF OwnersOK
<1>17. \A x \in Blocks, u \in Threads : Holds(u, x)' =>
         heap'[x] # "free" /\ (call'[u].at = "insert" => heap'[x] = "zeroed")
  BY <1>10, <1>11, <1>12, <1>14, <1>15 DEF OwnersOK
<1>18. QED
  BY <1>9, <1>11, <1>12, <1>14, <1>15, <1>16, <1>17 DEF OwnersOK

LEMMA ErasesMapOwners ==
  ASSUME CallInv, OwnersOK, NEW t \in Threads, ErasesMap(t)
  PROVE  OwnersOK'
<1> DEFINE n == call[t].map
<1>1. /\ DataTypeOK /\ call[t].op = "destroy" /\ call[t].at = "empty"
      /\ UNCHANGED <<entries, heap>>
      /\ u32_memory_hashmaps' = u32_memory_hashmaps \ {n}
      /\ \A k \in Keys : entries[n][k] = None
  BY CallTypes DEF ErasesMap, WithMap, At, Stays, Filled
<1>2. Others(t) /\ call'[t] = Idle
  BY <1>1, Moves DEF ErasesMap, Place
<1>3. \A m, k : Erased(m, k)' <=> Erased(m, k)
  BY <1>1, <1>2, ErasedSame DEF Idle
<1>4. \A b \in Blocks, m \in Maps, k \in Keys : InMap(m, k, b)' <=> InMap(m, k, b)
  BY <1>1, <1>3, NoneAssumption DEF InMap
<1>5. \A b \in Blocks, u \in Threads : Holds(u, b)' <=> Holds(u, b)
  BY <1>1, <1>2 DEF Holds, Others, Idle
<1>6. \A u \in Threads : call'[u].at = "insert" => call[u].at = "insert"
  BY <1>2 DEF Others, Idle
<1>7. QED
  BY <1>1, <1>4, <1>5, <1>6, SameOwners

LEMMA CallingOwners ==
  ASSUME CallInv, OwnersOK, NEW t \in Threads, Calls(t)
  PROVE  OwnersOK'
<1>1. /\ call \in [Threads -> Call] /\ call[t] = Idle
      /\ UNCHANGED <<u32_memory_hashmaps, entries, heap>>
  BY DEF Calls, mapVars, CallInv, DataTypeOK
<1>2. Others(t) /\ call'[t].at = "handle"
  BY <1>1 DEF Calls, Others
<1>3. \A m, k : Erased(m, k)' <=> Erased(m, k)
  BY <1>1, <1>2, ErasedSame DEF Idle
<1>4. \A b \in Blocks, m \in Maps, k \in Keys : InMap(m, k, b)' <=> InMap(m, k, b)
  BY <1>1, <1>3 DEF InMap
<1>5. \A b \in Blocks, u \in Threads : Holds(u, b)' <=> Holds(u, b)
  BY <1>1, <1>2 DEF Holds, Others, Idle
<1>6. \A u \in Threads : call'[u].at = "insert" => call[u].at = "insert"
  BY <1>2 DEF Others
<1>7. QED
  BY <1>1, <1>4, <1>5, <1>6, SameOwners

(* The map comes empty, for no entry was ever written under its handle. *)
LEMMA CreatingOwners ==
  ASSUME CallInv, OwnersOK, NEW t \in Threads, create_map(t)
  PROVE  OwnersOK'
<1>1. PICK n \in Maps \ spent : u32_memory_hashmaps' = u32_memory_hashmaps \cup {n}
  BY DEF create_map
<1>2. UNCHANGED <<entries, heap, call>> /\ \A k \in Keys : entries[n][k] = None
  BY DEF create_map, CallInv, UnusedEmpty
<1>3. \A m, k : Erased(m, k)' <=> Erased(m, k)
  BY <1>2 DEF Erased
<1>4. \A b \in Blocks, m \in Maps, k \in Keys : InMap(m, k, b)' <=> InMap(m, k, b)
  BY <1>1, <1>2, <1>3, NoneAssumption DEF InMap
<1>5. QED
  BY <1>2, <1>4, SameOwners DEF Holds

LEMMA OwnersInit == Init => OwnersOK
BY NoneAssumption DEF Init, OwnersOK, InMap, Holds, Idle, None

LEMMA OwnersStep ==
  ASSUME CallInv, OwnersOK, [CarefulNext]_vars
  PROVE  OwnersOK'
<1>1. CASE UNCHANGED vars
  BY <1>1 DEF vars, mapVars, OwnersOK, InMap, Erased, Holds
<1>2. ASSUME NEW t \in Threads, create_map(t) \/ Calls(t) \/ Step(t)
      PROVE  OwnersOK'
  BY <1>2, CreatingOwners, CallingOwners, QuietOwners, AllocatesOwners, ZeroesOwners,
     InsertsOwners, FreesOwners, ErasesOwners, TakesOwners, ErasesMapOwners DEF Step
<1>3. QED
  BY <1>1, <1>2 DEF CarefulNext, Next

LEMMA OwnersAlways == CarefulSpec => [](CallInv /\ OwnersOK)
<1>1. CallInv /\ OwnersOK /\ [CarefulNext]_vars => (CallInv /\ OwnersOK)'
  BY CallInvStep, OwnersStep
<1>2. QED
  BY <1>1, CallInvInit, OwnersInit, PTL DEF CarefulSpec
-----------------------------------------------------------------------------
LEMMA OwnersMeant ==
  ASSUME CallInv, NEW b \in Blocks
  PROVE  /\ \A e : e \in EntriesOf(b) <=>
               \E m \in Maps, k \in Keys : e = <<m, k>> /\ InMap(m, k, b)
         /\ \A t : t \in CallsOf(b) <=> t \in Threads /\ Holds(t, b)
<1>1. u32_memory_hashmaps \subseteq Maps
  BY DEF CallInv, DataTypeOK
<1>2. QED
  BY <1>1 DEF EntriesOf, CallsOf, InMap, Holds

(* An empty set, or one with a single member. *)
LEMMA FewAreCounted ==
  /\ \A S : (\A x : x \notin S) => Cardinality(S) = 0
  /\ \A S, x : x \in S /\ (\A y \in S : y = x) => Cardinality(S) = 1
<1>1. \A S : (\A x : x \notin S) => S = {}
  OBVIOUS
<1>2. \A S, x : x \in S /\ (\A y \in S : y = x) => S = {x}
  OBVIOUS
<1>3. QED
  BY <1>1, <1>2, FS_EmptySet, FS_Singleton

LEMMA OwnersCounted ==
  ASSUME CallInv, OwnersOK
  PROVE  OneOwner
<1>1. SUFFICES ASSUME NEW b \in Blocks
      PROVE  Cardinality(EntriesOf(b)) + Cardinality(CallsOf(b)) =
               IF heap[b] = "free" THEN 0 ELSE 1
  BY DEF OneOwner
<1>2. CASE heap[b] = "free"
  <2>1. (\A e : e \notin EntriesOf(b)) /\ \A t : t \notin CallsOf(b)
    BY <1>2, OwnersMeant DEF OwnersOK
  <2>2. QED
    BY <1>2, <2>1, FewAreCounted
<1>3. ASSUME NEW t \in Threads, Holds(t, b)
      PROVE  Cardinality(EntriesOf(b)) = 0 /\ Cardinality(CallsOf(b)) = 1
  <2>1. t \in CallsOf(b) /\ \A u \in CallsOf(b) : u = t
    BY <1>3, OwnersMeant DEF OwnersOK
  <2>2. \A e : e \notin EntriesOf(b)
    BY <1>3, OwnersMeant DEF OwnersOK
  <2>3. QED
    BY <2>1, <2>2, FewAreCounted
<1>4. ASSUME NEW m \in Maps, NEW k \in Keys, InMap(m, k, b)
      PROVE  Cardinality(EntriesOf(b)) = 1 /\ Cardinality(CallsOf(b)) = 0
  <2>1. <<m, k>> \in EntriesOf(b) /\ \A e \in EntriesOf(b) : e = <<m, k>>
    BY <1>4, OwnersMeant DEF OwnersOK
  <2>2. \A t : t \notin CallsOf(b)
    BY <1>4, OwnersMeant DEF OwnersOK
  <2>3. QED
    BY <2>1, <2>2, FewAreCounted
<1>5. CASE heap[b] # "free"
  <2>1. \/ \E t \in Threads : Holds(t, b)
        \/ \E m \in Maps, k \in Keys : InMap(m, k, b)
    BY <1>5 DEF OwnersOK
  <2>2. QED
    BY <1>3, <1>4, <1>5, <2>1
<1>6. QED
  BY <1>2, <1>5

(* OneOwner, for any threads, maps, keys and blocks: however careful calls are
   interleaved between their locks, an allocated block is answered for by one
   entry or one call, and a free one by none. *)
THEOREM BlocksHaveOneOwner == CarefulSpec => []OneOwner
BY OwnersAlways, OwnersCounted, PTL

(* GotWhole, likewise: get finds nothing, or a zeroed block that no other key and
   no call has. *)
THEOREM GetsAreWhole == CarefulSpec => GotWhole
<1> DEFINE Got(t) == call[t].op = "get" /\ call[t].at = "map" /\ LooksUp(t)
                     /\ Entry(t) # None
           Whole(t) == heap[Entry(t)] = "zeroed"
                       /\ EntriesOf(Entry(t)) = {<<call[t].map, call[t].key>>}
<1>1. ASSUME CallInv, OwnersOK, NEW t \in Threads, Got(t)
      PROVE  Whole(t)
  <2> DEFINE m == call[t].map
             k == call[t].key
             b == Entry(t)
  <2>1. /\ DataTypeOK /\ m \in Maps /\ k \in Keys /\ m \in u32_memory_hashmaps
        /\ b = entries[m][k] /\ call[t].at # "idle" /\ call[t].op = "get"
    BY <1>1, CallTypes DEF Stays, Entry
  <2>2. b \in Blocks
    BY <1>1, <2>1 DEF DataTypeOK
  <2>3. ~ Erased(m, k)
    BY <1>1, <2>1, ErasersAlone DEF Erased
  <2>4. InMap(m, k, b)
    BY <2>1, <2>3 DEF InMap
  <2> HIDE DEF m, k, b
  <2>5. heap[b] = "zeroed"
    BY <1>1, <2>1, <2>2, <2>4 DEF OwnersOK
  <2>6. \A e : e \in EntriesOf(b) <=> e = <<m, k>>
    BY <1>1, <2>1, <2>2, <2>4, OwnersMeant DEF OwnersOK
  <2>7. EntriesOf(b) = {<<m, k>>}
    BY <2>6
  <2>8. QED
    BY <2>5, <2>7 DEF b, m, k
<1>2. CallInv /\ OwnersOK => [\A t \in Threads : Got(t) => Whole(t)]_vars
  BY <1>1
<1>3. QED
  BY <1>2, OwnersAlways, PTL DEF GotWhole
=============================================================================
