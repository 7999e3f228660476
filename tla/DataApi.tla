------------------------------- MODULE DataApi -------------------------------
(***************************************************************************)
(* The hash maps of memory blocks that mods create                         *)
(* (src/game/recomp_data_api.cpp).  The table of maps, each map and the    *)
(* heap have a lock of their own, taken for one operation at a time: a     *)
(* call is several steps, between which other threads' calls take theirs.  *)
(***************************************************************************)
EXTENDS Integers, FiniteSets

CONSTANTS Threads, Maps, Keys, Blocks

None == "none"

ASSUME BlocksAssumption == Cardinality(Blocks) >= Cardinality(Maps) * Cardinality(Keys)
ASSUME NoneAssumption == None \notin Maps \cup Keys \cup Blocks

VARIABLES
  u32_memory_hashmaps,     (* the handles of the maps there are *)
  entries,                 (* the block of each key in each map *)
  heap,                    (* "free", "dirty" when allocated, "zeroed" *)
  call,                    (* the call of each thread and where it is *)
  spent,                   (* handles given out before: slot map keys are not reused *)
  exited                   (* quick_exit after "handle is invalid" *)

mapVars == <<u32_memory_hashmaps, spent, exited>>
vars == <<mapVars, entries, heap, call>>

Idle == [op |-> None, map |-> None, key |-> None, at |-> "idle", mem |-> None]

Init ==
  /\ u32_memory_hashmaps = {} /\ spent = {} /\ exited = FALSE
  /\ entries = [m \in Maps |-> [k \in Keys |-> None]]
  /\ heap = [b \in Blocks |-> "free"]
  /\ call = [t \in Threads |-> Idle]

At(t, op, place) == ~ exited /\ call[t].op \in op /\ call[t].at = place
(* The call goes on with the pointer to the map that it got under the table's lock.
   What it does with one to a destroyed map is undefined, and not followed. *)
WithMap(t, op, place) == At(t, op, place) /\ call[t].map \in u32_memory_hashmaps
GoesTo(t, place) == call' = [call EXCEPT ![t].at = place]
GoesWith(t, place, mem) == call' = [call EXCEPT ![t].at = place, ![t].mem = mem]
Returns(t) == call' = [call EXCEPT ![t] = Idle]
Entry(t) == entries[call[t].map][call[t].key]
WithEntry(t, mem) == entries' = [entries EXCEPT ![call[t].map][call[t].key] = mem]

(* The maps' size is set before anybody else knows the handle. *)
create_map(t) ==
  /\ ~ exited /\ call[t] = Idle
  /\ \E m \in Maps \ spent :
       u32_memory_hashmaps' = u32_memory_hashmaps \cup {m} /\ spent' = spent \cup {m}
  /\ UNCHANGED <<entries, heap, call, exited>>

Calls(t) ==
  /\ ~ exited /\ call[t] = Idle
  /\ \E op \in {"create", "get", "erase", "destroy"}, m \in spent, k \in Keys :
       call' = [call EXCEPT ![t] =
         [op |-> op, map |-> m, key |-> IF op = "destroy" THEN None ELSE k,
          at |-> "handle", mem |-> None]]
  /\ UNCHANGED <<mapVars, entries, heap>>

FindsMap(t) ==
  /\ At(t, {"create", "get", "erase", "destroy"}, "handle")
  /\ IF call[t].map \in u32_memory_hashmaps
     THEN GoesTo(t, "map") /\ UNCHANGED exited
     ELSE exited' = TRUE /\ UNCHANGED call
  /\ UNCHANGED <<u32_memory_hashmaps, spent, entries, heap>>

(* The map's get, with which create, get and erase begin. *)
LooksUp(t) ==
  /\ WithMap(t, {"create", "get", "erase"}, "map")
  /\ \/ call[t].op = "get" /\ Returns(t)
     \/ call[t].op = "create" /\ (IF Entry(t) = None THEN GoesTo(t, "alloc") ELSE Returns(t))
     \/ call[t].op = "erase" /\
          (IF Entry(t) = None THEN GoesTo(t, "erase") ELSE GoesWith(t, "free", Entry(t)))
  /\ UNCHANGED <<mapVars, entries, heap>>

(* Faulty variant: in the map before it is zeroed. *)
inserted_first(t) ==
  /\ WithMap(t, {"create"}, "alloc")
  /\ \E b \in Blocks :
       /\ heap[b] = "free"
       /\ heap' = [heap EXCEPT ![b] = "dirty"]
       /\ WithEntry(t, b)
       /\ GoesWith(t, "zero", b)
  /\ UNCHANGED mapVars

(* recomp::alloc; that it finds memory is assumed, as the code does. *)
Allocates(t) ==
  /\ WithMap(t, {"create"}, "alloc")
  /\ \E b \in Blocks :
       /\ heap[b] = "free"
       /\ heap' = [heap EXCEPT ![b] = "dirty"]
       /\ GoesWith(t, "zero", b)
  /\ UNCHANGED <<mapVars, entries>>

Zeroes(t) ==
  /\ WithMap(t, {"create"}, "zero")
  /\ heap' = [heap EXCEPT ![call[t].mem] = "zeroed"]
  /\ GoesTo(t, "insert")
  /\ UNCHANGED <<mapVars, entries>>

Inserts(t) ==
  /\ WithMap(t, {"create"}, "insert")
  /\ WithEntry(t, call[t].mem)
  /\ Returns(t)
  /\ UNCHANGED <<mapVars, heap>>

(* recomp::free, after which erase goes on to the map and destroy begins again. *)
Frees(t) ==
  /\ At(t, {"erase", "destroy"}, "free")
  /\ heap' = [heap EXCEPT ![call[t].mem] = "free"]
  /\ IF call[t].op = "erase" THEN GoesTo(t, "erase") ELSE GoesTo(t, "map")
  /\ UNCHANGED <<mapVars, entries>>

Erases(t) ==
  /\ WithMap(t, {"erase"}, "erase")
  /\ WithEntry(t, None)
  /\ Returns(t)
  /\ UNCHANGED <<mapVars, heap>>

Filled(m) == {k \in Keys : entries[m][k] # None}

(* Faulty variant. *)
first_not_erased(t) ==
  /\ WithMap(t, {"destroy"}, "map")
  /\ \E k \in Filled(call[t].map) : GoesWith(t, "free", entries[call[t].map][k])
  /\ UNCHANGED <<mapVars, entries, heap>>

erase_first(t) ==
  /\ WithMap(t, {"destroy"}, "map")
  /\ \E k \in Filled(call[t].map) :
       /\ GoesWith(t, "free", entries[call[t].map][k])
       /\ entries' = [entries EXCEPT ![call[t].map][k] = None]
  /\ UNCHANGED <<mapVars, heap>>

(* Faulty variant: destroy takes the map out at once. *)
entries_forgotten(t) ==
  /\ WithMap(t, {"destroy"}, "map")
  /\ GoesTo(t, "empty")
  /\ UNCHANGED <<mapVars, entries, heap>>

FindsEmpty(t) ==
  /\ WithMap(t, {"destroy"}, "map") /\ Filled(call[t].map) = {}
  /\ GoesTo(t, "empty")
  /\ UNCHANGED <<mapVars, entries, heap>>

(* The table's erase takes the handle, under the table's lock again. *)
ErasesMap(t) ==
  /\ At(t, {"destroy"}, "empty")
  /\ u32_memory_hashmaps' = u32_memory_hashmaps \ {call[t].map}
  /\ Returns(t)
  /\ UNCHANGED <<spent, exited, entries, heap>>

Step(t) ==
  \/ FindsMap(t) \/ LooksUp(t) \/ Allocates(t) \/ Zeroes(t) \/ Inserts(t)
  \/ Frees(t) \/ Erases(t) \/ erase_first(t) \/ FindsEmpty(t) \/ ErasesMap(t)

Next == \E t \in Threads : create_map(t) \/ Calls(t) \/ Step(t)

Spec == Init /\ [][Next]_vars /\ \A t \in Threads : WF_vars(Step(t))

(* The code leaves to its callers what no lock sees to: that a map is destroyed by
   a thread that is alone with it, a key erased by a thread that is alone with it,
   and created by one thread at a time. *)
Excludes(c, d) ==
  /\ c.map = d.map
  /\ \/ c.op = "destroy"
     \/ /\ c.key = d.key
        /\ c.op = "erase" \/ (c.op = "create" /\ d.op = "create")

Apart == \A t, u \in Threads : t # u => ~ Excludes(call[t], call[u])

CarefulNext == Next /\ Apart'

CarefulSpec == Init /\ [][CarefulNext]_vars /\ \A t \in Threads : WF_vars(Step(t))
-----------------------------------------------------------------------------
(* Who answers for a block: the entry it is in, unless an erase has freed it and
   not yet come to the map, or the call that has taken it from the heap or from a
   destroyed map. *)
Erased(m, k) ==
  \E t \in Threads : call[t].op = "erase" /\ call[t].at = "erase"
                     /\ call[t].map = m /\ call[t].key = k
EntriesOf(b) ==
  {e \in u32_memory_hashmaps \X Keys : entries[e[1]][e[2]] = b /\ ~ Erased(e[1], e[2])}
CallsOf(b) ==
  {t \in Threads : call[t].mem = b /\ (\/ call[t].at \in {"zero", "insert"}
                                       \/ call[t].at = "free" /\ call[t].op = "destroy")}

(* With careful callers every allocated block has exactly one owner, and no other
   block has one: nothing is lost, freed twice, or still in a map after it was
   freed, though erase frees the block before it takes it out, and the heap may
   give it out at once to another key. *)
OneOwner ==
  \A b \in Blocks :
    Cardinality(EntriesOf(b)) + Cardinality(CallsOf(b)) = IF heap[b] = "free" THEN 0 ELSE 1

(* A mod that asks for a key while another thread creates it gets nothing or a
   block that is already zeroed, and never one that another key has. *)
GotWhole ==
  [][\A t \in Threads :
       call[t].op = "get" /\ call[t].at = "map" /\ LooksUp(t) /\ Entry(t) # None =>
         heap[Entry(t)] = "zeroed"
         /\ EntriesOf(Entry(t)) = {<<call[t].map, call[t].key>>}]_vars

(* Calls of careful callers end, destroy's loop over the map included. *)
CallsEnd == \A t \in Threads : call[t] # Idle ~> (call[t] = Idle \/ exited)
=============================================================================
