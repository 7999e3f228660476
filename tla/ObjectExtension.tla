--------------------------- MODULE ObjectExtension ---------------------------
(***************************************************************************)
(* Extra data that mods attach to game objects                             *)
(* (game/recomp_extension_api.cpp).  Extensions are registered per object  *)
(* type, for one subtype or for all (generic), before there are objects.   *)
(* Each object then gets one block of memory: the generic extensions'      *)
(* data, followed by its subtype's.                                        *)
(*                                                                         *)
(* The data of a type's objects is in a slot map; what its keys promise    *)
(* (module SlotMap) is all that is used of it: a key is new among those    *)
(* handed out since the last reset and finds its element until it is       *)
(* erased.  Sizes are assumed not to add up to 2^32.                       *)
(***************************************************************************)
EXTENDS Integers, Sequences, FiniteSets

CONSTANTS
  Types,          (* object types, num_types of them *)
  Subtypes,       (* subtype indices *)
  Sizes,          (* sizes that are asked for *)
  Handles,        (* keys of a slot map *)
  Blocks,         (* addresses recomp::alloc may return *)
  NULL,
  MaxExtensions,  (* bound on the extensions of a type *)
  MaxSpawns       (* bound on the objects of a type between two clears *)

ASSUME SubtypesAssumption == Subtypes \subseteq Nat
ASSUME SizesAssumption == Sizes \subseteq Nat
ASSUME NullAssumption == NULL \notin Blocks \cup Handles

VARIABLES
  can_register,
  data_sizes, generic_data_size,  (* of each type *)
  extensions,    (* of each type: an extension handle is a place in the vector *)
  extension_data,                 (* of each type and key *)
  spawn_count, alloc_count, free_count,
  handed,        (* keys handed out since the type's last reset *)
  heap,          (* size of each allocated block, 0 for free ones *)
  quit,          (* the program has shown an error and ended *)
  late           (* history: generic data was registered after the first object *)

registry == <<data_sizes, generic_data_size, extensions>>
counters == <<spawn_count, alloc_count, free_count>>
vars == <<can_register, registry, extension_data, counters, handed, heap, quit, late>>

GENERIC == -1

(* The code keeps neither an extension's size nor an object's subtype. *)
ExtensionInfo ==
  [subtype_index : Subtypes \cup {GENERIC}, data_offset : Nat, size : Nat]
ExtensionData ==
  [object_spawn_index : Nat, data_addr : Blocks \cup {NULL}, subtype : Subtypes]
NoData == [data_addr |-> NULL]

(* Faulty variant. *)
rounded_down_16(value) == 16 * (value \div 16)

round_up_16(value) == 16 * ((value + 15) \div 16)

Live(t) == {h \in Handles : extension_data[t][h] # NoData}
Registered(t) == DOMAIN extensions[t]
-----------------------------------------------------------------------------
(* init_extended_object_data.  The dummy extension at place 0 of the vector is
   left out: handle e is place e of the sequence. *)
Init ==
  /\ can_register = TRUE
  /\ data_sizes = [t \in Types |-> [s \in Subtypes |-> 0]]
  /\ generic_data_size = [t \in Types |-> 0]
  /\ extensions = [t \in Types |-> <<>>]
  /\ extension_data = [t \in Types |-> [h \in Handles |-> NoData]]
  /\ spawn_count = [t \in Types |-> 0]
  /\ alloc_count = [t \in Types |-> 0]
  /\ free_count = [t \in Types |-> 0]
  /\ handed = [t \in Types |-> {}]
  /\ heap = [b \in Blocks |-> 0]
  /\ quit = FALSE
  /\ late = [t \in Types |-> FALSE]

Extends(t, subtype_index, data_offset, size) ==
  extensions' = [extensions EXCEPT ![t] =
    Append(@, [subtype_index |-> subtype_index, data_offset |-> data_offset,
               size |-> size])]

recomp_register_object_extension(t, s, size) ==
  /\ ~ quit
  /\ IF can_register
     THEN /\ Len(extensions[t]) < MaxExtensions
          /\ Extends(t, s, data_sizes[t][s], size)
          /\ data_sizes' = [data_sizes EXCEPT ![t][s] = @ + round_up_16(size)]
          /\ UNCHANGED quit
     ELSE quit' = TRUE /\ UNCHANGED <<extensions, data_sizes>>
  /\ UNCHANGED <<can_register, generic_data_size, extension_data, counters,
                 handed, heap, late>>

(* can_register is not looked at. *)
recomp_register_object_extension_generic(t, size) ==
  /\ ~ quit
  /\ Len(extensions[t]) < MaxExtensions
  /\ Extends(t, GENERIC, generic_data_size[t], size)
  /\ generic_data_size' = [generic_data_size EXCEPT ![t] = @ + round_up_16(size)]
  /\ late' = [late EXCEPT ![t] = @ \/ ~ can_register]
  /\ UNCHANGED <<can_register, data_sizes, extension_data, counters, handed,
                 heap, quit>>

AllocSize(t, s) == generic_data_size[t] + data_sizes[t][s]

(* With nothing to store there is no block, but the object has a key. *)
Allocates(t, size, b) ==
  IF size = 0
  THEN b = NULL /\ UNCHANGED <<heap, alloc_count>>
  ELSE /\ b \in Blocks /\ heap[b] = 0
       /\ heap' = [heap EXCEPT ![b] = size]
       /\ alloc_count' = [alloc_count EXCEPT ![t] = @ + 1]

recomp_create_object_data(t, s) ==
  /\ ~ quit
  /\ spawn_count[t] < MaxSpawns
  /\ can_register' = FALSE
  /\ \E b \in Blocks \cup {NULL}, h \in Handles \ handed[t] :
       /\ Allocates(t, AllocSize(t, s), b)
       /\ extension_data' = [extension_data EXCEPT ![t][h] =
            [object_spawn_index |-> spawn_count[t], data_addr |-> b, subtype |-> s]]
       /\ handed' = [handed EXCEPT ![t] = @ \cup {h}]
  /\ spawn_count' = [spawn_count EXCEPT ![t] = @ + 1]
  /\ UNCHANGED <<registry, free_count, quit, late>>

(* Faulty variant. *)
FreedOnly(t, h) ==
  /\ ~ quit
  /\ h \in Live(t)
  /\ LET b == extension_data[t][h].data_addr IN
     /\ heap' = [c \in Blocks |-> IF c = b THEN 0 ELSE heap[c]]
     /\ free_count' = [free_count EXCEPT ![t] = @ + (IF b = NULL THEN 0 ELSE 1)]
  /\ UNCHANGED <<can_register, registry, spawn_count, alloc_count, handed, quit,
                 late, extension_data>>

(* A key that finds nothing changes nothing: assert(false) is for debugging. *)
recomp_destroy_object_data(t, h) ==
  /\ ~ quit
  /\ h \in Live(t)
  /\ LET b == extension_data[t][h].data_addr IN
     /\ heap' = [c \in Blocks |-> IF c = b THEN 0 ELSE heap[c]]
     /\ free_count' = [free_count EXCEPT ![t] = @ + (IF b = NULL THEN 0 ELSE 1)]
  /\ extension_data' = [extension_data EXCEPT ![t][h] = NoData]
  /\ UNCHANGED <<can_register, registry, spawn_count, alloc_count, handed, quit, late>>

(* Resets the slot map; what the objects' data was stored in is not freed, which
   the assertion that everything was freed before is about. *)
recomp_clear_all_object_data(t) ==
  /\ ~ quit
  /\ extension_data' = [extension_data EXCEPT ![t] = [h \in Handles |-> NoData]]
  /\ handed' = [handed EXCEPT ![t] = {}]
  /\ spawn_count' = [spawn_count EXCEPT ![t] = 0]
  /\ alloc_count' = [alloc_count EXCEPT ![t] = 0]
  /\ free_count' = [free_count EXCEPT ![t] = 0]
  /\ UNCHANGED <<can_register, registry, heap, quit, late>>

Next ==
  \E t \in Types :
    \/ \E s \in Subtypes, size \in Sizes : recomp_register_object_extension(t, s, size)
    \/ \E size \in Sizes : recomp_register_object_extension_generic(t, size)
    \/ \E s \in Subtypes : recomp_create_object_data(t, s)
    \/ \E h \in Handles : recomp_destroy_object_data(t, h)
    \/ recomp_clear_all_object_data(t)

Spec == Init /\ [][Next]_vars
-----------------------------------------------------------------------------
(* Where an extension's data is in a block. *)
Offset(t, e) ==
  extensions[t][e].data_offset
    + (IF extensions[t][e].subtype_index = GENERIC THEN 0 ELSE generic_data_size[t])

(* The handle is a registered extension's, which is generic or of the subtype
   given. *)
Applies(t, s, e) ==
  /\ e \in Registered(t)
  /\ extensions[t][e].subtype_index \in {GENERIC, s}

(* An address is a block and a distance from its beginning. *)
recomp_get_object_data(t, s, h, e) ==
  IF Applies(t, s, e) /\ h \in Live(t)
  THEN [block |-> extension_data[t][h].data_addr, offset |-> Offset(t, e)]
  ELSE [block |-> NULL, offset |-> 0]
-----------------------------------------------------------------------------
TypeOK ==
  /\ can_register \in BOOLEAN /\ quit \in BOOLEAN
  /\ data_sizes \in [Types -> [Subtypes -> Nat]]
  /\ generic_data_size \in [Types -> Nat]
  /\ extensions \in [Types -> Seq(ExtensionInfo)]
  /\ extension_data \in [Types -> [Handles -> ExtensionData \cup {NoData}]]
  /\ spawn_count \in [Types -> Nat]
  /\ alloc_count \in [Types -> Nat]
  /\ free_count \in [Types -> Nat]
  /\ handed \in [Types -> SUBSET Handles]
  /\ heap \in [Blocks -> Nat]
  /\ late \in [Types -> BOOLEAN]

(* The bytes of a block an extension of some size is given. *)
Range(t, e) == Offset(t, e) .. Offset(t, e) + extensions[t][e].size - 1

(* What an object's extensions are given is inside the object's own block, and
   no two of them share a byte. *)
DataInside(t) ==
  \A h \in Live(t) :
    LET o == extension_data[t][h] IN
    \A e \in Registered(t) : Applies(t, o.subtype, e) =>
      /\ extensions[t][e].size > 0 =>
           /\ o.data_addr # NULL
           /\ Offset(t, e) + extensions[t][e].size <= heap[o.data_addr]
      /\ \A f \in Registered(t) : f # e /\ Applies(t, o.subtype, f) =>
           Range(t, e) \cap Range(t, f) = {}

(* ... as long as no generic data was registered after the first object. *)
DataInsideUnlessLate == \A t \in Types : ~ late[t] => DataInside(t)

(* Blocks have one owner: no two objects, of whatever types, share one, and an
   object's block is not freed under it. *)
BlocksUnshared ==
  \A t, u \in Types : \A h \in Live(t), g \in Live(u) :
    LET b == extension_data[t][h].data_addr IN
    b # NULL => /\ heap[b] > 0
                /\ extension_data[u][g].data_addr = b => <<t, h>> = <<u, g>>
=============================================================================
