------------------------------- MODULE Overlay -------------------------------
(***************************************************************************)
(* How an overlay is found where it was loaded: the game takes pages for   *)
(* it, maps them in the TLB, and from then on every access to the overlay  *)
(* goes through the TLB.  fexecLoadAddress looks up the first address only *)
(* and copies the whole file from there on.                                *)
(*                                                                         *)
(* moduleMapTLB and modulegetfreetlb are the game's; module_impl.c keeps   *)
(* copies of them.  Addresses are in units of 4 KiB / PAGE_UNITS.          *)
(***************************************************************************)
EXTENDS ModulePages, Tlb

CONSTANTS
  PAGE_UNITS,      (* units in a 4 KiB page *)
  RAM_BASE,        (* physical address of the page table's first page *)
  VirtualPage,     (* where each module's code expects to be *)
  ZeroJump         (* virtual address of the zerojump stub, below the modules' *)

(* Overlays are linked for the same address, or for addresses 16 MiB apart
   (the RELOC_SECTION constants), while the whole table is 512 KiB. *)
ASSUME VirtualPageAssumption ==
  /\ VirtualPage \in [Modules -> Nat]
  /\ \A m, n \in Modules :
       VirtualPage[m] < VirtualPage[n] =>
         VirtualPage[m] + MODULE_PAGE_COUNT < VirtualPage[n]

MODULE_UNITS == 2 * PAGE_UNITS         (* units in a module page, 8 KiB *)
Virtual(m) == VirtualPage[m] * MODULE_UNITS

(* zerojump is mapped at 0x10000000, overlays from 0x42000000 on, both below KSEG0,
   and their pages are physical memory from 0x250000 to 0x2D0000. *)
ASSUME AddressAssumption ==
  /\ PAGE_UNITS \in Nat \ {0} /\ RAM_BASE \in Nat /\ ZeroJump \in Nat
  /\ RAM_BASE + MODULE_PAGE_COUNT * MODULE_UNITS < KSEG0
  /\ \A m \in Modules :
       /\ ZeroJump + PAGE_UNITS < Virtual(m)
       /\ Virtual(m) + MODULE_PAGE_COUNT * MODULE_UNITS < KSEG0

VARIABLES
  D_800AD1F0,      (* which module uses a TLB entry *)
  booted           (* zerojumpinit was called *)

overlayVars == <<D_800AD1F0, booted>>
vars == <<pageVars, gTLBTable, overlayVars>>

Loaded == {m \in Modules : OwnedBy(m) # {}}
TlbOf(m) == {t \in Indices : D_800AD1F0[t] = m}
(* What the game gives out: entry 0 is zerojump's, the last one stays unused. *)
FreeTlb == {t \in 1 .. TLB_ENTRY_COUNT - 2 : D_800AD1F0[t] = NoModule}

(* Slots of a module at which an entry begins. *)
Firsts(id) == {i \in OwnedBy(id) : D_800CA668[i].page_count # 0}

Mapped == {m \in Loaded : TlbOf(m) # {}}

(* An entry is mapped as a pair of pages, of 16 KiB or of 4 KiB. *)
PairFor(e) ==
  LET size == e.page_count * PAGE_UNITS  base == RAM_BASE + e.paddr * MODULE_UNITS IN
  Mapping(size, e.vaddr * MODULE_UNITS, base, base + size)

Init == PagesInit /\ TlbInit /\ D_800AD1F0 = [t \in Indices |-> NoModule] /\ booted = FALSE

Boot ==
  /\ ~ booted
  /\ osUnmapTLBAll
  /\ UNCHANGED <<pageVars, overlayVars>>

zerojumpinit ==
  /\ ~ booted
  /\ booted' = TRUE
  /\ osMapTLB(0, PAGE_UNITS, ZeroJump, 0, Unmapped)
  /\ UNCHANGED <<pageVars, D_800AD1F0>>

GetPages(id, count) ==
  /\ booted
  /\ \A m \in Loaded : VirtualPage[m] # VirtualPage[id]
  /\ modulegetpages_impl(count, VirtualPage[id], id)
  /\ UNCHANGED <<gTLBTable, overlayVars>>

(* modulegetfreetlb gives the entries of a module the lowest free TLB indices, in
   order.  When these run out there is an errstop, with some entries mapped. *)
Increasing(f) == \A i, j \in DOMAIN f : i < j => f[i] < f[j]
Used(f) == {f[i] : i \in DOMAIN f}

moduleMapTLB(id) ==
  /\ ~ stopped
  /\ id \in Loaded \ Mapped
  /\ \E done \in SUBSET Firsts(id) :
       /\ \A i \in done, j \in Firsts(id) \ done : i < j
       /\ \E tlb \in [done -> FreeTlb] :
            /\ Increasing(tlb)
            /\ \A t \in FreeTlb \ Used(tlb), u \in Used(tlb) : u < t
            /\ done # Firsts(id) => Used(tlb) = FreeTlb
            /\ gTLBTable' = [t \in Indices |->
                 IF t \in Used(tlb)
                 THEN PairFor(D_800CA668[CHOOSE i \in done : tlb[i] = t])
                 ELSE gTLBTable[t]]
            /\ D_800AD1F0' = [t \in Indices |->
                 IF t \in Used(tlb) THEN id ELSE D_800AD1F0[t]]
       /\ stopped' = (done # Firsts(id))
  /\ UNCHANGED <<D_800CA668, booted>>

(* Faulty variant. *)
UnloadLeavesTlb(id) ==
  /\ ~ stopped
  /\ id \in Mapped
  /\ D_800AD1F0' = [t \in Indices |-> IF t \in TlbOf(id) THEN NoModule ELSE D_800AD1F0[t]]
  /\ FreePages(id)
  /\ UNCHANGED <<gTLBTable, stopped, booted>>

Unload(id) ==
  /\ ~ stopped
  /\ id \in Mapped
  /\ osUnmapTLB(TlbOf(id))
  /\ D_800AD1F0' = [t \in Indices |-> IF t \in TlbOf(id) THEN NoModule ELSE D_800AD1F0[t]]
  /\ FreePages(id)
  /\ UNCHANGED <<stopped, booted>>

Next ==
  \/ Boot \/ zerojumpinit
  \/ \E id \in Modules :
       \/ \E count \in PageCounts : GetPages(id, count)
       \/ moduleMapTLB(id) \/ Unload(id)

Spec == Init /\ [][Next]_vars
-----------------------------------------------------------------------------
SizeOf(m) == Cardinality(OwnedBy(m)) * MODULE_UNITS

(* The memory each module's addresses lead to, once all its entries are mapped. *)
Reached(m) ==
  IF Cardinality(TlbOf(m)) # Cardinality(Firsts(m)) THEN {}
  ELSE {(_tlb_lookup(Virtual(m) + i * MODULE_UNITS) - KSEG0 - RAM_BASE) \div MODULE_UNITS :
          i \in 0 .. Cardinality(OwnedBy(m)) - 1}

reached == [m \in Modules |-> Reached(m)]

Abstract == INSTANCE OverlayMemory WITH Pages <- Slots, pages <- reached

(* Abstract!Spec, looked at in the steps that change vars: while a module is
   loaded its addresses lead to pages of its own, always the same ones. *)
ImplementsMemory == Abstract!Init /\ [][vars' # vars => [Abstract!Next]_reached]_vars
=============================================================================
