----------------------------- MODULE ModulePages -----------------------------
(***************************************************************************)
(* The table of physical pages that overlays are loaded into               *)
(* (patches/src/module_impl.c).  A module gets its pages in one piece,     *)
(* described by entries of four pages, each on four slots, and entries of  *)
(* one page.  Addresses are in pages: physical ones from MODULE_PAGE_BASE, *)
(* virtual ones from wherever the overlays' addresses begin.               *)
(***************************************************************************)
EXTENDS Integers, FiniteSets

CONSTANTS
  MODULE_PAGE_COUNT,
  Modules,             (* module ids *)
  PageCounts           (* sizes of modules *)

ASSUME PageCountAssumption ==
  MODULE_PAGE_COUNT \in Nat \ {0} /\ PageCounts \subseteq Nat \ {0}
ASSUME ModulesAssumption == Modules \subseteq Nat

VARIABLES
  D_800CA668,          (* the table *)
  stopped              (* errstop was called *)

pageVars == <<D_800CA668, stopped>>

NoModule == -1
Slots == 0 .. MODULE_PAGE_COUNT - 1
PageEntry == [module_id : Modules \cup {NoModule}, page_count : {0, 1, 4},
              vaddr : Int, paddr : Int]

module_page_paddr(index) == index

FreeEntry == [module_id |-> NoModule, page_count |-> 0, vaddr |-> 0, paddr |-> 0]

PagesInit ==
  /\ D_800CA668 = [i \in Slots |-> FreeEntry]
  /\ stopped = FALSE

OwnedBy(id) == {i \in Slots : D_800CA668[i].module_id = id}

(* Faulty variant. *)
free_but_last(start, count) ==
  /\ start + count <= MODULE_PAGE_COUNT
  /\ \A i \in start .. start + count - 2 : D_800CA668[i].module_id = NoModule

module_pages_are_free(start, count) ==
  /\ start + count <= MODULE_PAGE_COUNT
  /\ \A i \in start .. start + count - 1 : D_800CA668[i].module_id = NoModule

step(count) == IF count >= 4 THEN 4 ELSE 1

(* The starts at which module_find_contiguous_pages stops. *)
Fitting(count) ==
  {s \in Slots : s % step(count) = 0 /\ module_pages_are_free(s, count)}

(* What the two loops write in slot i of a run. *)
Entry(start, count, vaddr, id, i) ==
  LET offset == i - start  fours == count - (count % 4) IN
  [module_id  |-> id,
   page_count |-> IF offset >= fours THEN 1 ELSE IF offset % 4 = 0 THEN 4 ELSE 0,
   vaddr      |-> vaddr + offset,
   paddr      |-> module_page_paddr(i)]

TakesPages(start, count, vaddr, id) ==
  D_800CA668' = [i \in Slots |->
    IF i \in start .. start + count - 1 THEN Entry(start, count, vaddr, id, i)
    ELSE D_800CA668[i]]

modulegetpages_impl(count, vaddr, id) ==
  /\ ~ stopped
  /\ \/ \E start \in Fitting(count) :
          /\ \A s \in Fitting(count) : start <= s
          /\ TakesPages(start, count, vaddr, id)
          /\ UNCHANGED stopped
     \/ /\ Fitting(count) = {}
        /\ stopped' = TRUE
        /\ UNCHANGED D_800CA668

(* The game's side of unloading.  Nothing reads the rest of a free slot; it is
   cleared to keep the model small. *)
FreePages(id) ==
  D_800CA668' = [i \in Slots |-> IF i \in OwnedBy(id) THEN FreeEntry ELSE D_800CA668[i]]
-----------------------------------------------------------------------------
PagesTypeOK == D_800CA668 \in [Slots -> PageEntry] /\ stopped \in BOOLEAN

(* Entries of four pages start at a multiple of four, which their mapping
   needs, and cover four slots of one module; every slot of a module is covered
   by exactly one entry. *)
EntriesOK ==
  \A i \in Slots : D_800CA668[i].module_id # NoModule =>
    \/ D_800CA668[i].page_count = 1
    \/ /\ D_800CA668[i].page_count = 4 <=> i % 4 = 0
       /\ i - (i % 4) + 3 \in Slots
       /\ \A j \in i - (i % 4) .. i - (i % 4) + 3 :
            /\ D_800CA668[j].module_id = D_800CA668[i].module_id
            /\ D_800CA668[j].page_count # 1

(* "physical addresses strictly contiguous": in a module, virtual and physical
   addresses run in step, so that what is copied to the first page and on is
   found at the addresses of the module. *)
InStep ==
  \A i, j \in Slots :
    /\ D_800CA668[i].module_id # NoModule
    /\ D_800CA668[i].module_id = D_800CA668[j].module_id
    => /\ D_800CA668[i].paddr = module_page_paddr(i)
       /\ D_800CA668[i].vaddr - D_800CA668[j].vaddr = i - j

(* Pages of one module are never given to another, whatever is loaded and
   unloaded in which order. *)
NoTakeover ==
  [][\A i \in Slots :
       D_800CA668[i].module_id # NoModule =>
         D_800CA668'[i].module_id \in {D_800CA668[i].module_id, NoModule}]_pageVars
=============================================================================
