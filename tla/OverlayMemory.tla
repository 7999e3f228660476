---------------------------- MODULE OverlayMemory ----------------------------
(***************************************************************************)
(* What loading overlays promises: while a module is loaded, its addresses *)
(* lead to pages that are its own, always the same ones.                   *)
(***************************************************************************)
EXTENDS FiniteSets

CONSTANTS Modules, Pages, VirtualPage, PageCounts

VARIABLE pages      (* the pages each module's addresses lead to *)

Loaded == {m \in Modules : pages[m] # {}}

Init == pages = [m \in Modules |-> {}]

(* Any pages will do that are not another's. *)
Load(m) ==
  LET own == pages'[m] IN
  /\ own \subseteq Pages /\ Cardinality(own) \in PageCounts
  /\ \A n \in Loaded : own \cap pages[n] = {} /\ VirtualPage[n] # VirtualPage[m]
  /\ m \notin Loaded
  /\ pages' = [pages EXCEPT ![m] = own]

Unload(m) ==
  /\ m \in Loaded
  /\ pages' = [pages EXCEPT ![m] = {}]

Next == \E m \in Modules : Load(m) \/ Unload(m)

Spec == Init /\ [][Next]_pages
=============================================================================
