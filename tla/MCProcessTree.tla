---------------------------- MODULE MCProcessTree ----------------------------
(***************************************************************************)
(* Parents and children: every way to link, kill and end processes, at     *)
(* every address the allocator may choose.                                 *)
(*                                                                         *)
(* One history variable records the processes whose relative is not the    *)
(* parent they were linked below: that one was freed, and another process  *)
(* may live at its address since, or it was the process itself or below    *)
(* it.  The variable restricts no step.                                    *)
(***************************************************************************)
EXTENDS Process, TLC

VARIABLE strays

TreeSymmetry == Permutations(Proc)

TreeInit == Init /\ strays = {}

(* A process and those it is below, through parents that are the ones it was linked
   below. *)
Lineage(p) ==
  {x \in Proc : \A S \in SUBSET Proc :
     /\ p \in S
     /\ \A y \in S \ strays : proc[y].relative # NULL => proc[y].relative \in S
     => x \in S}

LinksBelow(root, child) ==
  /\ LinkChildProcess(root, child)
  /\ child \notin Lineage(root)
  /\ strays' = strays \ {child}

(* A misuse: the child is the parent itself or above it. *)
LinksAround(root, child) ==
  /\ LinkChildProcess(root, child)
  /\ child \in Lineage(root)
  /\ strays' = strays \cup {child}

(* The children of a process that is freed have no parent any more. *)
Freeing ==
  /\ ProcessTerminated
  /\ strays' = (strays \cup {x \in live : proc[x].relative = g_pending_heap_free})
                 \ {g_pending_heap_free}

(* A process that is unlinked is nobody's child. *)
OtherSteps ==
  /\ \/ InitProcess \/ Scheduler \/ Leaves \/ Creates \/ Kills \/ TimesOut
     \/ \E p \in live : KillChildProcess(p)
     \/ \E d \in Destructors : SetProcessDestruct(d)
  /\ live \subseteq live'
  /\ strays' = {x \in strays : proc'[x].relative # NULL}

UsualNext ==
  /\ NoFatal
  /\ \/ \E root, child \in live : LinksBelow(root, child)
     \/ Freeing
     \/ OtherSteps

TreeNext ==
  \/ UsualNext
  \/ NoFatal /\ \E root, child \in live : LinksAround(root, child)

TreeSpec == TreeInit /\ [][TreeNext]_<<vars, strays>>

(* TreeSpec of callers that link no process below itself or one below it. *)
UsualSpec == TreeInit /\ [][UsualNext]_<<vars, strays>>

(* The children that the loop of KillChildProcess comes to (process.c:303). *)
Family(m, r) ==
  {x \in Proc : \A S \in SUBSET Proc :
     /\ m[r].oldest_child # NULL => m[r].oldest_child \in S
     /\ \A y \in S : m[y].parent_oldest_child # NULL => m[y].parent_oldest_child \in S
     => x \in S}

(* The recursion of KillChildProcess ends, although addresses are recycled while
   killed children still refer to them, unless it comes to a child that a freed
   parent has left behind or that was linked below itself. *)
KillTerminates ==
  \A p \in live : KillTree(proc, p) \cap strays = {} => KillEnds(proc, p)

(* The newest of the children that r has forgotten is unlinked, which sets r's
   pointer to the next older of them. *)
NewestForgotten(r) ==
  \E d \in live : /\ proc[d].relative = r
                  /\ proc[d].new_process = NULL
                  /\ d \notin Family(proc, r)
                  /\ proc'[d].relative # r \/ proc'[r].oldest_child = d

(* A parent keeps its children: as long as a process is attached to the same parent
   and was not killed, the parent's kill goes on to reach it, whoever is linked,
   unlinked, killed and freed beside it and whatever address a new process gets.
   The one exception is named: a child that was killed through its parent stays
   attached, as does the child of a parent that was freed, to the next process at
   its address; when such a one ends, the parent loses the children it has now. *)
ChildrenKept ==
  [][\A r \in live \cap live' : \A x \in Family(proc, r) \cap live' :
       /\ proc[x].relative = r
       /\ proc'[x].relative = r
       /\ proc'[x].exec_mode # "DEAD"
       => x \in Family(proc', r) \/ NewestForgotten(r)]_vars
=============================================================================
