------------------------------- MODULE Process -------------------------------
(***************************************************************************)
(* The game's process system as patched for coroutines                     *)
(* (patches/src/process.c), on top of the host runtime.                    *)
(*                                                                         *)
(* A process is a struct in its own heap: freeing the heap frees the       *)
(* struct, and a later allocation may reuse the address.  Structs are      *)
(* linked twice: in the main list (next, youngest_child), sorted by        *)
(* falling priority, and in a list of siblings (parent_oldest_child =      *)
(* older, new_process = newer) whose newest member the parent's            *)
(* oldest_child points to; relative is the parent.                         *)
(*                                                                         *)
(* CallProcess walks the main list once per frame and switches into each   *)
(* process that is due; it is split at the points where control leaves it. *)
(* What game code does between two switches is unknown, so a running       *)
(* process, or the main loop between two passes, may make any sequence of  *)
(* calls; each call is one step because nothing preempts it.               *)
(***************************************************************************)
EXTENDS ProcessRuntime, Integers, FiniteSets

CONSTANTS
  Priorities,        (* priorities CreateProcess is called with *)
  SleepTimes,        (* time arguments of the sleep functions *)
  Ticks,             (* time arguments of CallProcess *)
  Destructors,       (* may SetProcessDestruct be called with NULL, a function *)
  DestructorYields   (* a destructor may itself sleep or watch *)

ASSUME EntryAssumption == Entry = {"body", "EndProcess"}
ASSUME PrioritiesAssumption == Priorities \subseteq Nat
ASSUME TimesAssumption == SleepTimes \subseteq Int /\ Ticks \subseteq Int
ASSUME DestructorAssumption ==
  Destructors \subseteq BOOLEAN /\ DestructorYields \in BOOLEAN

VARIABLES
  proc,                 (* the memory of the structs, by address *)
  live,                 (* addresses that are allocated *)
  top_process,          (* head of the main list *)
  current_process,      (* the scheduler's cursor; what GetCurrentProcess gives *)
  process_count,
  g_pending_heap_free,  (* heap the scheduler frees after a termination *)
  next_proc,            (* CallProcess: successor saved before the switch *)
  time,                 (* CallProcess: its argument *)
  cont,                 (* what each coroutine is in the middle of *)
  sweep,                (* KillPrioProcess: its loop, or NoSweep *)
  pc,                   (* who has control *)
  errstop               (* errstop has been called *)

passVars == <<current_process, next_proc, time>>
listVars == <<live, top_process, process_count>>
heapVars == <<g_pending_heap_free, errstop>>
vars == <<rtVars, proc, listVars, passVars, heapVars, cont, sweep, pc>>

U16 == 65536
ExecMode == {"DEFAULT", "SLEEPING", "WATCH", "DEAD", "PAUSED"}
Continuation == {"none", "body", "EndProcess", "destructor"}
Control == {"boot", "idle", "loop", "run", "process", "sweep", "returned"}
Ref == Proc \cup {NULL}
NoSweep == [at |-> NULL, lo |-> 0, hi |-> 0]

(* The struct.  func is prc_jump.func; heap is the address itself; a
   destructor is only set or not.  stat, the stack and the magic numbers
   validate_process_state compares are left out. *)
Struct == [next : Ref, youngest_child : Ref, oldest_child : Ref,
           relative : Ref, parent_oldest_child : Ref, new_process : Ref,
           exec_mode : ExecMode, priority : Nat, sleep_time : Int,
           func : Entry, destructor : BOOLEAN]

(* A new struct before it is linked; also what a freed one is reset to, so
   that states do not differ in memory no code reads. *)
Fresh(prio) ==
  [next |-> NULL, youngest_child |-> NULL, oldest_child |-> NULL,
   relative |-> NULL, parent_oldest_child |-> NULL, new_process |-> NULL,
   exec_mode |-> "DEFAULT", priority |-> prio, sleep_time |-> 0,
   func |-> "body", destructor |-> FALSE]
-----------------------------------------------------------------------------
(***************************************************************************)
(* The list and mode functions, as operators from memory to memory.        *)
(***************************************************************************)

WithList(r, n, y) == [r EXCEPT !.next = n, !.youngest_child = y]

WithTree(r, rel, c, o, n) ==
  [r EXCEPT !.relative = rel, !.oldest_child = c,
            !.parent_oldest_child = o, !.new_process = n]

WithMode(r, mode, t) == [r EXCEPT !.exec_mode = mode, !.sleep_time = t]

(* Where LinkProcess_Export stops in a sorted list: behind the last process
   of at least this priority, or at the head (NULL). *)
InsertsAfter(s, prio) ==
  IF s = NULL
  THEN top_process # NULL => proc[top_process].priority < prio
  ELSE /\ proc[s].priority >= prio
       /\ proc[s].next # NULL => proc[proc[s].next].priority < prio

(* Faulty variant. *)
LinkedOneWay(m, p, s) ==
  LET n == IF s = NULL THEN top_process ELSE m[s].next
  IN  [x \in Proc |->
        WithList(m[x], IF x = p THEN n ELSE IF x = s THEN p ELSE m[x].next,
                 IF x = p THEN s ELSE m[x].youngest_child)]

LinkedProcess(m, p, s) ==
  LET n == IF s = NULL THEN top_process ELSE m[s].next
  IN  [x \in Proc |->
        WithList(m[x], IF x = p THEN n ELSE IF x = s THEN p ELSE m[x].next,
                 IF x = p THEN s ELSE IF x = n THEN p ELSE m[x].youngest_child)]

(* Faulty variant. *)
UnlinkedHeadOnly(m, p) ==
  [x \in Proc |->
    WithList(m[x], m[x].next, IF x = m[p].next THEN m[p].youngest_child
                              ELSE m[x].youngest_child)]

UnlinkedProcess(m, p) ==
  LET n == m[p].next
      y == m[p].youngest_child
  IN  [x \in Proc |->
        WithList(m[x], IF x = y THEN n ELSE m[x].next,
                 IF x = n THEN y ELSE m[x].youngest_child)]

(* Faulty variant. *)
UnlinkedOneWay(m, p) ==
  IF m[p].relative = NULL THEN m ELSE
  [x \in Proc |->
    WithTree(m[x], IF x = p THEN NULL ELSE m[x].relative,
             IF m[p].new_process = NULL /\ x = m[p].relative
               THEN m[p].parent_oldest_child ELSE m[x].oldest_child,
             m[x].parent_oldest_child,
             IF x = m[p].parent_oldest_child THEN m[p].new_process
               ELSE m[x].new_process)]

(* Faulty variant. *)
UnlinkedAsNewest(m, p) ==
  IF m[p].relative = NULL THEN m ELSE
  LET r == m[p].relative
      o == m[p].parent_oldest_child
      n == m[p].new_process
  IN  [x \in Proc |->
        WithTree(m[x], IF x = p THEN NULL ELSE m[x].relative,
                 IF x = r THEN o ELSE m[x].oldest_child,
                 IF x = n THEN o ELSE m[x].parent_oldest_child,
                 IF x = o THEN n ELSE m[x].new_process)]

UnlinkedChild(m, p) ==
  IF m[p].relative = NULL THEN m ELSE
  LET r == m[p].relative
      o == m[p].parent_oldest_child
      n == m[p].new_process
  IN  [x \in Proc |->
        WithTree(m[x], IF x = p THEN NULL ELSE m[x].relative,
                 IF n = NULL /\ x = r THEN o ELSE m[x].oldest_child,
                 IF x = n THEN o ELSE m[x].parent_oldest_child,
                 IF x = o THEN n ELSE m[x].new_process)]

(* Faulty variant. *)
LinkedWithoutUnlink(m, root, child) ==
  [x \in Proc |->
    WithTree(m[x], IF x = child THEN root ELSE m[x].relative,
             IF x = root THEN child ELSE m[x].oldest_child,
             IF x = child THEN m[root].oldest_child
               ELSE m[x].parent_oldest_child,
             IF x = child THEN NULL
               ELSE IF x = m[root].oldest_child THEN child
               ELSE m[x].new_process)]

LinkedChild(m, root, child) ==
  LET u == UnlinkedChild(m, child)
      o == u[root].oldest_child
  IN  [x \in Proc |->
        WithTree(u[x], IF x = child THEN root ELSE u[x].relative,
                 IF x = root THEN child ELSE u[x].oldest_child,
                 IF x = child THEN o ELSE u[x].parent_oldest_child,
                 IF x = child THEN NULL
                   ELSE IF x = o THEN child ELSE u[x].new_process)]

Woken(r) ==
  CASE r.exec_mode = "SLEEPING" -> WithMode(r, "SLEEPING", 0)
    [] r.exec_mode = "PAUSED" /\ r.sleep_time # 0 ->
         WithMode(r, "SLEEPING", r.sleep_time)
    [] r.exec_mode = "PAUSED" /\ r.sleep_time = 0 ->
         WithMode(r, "DEFAULT", r.sleep_time)
    [] OTHER -> r

KillMarked(r) ==
  IF r.exec_mode = "DEAD" THEN r
  ELSE WithMode(r, "DEAD", Woken(r).sleep_time)

(* The processes the recursion of KillChildProcess reaches: the newest child,
   and with each process its older siblings and its own children. *)
KillTree(m, p) ==
  LET Closed(S) == \A x \in S \cup {p} :
                     /\ m[x].oldest_child # NULL => m[x].oldest_child \in S
                     /\ x \in S /\ m[x].parent_oldest_child # NULL
                          => m[x].parent_oldest_child \in S
  IN  {x \in Proc : \A S \in SUBSET Proc : Closed(S) => x \in S}

(* The recursion comes to an end: the child and sibling pointers it follows lead
   it round in no circle.  If they do it never returns, or overflows the stack. *)
KillEnds(m, p) ==
  ~ \E S \in SUBSET (KillTree(m, p) \cup {p}) :
      /\ S # {}
      /\ \A x \in S : \/ m[x].oldest_child \in S
                      \/ x # p /\ m[x].parent_oldest_child \in S

ChildrenKilled(m, p) ==
  LET K == KillTree(m, p)
      Marked(x) == IF x \in K THEN KillMarked(m[x]) ELSE m[x]
  IN  [x \in Proc |->
        WithTree(Marked(x), m[x].relative,
                 IF x \in K \cup {p} THEN NULL ELSE m[x].oldest_child,
                 m[x].parent_oldest_child, m[x].new_process)]

Killed(m, p) ==
  LET u == UnlinkedChild(ChildrenKilled(m, p), p)
  IN  [x \in Proc |-> IF x = p THEN KillMarked(u[x]) ELSE u[x]]

(* Faulty variant. *)
SleptEvenDead(r, t) ==
  IF t = 0 THEN r
  ELSE IF t = -1 THEN WithMode(r, "PAUSED", r.sleep_time)
  ELSE WithMode(r, "SLEEPING", t)

(* SleepProcessP, and the body of the loop of SleepPrioProcess. *)
Slept(r, t) ==
  CASE t = 0 \/ r.exec_mode = "DEAD" -> r
    [] t = -1 /\ r.exec_mode # "DEAD" -> WithMode(r, "PAUSED", r.sleep_time)
    [] OTHER -> WithMode(r, "SLEEPING", t)

InRange(p, lo, hi) == lo <= proc[p].priority /\ proc[p].priority <= hi
-----------------------------------------------------------------------------
Init ==
  /\ RTInit
  /\ proc = [p \in Proc |-> Fresh(0)]
  /\ live = {}
  /\ top_process = NULL
  /\ process_count = 0
  /\ current_process = NULL
  /\ next_proc = NULL
  /\ time = 0
  /\ g_pending_heap_free = NULL
  /\ errstop = FALSE
  /\ cont = [p \in Proc |-> "none"]
  /\ sweep = NoSweep
  /\ pc = "boot"

(* Must come before any other process function. *)
InitProcess ==
  /\ pc = "boot"
  /\ recomp_process_init
  /\ g_pending_heap_free' = NULL
  /\ process_count' = 0
  /\ top_process' = NULL
  /\ current_process' = NULL
  /\ pc' = "idle"
  /\ UNCHANGED <<proc, live, next_proc, time, errstop, cont, sweep>>
-----------------------------------------------------------------------------
(***************************************************************************)
(* Calls any game code may make: a running process, its destructor, or the *)
(* main loop between two passes.                                           *)
(***************************************************************************)
InCode == pc = "process" /\ cont[current_process] \in {"body", "destructor"}

Calling == pc = "idle" \/ InCode

CallLeaves == UNCHANGED <<rtVars, passVars, heapVars, cont, sweep, pc>>

CallOnStructs(m) ==
  /\ Calling
  /\ proc' = m
  /\ CallLeaves
  /\ UNCHANGED listVars

(* The bookkeeping of a creation at address p, linked behind s. *)
Allocates(p, prio, s) ==
  /\ Calling
  /\ p \notin live
  /\ InsertsAfter(s, prio)
  /\ live' = live \cup {p}
  /\ top_process' = IF s = NULL THEN p ELSE top_process
  /\ process_count' = (process_count + 1) % U16
  /\ CallLeaves

CreatedProcess(p, prio, s) ==
  LinkedProcess([proc EXCEPT ![p] = Fresh(prio)], p, s)

CreateProcess(p, prio) ==
  \E s \in live \cup {NULL} :
    /\ Allocates(p, prio, s)
    /\ proc' = CreatedProcess(p, prio, s)

(* Assumed of callers: the parent is a live process, and no process is linked
   while it runs its destructor, for its EndProcess has unlinked it by then.
   The code tests neither. *)
MayLink(root, child) == root \in live /\ cont[child] # "destructor"

CreateChildProcess(p, prio, root) ==
  \E s \in live \cup {NULL} :
    /\ Allocates(p, prio, s)
    /\ MayLink(root, p)
    /\ proc' = LinkedChild(CreatedProcess(p, prio, s), root, p)

LinkChildProcess(root, child) ==
  /\ child \in live
  /\ MayLink(root, child)
  /\ CallOnStructs(LinkedChild(proc, root, child))

KillChildProcess(p) ==
  /\ p \in live
  /\ KillEnds(proc, p)
  /\ CallOnStructs(ChildrenKilled(proc, p))

KillProcess(p) ==
  /\ p \in live
  /\ KillEnds(proc, p)
  /\ CallOnStructs(Killed(proc, p))

SleepProcessP(p, t) ==
  p \in live /\ CallOnStructs([proc EXCEPT ![p] = Slept(@, t)])

WakeupProcess(p) ==
  p \in live /\ CallOnStructs([proc EXCEPT ![p] = Woken(@)])

(* The loops over the main list that touch each process on its own.  While
   calls can be made every live process is on the list (ListIsLive). *)
SleepPrioProcess(lo, hi, t) ==
  CallOnStructs([x \in Proc |-> IF x \in live /\ InRange(x, lo, hi)
                                THEN Slept(proc[x], t) ELSE proc[x]])

WakeupPrioProcess(lo, hi) ==
  CallOnStructs([x \in Proc |-> IF x \in live /\ InRange(x, lo, hi)
                                THEN Woken(proc[x]) ELSE proc[x]])

(* One step per iteration: each kill changes the tree the next one reads. *)
KillPrioProcess(lo, hi) ==
  /\ Calling
  /\ sweep' = [at |-> top_process, lo |-> lo, hi |-> hi]
  /\ pc' = "sweep"
  /\ UNCHANGED <<rtVars, proc, listVars, passVars, heapVars, cont>>

KillPrioIteration ==
  /\ pc = "sweep"
  /\ sweep.at # NULL
  /\ InRange(sweep.at, sweep.lo, sweep.hi) => KillEnds(proc, sweep.at)
  /\ proc' = IF InRange(sweep.at, sweep.lo, sweep.hi)
             THEN Killed(proc, sweep.at) ELSE proc
  /\ sweep' = [sweep EXCEPT !.at = proc[sweep.at].next]
  /\ UNCHANGED <<rtVars, listVars, passVars, heapVars, cont, pc>>

KillPrioReturn ==
  /\ pc = "sweep"
  /\ sweep.at = NULL
  /\ sweep' = NoSweep
  /\ pc' = IF current_slot = NULL THEN "idle" ELSE "process"
  /\ UNCHANGED <<rtVars, proc, listVars, passVars, heapVars, cont>>
-----------------------------------------------------------------------------
(***************************************************************************)
(* Calls a process makes for itself (GetCurrentProcess).                   *)
(***************************************************************************)
SetProcessDestruct(d) ==
  /\ InCode
  /\ CallOnStructs([proc EXCEPT ![current_process].destructor = d])

yield_to_scheduler(reason) ==
  /\ recomp_process_yield(reason)
  /\ pc' = "returned"
  /\ UNCHANGED <<passVars, cont, sweep, errstop>>

MayYield == InCode /\ (cont[current_process] = "destructor" => DestructorYields)

(* SleepVProcess is SleepProcess(0). *)
SleepProcess(t) ==
  /\ MayYield
  /\ proc' = IF t # 0 /\ proc[current_process].exec_mode # "DEAD"
             THEN [proc EXCEPT ![current_process] = WithMode(@, "SLEEPING", t)]
             ELSE proc
  /\ yield_to_scheduler("NORMAL")
  /\ UNCHANGED <<listVars, g_pending_heap_free>>

WatchChildProcess ==
  /\ MayYield
  /\ proc[current_process].oldest_child # NULL
  /\ proc' = [proc EXCEPT ![current_process].exec_mode = "WATCH"]
  /\ yield_to_scheduler("NORMAL")
  /\ UNCHANGED <<listVars, g_pending_heap_free>>

(* TerminateProcess_Export after the destructor. *)
Terminates(m) ==
  /\ proc' = UnlinkedProcess(m, current_process)
  /\ top_process' = IF m[current_process].youngest_child = NULL
                    THEN m[current_process].next ELSE top_process
  /\ process_count' = (process_count - 1) % U16
  /\ g_pending_heap_free' = current_process
  /\ yield_to_scheduler("TERMINATE")
  /\ UNCHANGED live

(* Called by the body, on its return, or as the entry of a killed process.
   A destructor runs before the process is taken off the main list. *)
EndProcess ==
  /\ pc = "process"
  /\ cont[current_process] \in {"body", "EndProcess"}
  /\ KillEnds(proc, current_process)
  /\ LET m == UnlinkedChild(ChildrenKilled(proc, current_process),
                            current_process)
     IN  IF m[current_process].destructor
         THEN /\ proc' = m
              /\ cont' = [cont EXCEPT ![current_process] = "destructor"]
              /\ UNCHANGED <<rtVars, listVars, passVars, heapVars, sweep, pc>>
         ELSE Terminates(m)

(* A sweep or an end caught in its recursion: the program goes no further. *)
KillNeverEnds ==
  /\ \/ /\ pc = "sweep"
        /\ sweep.at # NULL
        /\ InRange(sweep.at, sweep.lo, sweep.hi)
        /\ ~ KillEnds(proc, sweep.at)
     \/ /\ pc = "process"
        /\ cont[current_process] = "EndProcess"
        /\ ~ KillEnds(proc, current_process)
  /\ UNCHANGED vars

DestructorReturns ==
  /\ pc = "process"
  /\ cont[current_process] = "destructor"
  /\ Terminates(proc)
-----------------------------------------------------------------------------
(***************************************************************************)
(* CallProcess: one pass over the main list.                               *)
(***************************************************************************)
CallProcess(t) ==
  /\ pc = "idle"
  /\ current_process' = top_process
  /\ time' = t
  /\ pc' = "loop"
  /\ UNCHANGED <<rtVars, proc, listVars, next_proc, heapVars, cont, sweep>>

PassEnds ==
  /\ pc = "loop"
  /\ current_process = NULL
  /\ time' = 0
  /\ pc' = "idle"
  /\ UNCHANGED <<rtVars, proc, listVars, current_process, next_proc, heapVars,
                 cont, sweep>>

Visits(mode) ==
  /\ pc = "loop"
  /\ current_process # NULL
  /\ proc[current_process].exec_mode = mode
  /\ UNCHANGED <<listVars, next_proc, time, heapVars, sweep>>

StepsOver ==
  /\ current_process' = proc[current_process].next
  /\ UNCHANGED <<rtVars, cont, pc>>

VisitPaused == Visits("PAUSED") /\ StepsOver /\ UNCHANGED proc

(* Faulty variant. *)
TickedNever(r) == IF r.sleep_time = 0 THEN WithMode(r, "DEFAULT", 0) ELSE r

(* A sleeper whose sleep_time is not positive is never woken here. *)
Ticked(r) ==
  IF r.sleep_time <= 0 THEN r
  ELSE IF r.sleep_time - time <= 0
       THEN WithMode(r, "DEFAULT", 0)
       ELSE WithMode(r, "SLEEPING", r.sleep_time - time)

VisitSleeping ==
  /\ Visits("SLEEPING")
  /\ proc' = [proc EXCEPT ![current_process] = Ticked(@)]
  /\ StepsOver

VisitWatching ==
  /\ Visits("WATCH")
  /\ proc[current_process].oldest_child # NULL
  /\ StepsOver
  /\ UNCHANGED proc

(* The watcher whose last child is gone runs at once. *)
VisitWatched ==
  /\ Visits("WATCH")
  /\ proc[current_process].oldest_child = NULL
  /\ proc' = [proc EXCEPT ![current_process].exec_mode = "DEFAULT"]
  /\ pc' = "run"
  /\ UNCHANGED <<rtVars, current_process, cont>>

(* Faulty variant. *)
VisitDeadKeepsSlot ==
  /\ Visits("DEAD")
  /\ proc' = [proc EXCEPT ![current_process].func = "EndProcess"]
  /\ pc' = "run"
  /\ UNCHANGED <<rtVars, current_process, cont>>

(* Faulty variant. *)
VisitDeadResumes ==
  /\ Visits("DEAD")
  /\ pc' = "run"
  /\ UNCHANGED <<rtVars, proc, current_process, cont>>

(* Faulty variant. *)
VisitDeadSkips == Visits("DEAD") /\ StepsOver /\ UNCHANGED proc

(* Faulty variant. *)
VisitDeadClearsEntry ==
  /\ Visits("DEAD")
  /\ recomp_process_destroy(current_process)
  /\ cont' = [cont EXCEPT ![current_process] = "none"]
  /\ proc' = [proc EXCEPT ![current_process].func = NULL]
  /\ pc' = "run"
  /\ UNCHANGED current_process

(* Drops the coroutine wherever it was parked; a new one will run EndProcess. *)
VisitDead ==
  /\ Visits("DEAD")
  /\ recomp_process_destroy(current_process)
  /\ cont' = [cont EXCEPT ![current_process] = "none"]
  /\ proc' = [proc EXCEPT ![current_process].func = "EndProcess"]
  /\ pc' = "run"
  /\ UNCHANGED current_process

VisitDefault ==
  /\ Visits("DEFAULT")
  /\ pc' = "run"
  /\ UNCHANGED <<rtVars, proc, current_process, cont>>

(* Faulty variant. *)
RunProcessSavesItself ==
  /\ pc = "run"
  /\ next_proc' = current_process
  /\ g_pending_heap_free' = NULL
  /\ recomp_process_resume(current_process, proc[current_process].func)
  /\ cont' = [cont EXCEPT ![current_process] =
                IF @ = "none" THEN proc[current_process].func ELSE @]
  /\ pc' = "process"
  /\ UNCHANGED <<proc, listVars, current_process, time, errstop, sweep>>

(* The label run_process: the switch. *)
RunProcess ==
  /\ pc = "run"
  /\ next_proc' = proc[current_process].next
  /\ g_pending_heap_free' = NULL
  /\ recomp_process_resume(current_process, proc[current_process].func)
  /\ cont' = [cont EXCEPT ![current_process] =
                IF @ = "none" THEN proc[current_process].func ELSE @]
  /\ pc' = "process"
  /\ UNCHANGED <<proc, listVars, current_process, time, errstop, sweep>>

(* The switch back.  free() of the heap frees the struct. *)
Frees(pending, next) ==
  /\ pc = "returned"
  /\ yield_reason = "TERMINATE"
  /\ errstop' = (g_pending_heap_free = NULL)
  /\ live' = live \ {g_pending_heap_free}
  /\ proc' = [p \in Proc |-> IF p = g_pending_heap_free THEN Fresh(0)
                             ELSE proc[p]]
  /\ g_pending_heap_free' = pending
  /\ current_process' = next
  /\ next_proc' = NULL
  /\ pc' = "loop"
  /\ UNCHANGED <<top_process, process_count, time, sweep>>

(* Faulty variant. *)
TerminatedKeepsPending ==
  /\ Frees(g_pending_heap_free, next_proc)
  /\ recomp_process_destroy(current_process)
  /\ cont' = [cont EXCEPT ![current_process] = "none"]

(* Faulty variant. *)
TerminatedKeepsSlot == Frees(NULL, next_proc) /\ UNCHANGED <<rtVars, cont>>

(* Faulty variant. *)
TerminatedRestarts ==
  /\ Frees(NULL, top_process)
  /\ recomp_process_destroy(current_process)
  /\ cont' = [cont EXCEPT ![current_process] = "none"]

ProcessTerminated ==
  /\ Frees(NULL, next_proc)
  /\ recomp_process_destroy(current_process)
  /\ cont' = [cont EXCEPT ![current_process] = "none"]

(* Faulty variant. *)
YieldedStays ==
  /\ pc = "returned"
  /\ yield_reason # "TERMINATE"
  /\ next_proc' = NULL
  /\ pc' = "loop"
  /\ UNCHANGED <<rtVars, proc, listVars, current_process, time, heapVars, cont,
                 sweep>>

ProcessYielded ==
  /\ pc = "returned"
  /\ yield_reason # "TERMINATE"
  /\ current_process' = proc[current_process].next
  /\ next_proc' = NULL
  /\ pc' = "loop"
  /\ UNCHANGED <<rtVars, proc, listVars, time, heapVars, cont, sweep>>
-----------------------------------------------------------------------------
Scheduler ==
  \/ \E t \in Ticks : CallProcess(t)
  \/ PassEnds
  \/ VisitPaused \/ VisitSleeping \/ VisitWatching \/ VisitWatched
  \/ VisitDead \/ VisitDefault
  \/ RunProcess \/ ProcessTerminated \/ ProcessYielded

(* What leaves a coroutine: every process and destructor gets to one of these. *)
Leaves ==
  \/ \E t \in SleepTimes \cup {0} : SleepProcess(t)
  \/ WatchChildProcess
  \/ EndProcess
  \/ DestructorReturns

Creates ==
  \E p \in Proc, prio \in Priorities :
    \/ CreateProcess(p, prio)
    \/ \E root \in live : CreateChildProcess(p, prio, root)

Kills ==
  \/ \E p \in live : KillProcess(p)
  \/ \E lo, hi \in Priorities : lo <= hi /\ KillPrioProcess(lo, hi)
  \/ KillPrioIteration \/ KillPrioReturn \/ KillNeverEnds

TimesOut ==
  \/ \E p \in live : WakeupProcess(p)
  \/ \E p \in live, t \in SleepTimes : SleepProcessP(p, t)
  \/ \E lo, hi \in Priorities :
       /\ lo <= hi
       /\ \/ WakeupPrioProcess(lo, hi)
          \/ \E t \in SleepTimes : SleepPrioProcess(lo, hi, t)

Relates ==
  \/ \E root, child \in live : LinkChildProcess(root, child)
  \/ \E p \in live : KillChildProcess(p)
  \/ \E d \in Destructors : SetProcessDestruct(d)

(* No kill can be caught in its recursion. *)
NoCircles == \A p \in live : KillEnds(proc, p)

Next ==
  /\ ~fatal /\ ~errstop
  /\ InitProcess \/ Scheduler \/ Leaves \/ Creates \/ Kills \/ TimesOut
       \/ Relates

Spec == Init /\ [][Next]_vars

(* The game loop comes to CallProcess every frame and the scheduler is never
   preempted; code between two switches is finite, so a process that runs
   keeps getting to a switch. *)
Fairness ==
  /\ SF_vars(Scheduler)
  /\ WF_vars(KillPrioIteration \/ KillPrioReturn)
  /\ SF_vars(Leaves)

FairSpec == Spec /\ Fairness
-----------------------------------------------------------------------------
TypeOK ==
  /\ RTTypeOK
  /\ proc \in [Proc -> Struct]
  /\ live \subseteq Proc
  /\ {top_process, current_process, next_proc, g_pending_heap_free} \subseteq Ref
  /\ process_count \in 0 .. U16 - 1
  /\ time \in Int
  /\ cont \in [Proc -> Continuation]
  /\ sweep \in [at : Ref, lo : Nat, hi : Nat]
  /\ pc \in Control
  /\ errstop \in BOOLEAN

(* Live processes that are on the main list: a process takes itself off it
   just before its last switch. *)
Listed == live \ {g_pending_heap_free}

(* No check of the runtime or of the scheduler ever ends the program: a slot
   is never resumed dead, while another runs, before initialisation, or with
   an entry function other than the one it was created for, and a
   termination always leaves a heap to free. *)
NoFatal == ~fatal /\ ~errstop

(* Followed backwards the main list ends: in any set of listed processes there is
   a first one. *)
NoCycle ==
  \A S \in SUBSET Listed :
    S # {} => \E x \in S : proc[x].youngest_child \notin S

(* The main list is doubly linked, sorted by falling priority, free of cycles,
   and holds exactly the live processes that have not left it. *)
ListOK ==
  /\ \A p \in Listed :
       LET n == proc[p].next  y == proc[p].youngest_child IN
       /\ n # NULL => /\ n \in Listed
                      /\ proc[n].youngest_child = p
                      /\ proc[p].priority >= proc[n].priority
       /\ y # NULL => y \in Listed /\ proc[y].next = p
       /\ y = NULL <=> p = top_process
  /\ top_process # NULL => top_process \in Listed
  /\ NoCycle

(* Following next from top_process reaches every listed process, and
   process_count, a u16, counts them: no process is lost to the scheduler while
   it lives, whatever order links and unlinks come in. *)
ListIsLive ==
  LET Closed(S) == /\ top_process # NULL => top_process \in S
                   /\ \A x \in S : proc[x].next # NULL => proc[x].next \in S
      OnList == {x \in Proc : \A S \in SUBSET Proc : Closed(S) => x \in S}
  IN  OnList = Listed /\ process_count = Cardinality(Listed) % U16

(* Control and the runtime agree: a coroutine has control exactly while its
   process is current, nothing runs or lives before initialisation, there is a
   heap to free exactly between a termination and the scheduler's answer to it,
   and no cursor of a loop is left over outside it: KillPrioProcess's, and the
   successor CallProcess saves for a switch. *)
ControlOK ==
  /\ pc = "boot" <=> ~ initialized
  /\ pc = "boot" => live = {}
  /\ pc \in {"boot", "idle"} => current_process = NULL
  /\ pc \in {"run", "process", "returned"} => current_process # NULL
  /\ current_slot = IF pc \in {"process", "sweep"} THEN current_process ELSE NULL
  /\ g_pending_heap_free = IF pc = "returned" /\ yield_reason = "TERMINATE"
                           THEN current_process ELSE NULL
  /\ pc # "sweep" => sweep = NoSweep
  /\ pc # "returned" /\ current_slot = NULL => next_proc = NULL

(* Every pointer kept across a switch stays valid: the cursor is allocated, the
   saved successor and the cursor of KillPrioProcess are on the list, and the
   successor is not the process being switched to, which may free itself. *)
CursorLive ==
  /\ current_process \in live \cup {NULL}
  /\ {top_process, next_proc, sweep.at} \subseteq Listed \cup {NULL}
  /\ next_proc # NULL => next_proc # current_process

(* Slots belong to live processes and fit them: a coroutine never outlives its
   struct, so a process at a recycled address starts afresh; its slot has the
   entry function the next resume will pass; and only a process that has just
   terminated has a dead slot. *)
SlotsMatchProcesses ==
  \A p \in Proc :
    /\ slots[p] = NoSlot <=> cont[p] = "none"
    /\ slots[p] # NoSlot =>
         /\ p \in live
         /\ slots[p].entry = proc[p].func
         /\ slots[p].state = "Dead" => pc = "returned" /\ p = g_pending_heap_free
         /\ slots[p].state = "Running" => p = current_process

(* The sibling pointers of an attached process are valid, even of one that was
   killed and whose parent is gone: both neighbours are live, attached to the
   same address and point back, and a parent's pointer is to the newest. *)
SiblingsOK ==
  /\ \A x \in live : proc[x].relative # NULL =>
       LET o == proc[x].parent_oldest_child  n == proc[x].new_process IN
       /\ o # NULL => /\ o \in live
                      /\ proc[o].relative = proc[x].relative
                      /\ proc[o].new_process = x
       /\ n # NULL => /\ n \in live
                      /\ proc[n].relative = proc[x].relative
                      /\ proc[n].parent_oldest_child = x
  /\ \A p \in live : proc[p].oldest_child # NULL =>
       LET c == proc[p].oldest_child IN
       c \in live /\ proc[c].relative = p /\ proc[c].new_process = NULL

(* A kill is final: no wakeup, sleep or pass revives a killed process.  The one
   exception is the process itself, which may still start to watch a child. *)
KillSticks ==
  [][\A p \in live \cap live' :
       proc[p].exec_mode = "DEAD" =>
         \/ proc'[p].exec_mode = "DEAD"
         \/ proc'[p].exec_mode = "WATCH" /\ current_slot = p]_vars

(* Nothing writes to a struct after its heap is freed ("the process struct lives
   inside this heap, so we have to read everything we need before freeing"). *)
FreedUntouched ==
  [][\A p \in Proc \ live : p \notin live' => proc'[p] = proc[p]]_vars

(* A killed process is eventually ended and freed, whoever is killed beside it and
   however often.  There are two exceptions.  It may start to watch in its own
   turn, which takes the kill away.  And its destructor may sleep: the scheduler
   drops it there and begins the end again, and the process stays for ever. *)
KilledIsReaped ==
  \A p \in Proc :
    (p \in live /\ proc[p].exec_mode = "DEAD")
      ~> (\/ p \notin live
          \/ proc[p].exec_mode # "DEAD"
          \/ cont[p] = "destructor" /\ current_slot # p)

(* A process put to sleep for a positive time leaves that sleep. *)
TimedSleepWakes ==
  \A p \in Proc :
    (p \in live /\ proc[p].exec_mode = "SLEEPING" /\ proc[p].sleep_time > 0)
      ~> (p \notin live \/ proc[p].exec_mode # "SLEEPING"
                        \/ proc[p].sleep_time <= 0)

(* Every pass of CallProcess ends. *)
PassesEnd == pc = "loop" ~> pc = "idle"
-----------------------------------------------------------------------------
(* The process at an address as its users see it. *)
StatusOf(p) ==
  CASE p \notin live -> "free"
    [] p \in live /\ slots[p] # NoSlot /\ slots[p].state = "Dead" -> "exited"
    [] p \in Listed /\ proc[p].exec_mode = "DEAD" -> "killed"
    [] OTHER -> "alive"

CodeOf(p) == IF cont[p] \in {"EndProcess", "destructor"} THEN "end" ELSE cont[p]

Lifecycle == INSTANCE ProcessLifecycle
  WITH status <- [p \in Proc |-> StatusOf(p)],
       code <- [p \in Proc |-> CodeOf(p)],
       running <- current_slot

(* The process system implements the lifecycle its users rely on. *)
ImplementsLifecycle == Lifecycle!LifeSpec
=============================================================================
