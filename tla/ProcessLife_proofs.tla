-------------------------- MODULE ProcessLife_proofs --------------------------
(***************************************************************************)
(* What becomes of a process, for any number of them: a kill is final, the *)
(* process system implements the lifecycle its users rely on               *)
(* (ProcessLifecycle), and a pass of CallProcess gives each process one    *)
(* turn, whatever is created, killed and freed under it.                   *)
(***************************************************************************)
EXTENDS Process_proofs, MCProcessPass

Dead(r) == r.exec_mode = "DEAD"

(* n is m with the same processes marked dead, or with these ones too; the
   entry functions are the same. *)
SameDead(n, m) ==
  \A x \in Proc : (Dead(n[x]) <=> Dead(m[x])) /\ n[x].func = m[x].func
MoreDead(n, m) ==
  \A x \in Proc : (Dead(m[x]) => Dead(n[x])) /\ n[x].func = m[x].func

LEMMA UnlinkedChildDead ==
  ASSUME NEW m \in Memory, NEW p \in Proc
  PROVE  SameDead(UnlinkedChild(m, p), m)
BY UnlinkedChildKeeps DEF SameDead, Dead, SameMode, SameFixed

LEMMA LinkedChildDead ==
  ASSUME NEW m \in Memory, NEW root \in Proc, NEW child \in Proc
  PROVE  SameDead(LinkedChild(m, root, child), m)
<1> DEFINE v == LinkedChild(m, root, child)
<1>1. \A x \in Proc : SameMode(v[x], m[x]) /\ SameFixed(v[x], m[x])
  BY LinkedChildFields
<1> HIDE DEF v
<1>2. SameDead(v, m)
  BY <1>1 DEF SameDead, Dead, SameMode, SameFixed
<1>3. QED
  BY <1>2 DEF v

LEMMA ChildrenKilledDead ==
  ASSUME NEW m \in Memory, NEW p \in Proc
  PROVE  MoreDead(ChildrenKilled(m, p), m)
BY ChildrenKilledFields DEF MoreDead, Dead, SameFixed

LEMMA KilledDead ==
  ASSUME NEW m \in Memory, NEW p \in Proc
  PROVE  MoreDead(Killed(m, p), m)
<1> DEFINE c == ChildrenKilled(m, p)
           u == UnlinkedChild(c, p)
           v == Killed(m, p)
<1>1. c \in Memory /\ MoreDead(c, m)
  BY ChildrenKilledDead, ChildrenKilledFields
<1>2. u \in Memory /\ SameDead(u, c)
  BY <1>1, UnlinkedChildDead, UnlinkedChildKeeps
<1>3. v = [x \in Proc |-> IF x = p THEN KillMarked(u[x]) ELSE u[x]]
  BY DEF Killed
<1> HIDE DEF c, u, v
<1>4. u[p] \in Struct
  BY <1>2 DEF Memory
<1>5. Dead(v[p]) /\ v[p].func = u[p].func
  BY <1>3, <1>4, KillMarkedMode DEF Dead, OnlyMode, SameFixed
<1>6. \A x \in Proc \ {p} : v[x] = u[x]
  BY <1>3
<1>7. MoreDead(v, m)
  BY <1>1, <1>2, <1>5, <1>6 DEF MoreDead, SameDead
<1>8. QED
  BY <1>7 DEF v

LEMMA WithModeMarks ==
  ASSUME NEW r \in Struct, NEW mode \in ExecMode, NEW t \in Int
  PROVE  WithMode(r, mode, t).exec_mode = mode /\ WithMode(r, mode, t).func = r.func
BY DEF WithMode, Struct

(* No wakeup and no sleep marks a process dead or revives one. *)
LEMMA WokenDead ==
  ASSUME NEW r \in Struct
  PROVE  (Dead(Woken(r)) <=> Dead(r)) /\ Woken(r).func = r.func
<1>1. r.sleep_time \in Int /\ "SLEEPING" \in ExecMode /\ "DEFAULT" \in ExecMode
  BY StructFields DEF ExecMode
<1>2. QED
  BY <1>1, WithModeMarks DEF Woken, Dead

LEMMA SleptDead ==
  ASSUME NEW r \in Struct, NEW t \in Int
  PROVE  (Dead(Slept(r, t)) <=> Dead(r)) /\ Slept(r, t).func = r.func
<1>1. r.sleep_time \in Int /\ "SLEEPING" \in ExecMode /\ "PAUSED" \in ExecMode
  BY StructFields DEF ExecMode
<1>2. QED
  BY <1>1, WithModeMarks DEF Slept, Dead

LEMMA TickedDead ==
  ASSUME NEW r \in Struct, time \in Int, ~ Dead(r)
  PROVE  ~ Dead(Ticked(r)) /\ Ticked(r).func = r.func
<1>1. /\ r.sleep_time \in Int /\ r.sleep_time - time \in Int
      /\ "SLEEPING" \in ExecMode /\ "DEFAULT" \in ExecMode
  BY StructFields DEF ExecMode
<1>2. \A t \in Int : /\ ~ Dead(WithMode(r, "SLEEPING", t))
                     /\ ~ Dead(WithMode(r, "DEFAULT", t))
                     /\ WithMode(r, "SLEEPING", t).func = r.func
                     /\ WithMode(r, "DEFAULT", t).func = r.func
  BY <1>1, WithModeMarks DEF Dead
<1>3. QED
  BY <1>1, <1>2 DEF Ticked

(* A process that is created or taken off the main list changes no mode. *)
LEMMA CreatedModes ==
  ASSUME proc \in Memory, top_process \in Ref, NEW p \in Proc,
         NEW prio \in Nat, NEW s \in Ref, s # p
  PROVE  LET v == CreatedProcess(p, prio, s) IN
         /\ v \in Memory /\ ~ Dead(v[p]) /\ v[p].func = "body"
         /\ \A x \in Proc \ {p} : /\ Dead(v[x]) <=> Dead(proc[x])
                                  /\ v[x].func = proc[x].func
<1> DEFINE v == CreatedProcess(p, prio, s)
<1>1. /\ v \in Memory /\ SameMode(v[p], Fresh(prio))
      /\ SameFixed(v[p], Fresh(prio))
      /\ \A x \in Proc \ {p} : /\ SameMode(v[x], proc[x])
                               /\ SameFixed(v[x], proc[x])
  BY CreatedFields
<1> HIDE DEF v
<1>2. Fresh(prio).exec_mode = "DEFAULT" /\ Fresh(prio).func = "body"
  BY DEF Fresh
<1>3. /\ v \in Memory /\ ~ Dead(v[p]) /\ v[p].func = "body"
      /\ \A x \in Proc \ {p} : /\ Dead(v[x]) <=> Dead(proc[x])
                               /\ v[x].func = proc[x].func
  BY <1>1, <1>2 DEF Dead, SameMode, SameFixed
<1>4. QED
  BY <1>3 DEF v

LEMMA UnlinkedProcessDead ==
  ASSUME NEW m \in Memory, NEW p \in Proc
  PROVE  SameDead(UnlinkedProcess(m, p), m)
<1>1. \A x \in Proc : /\ SameMode(UnlinkedProcess(m, p)[x], m[x])
                      /\ SameFixed(UnlinkedProcess(m, p)[x], m[x])
  BY UnlinkedProcessFields
<1>2. QED
  BY <1>1 DEF SameDead, Dead, SameMode, SameFixed
-----------------------------------------------------------------------------
(***************************************************************************)
(* What each step does to the marks.                                       *)
(***************************************************************************)
LEMMA CallsKeepDead ==
  ASSUME ProcInv,
         \/ \E root, child \in live : LinkChildProcess(root, child)
         \/ \E d \in Destructors : SetProcessDestruct(d)
         \/ TimesOut
  PROVE  SameDead(proc', proc) /\ CallOnStructs(proc')
<1>1. proc \in Memory /\ live \subseteq Proc
  BY Types
<1>2. ASSUME NEW m, CallOnStructs(m), SameDead(m, proc)
      PROVE  SameDead(proc', proc) /\ CallOnStructs(proc')
  BY <1>2 DEF CallOnStructs
<1>3. CASE \E root, child \in live : LinkChildProcess(root, child)
  <2>1. PICK root \in live, child \in live : LinkChildProcess(root, child)
    BY <1>3
  <2>2. SameDead(LinkedChild(proc, root, child), proc)
    BY <1>1, LinkedChildDead
  <2>3. QED
    BY <2>1, <2>2, <1>2 DEF LinkChildProcess
<1>4. CASE \E d \in Destructors : SetProcessDestruct(d)
  <2>1. PICK d \in Destructors : SetProcessDestruct(d)
    BY <1>4
  <2> DEFINE m == [proc EXCEPT ![current_process].destructor = d]
  <2>2. \A x \in Proc : /\ m[x].exec_mode = proc[x].exec_mode
                        /\ m[x].func = proc[x].func
    BY <1>1 DEF Memory, Struct
  <2>3. SameDead(m, proc)
    BY <2>2 DEF SameDead, Dead
  <2>4. CallOnStructs(m)
    BY <2>1 DEF SetProcessDestruct
  <2> HIDE DEF m
  <2>5. QED
    BY <2>3, <2>4, <1>2
<1>5. ASSUME NEW m, CallOnStructs(m),
             \A x \in Proc : \/ m[x] = proc[x]
                            \/ m[x] = Woken(proc[x])
                            \/ \E t \in Int : m[x] = Slept(proc[x], t)
      PROVE  SameDead(proc', proc) /\ CallOnStructs(proc')
  <2>1. ASSUME NEW x \in Proc
        PROVE  (Dead(m[x]) <=> Dead(proc[x])) /\ m[x].func = proc[x].func
    BY <1>1, <1>5, WokenDead, SleptDead DEF Memory
  <2>2. SameDead(m, proc)
    BY <2>1 DEF SameDead
  <2>3. QED
    BY <2>2, <1>5, <1>2
<1>6. CASE TimesOut
  <2>1. CASE \E p \in live : WakeupProcess(p)
    <3>1. PICK p \in live : WakeupProcess(p)
      BY <2>1
    <3> DEFINE m == [proc EXCEPT ![p] = Woken(@)]
    <3>2. \A x \in Proc : m[x] = proc[x] \/ m[x] = Woken(proc[x])
      BY <1>1 DEF Memory
    <3>3. CallOnStructs(m)
      BY <3>1 DEF WakeupProcess
    <3> HIDE DEF m
    <3>4. QED
      BY <3>2, <3>3, <1>5
  <2>2. CASE \E p \in live, t \in SleepTimes : SleepProcessP(p, t)
    <3>1. PICK p \in live, t \in SleepTimes : SleepProcessP(p, t)
      BY <2>2
    <3> DEFINE m == [proc EXCEPT ![p] = Slept(@, t)]
    <3>2. \A x \in Proc : m[x] = proc[x] \/ m[x] = Slept(proc[x], t)
      BY <1>1 DEF Memory
    <3>3. CallOnStructs(m) /\ t \in Int
      BY <3>1, TimesAssumption DEF SleepProcessP
    <3> HIDE DEF m
    <3>4. QED
      BY <3>2, <3>3, <1>5
  <2>3. ASSUME NEW lo \in Priorities, NEW hi \in Priorities,
               WakeupPrioProcess(lo, hi)
        PROVE  SameDead(proc', proc) /\ CallOnStructs(proc')
    <3> DEFINE m == [x \in Proc |-> IF x \in live /\ InRange(x, lo, hi)
                                    THEN Woken(proc[x]) ELSE proc[x]]
    <3>1. \A x \in Proc : m[x] = proc[x] \/ m[x] = Woken(proc[x])
      OBVIOUS
    <3>2. CallOnStructs(m)
      BY <2>3 DEF WakeupPrioProcess
    <3> HIDE DEF m
    <3>3. QED
      BY <3>1, <3>2, <1>5
  <2>4. ASSUME NEW lo \in Priorities, NEW hi \in Priorities,
               NEW t \in SleepTimes, SleepPrioProcess(lo, hi, t)
        PROVE  SameDead(proc', proc) /\ CallOnStructs(proc')
    <3> DEFINE m == [x \in Proc |-> IF x \in live /\ InRange(x, lo, hi)
                                    THEN Slept(proc[x], t) ELSE proc[x]]
    <3>1. \A x \in Proc : m[x] = proc[x] \/ m[x] = Slept(proc[x], t)
      OBVIOUS
    <3>2. CallOnStructs(m) /\ t \in Int
      BY <2>4, TimesAssumption DEF SleepPrioProcess
    <3> HIDE DEF m
    <3>3. QED
      BY <3>1, <3>2, <1>5
  <2>5. QED
    BY <1>6, <2>1, <2>2, <2>3, <2>4 DEF TimesOut
<1>7. QED
  BY <1>3, <1>4, <1>6

LEMMA KillsMark ==
  ASSUME ProcInv,
         \/ \E p \in live : KillChildProcess(p)
         \/ \E p \in live : KillProcess(p)
         \/ KillPrioIteration
  PROVE  /\ MoreDead(proc', proc)
         /\ UNCHANGED <<rtVars, listVars, heapVars, cont, pc>>
         /\ pc \in {"idle", "process", "sweep"}
<1>1. proc \in Memory /\ live \subseteq Proc
  BY Types
<1>2. CASE \E p \in live : KillChildProcess(p)
  BY <1>1, <1>2, ChildrenKilledDead
     DEF KillChildProcess, CallOnStructs, CallLeaves, Calling, InCode
<1>3. CASE \E p \in live : KillProcess(p)
  BY <1>1, <1>3, KilledDead
     DEF KillProcess, CallOnStructs, CallLeaves, Calling, InCode
<1>4. CASE KillPrioIteration
  <2>1. sweep.at \in Proc
    BY <1>4, Types DEF KillPrioIteration, ProcInv, CursorLive, Listed
  <2>2. MoreDead(Killed(proc, sweep.at), proc) /\ MoreDead(proc, proc)
    BY <1>1, <2>1, KilledDead DEF MoreDead
  <2>3. QED
    BY <1>4, <2>2 DEF KillPrioIteration
<1>5. QED
  BY <1>2, <1>3, <1>4
(* A pass, and the loop of KillPrioProcess as such, mark and free nothing. *)
LEMMA PassesKeepDead ==
  ASSUME ProcInv,
         \/ InitProcess
         \/ \E lo, hi \in Priorities : lo <= hi /\ KillPrioProcess(lo, hi)
         \/ KillPrioReturn
         \/ \E t \in Ticks : CallProcess(t)
         \/ PassEnds
         \/ VisitPaused \/ VisitSleeping \/ VisitWatching \/ VisitWatched
         \/ VisitDefault \/ RunProcess \/ ProcessYielded
  PROVE  SameDead(proc', proc) /\ live' = live
<1>1. proc \in Memory
  BY Types
<1>2. CASE proc' = proc /\ live' = live
  BY <1>2 DEF SameDead
<1>3. ASSUME NEW mode \in ExecMode, Visits(mode)
      PROVE  /\ current_process \in Proc /\ live' = live
             /\ proc[current_process].exec_mode = mode
             /\ time \in Int
  BY <1>3, Types DEF Visits, listVars, ProcInv, TypeOK
<1>4. ASSUME NEW s, current_process \in Proc, live' = live,
             proc' = [proc EXCEPT ![current_process] = s],
             Dead(s) <=> Dead(proc[current_process]),
             s.func = proc[current_process].func
      PROVE  SameDead(proc', proc) /\ live' = live
  BY <1>1, <1>4 DEF SameDead, Memory
<1>5. CASE VisitSleeping
  <2>1. Visits("SLEEPING") /\ "SLEEPING" \in ExecMode
        /\ proc' = [proc EXCEPT ![current_process] = Ticked(@)]
    BY <1>5 DEF VisitSleeping, ExecMode
  <2>2. /\ ~ Dead(proc[current_process]) /\ ~ Dead(Ticked(proc[current_process]))
        /\ Ticked(proc[current_process]).func = proc[current_process].func
    BY <1>1, <1>3, <2>1, TickedDead DEF Dead, Memory
  <2>3. QED
    BY <1>3, <1>4, <2>1, <2>2
<1>6. CASE VisitWatched
  <2>1. Visits("WATCH") /\ "WATCH" \in ExecMode
        /\ proc' = [proc EXCEPT ![current_process].exec_mode = "DEFAULT"]
    BY <1>6 DEF VisitWatched, ExecMode
  <2> DEFINE s == [proc[current_process] EXCEPT !.exec_mode = "DEFAULT"]
  <2>2. /\ ~ Dead(proc[current_process]) /\ ~ Dead(s)
        /\ s.func = proc[current_process].func
    BY <1>1, <1>3, <2>1 DEF Dead, Memory, Struct
  <2>3. proc' = [proc EXCEPT ![current_process] = s]
    BY <2>1
  <2> HIDE DEF s
  <2>4. QED
    BY <1>3, <1>4, <2>1, <2>2, <2>3
<1>8. CASE InitProcess \/ ProcessYielded \/ PassEnds
           \/ (\E lo, hi \in Priorities : lo <= hi /\ KillPrioProcess(lo, hi))
           \/ KillPrioReturn \/ \E t \in Ticks : CallProcess(t)
  BY <1>2, <1>8 DEF InitProcess, ProcessYielded, PassEnds, KillPrioProcess,
       KillPrioReturn, CallProcess, listVars
<1>9. CASE VisitPaused \/ VisitWatching \/ VisitDefault \/ RunProcess
  BY <1>2, <1>9 DEF VisitPaused, VisitWatching, VisitDefault, RunProcess,
       Visits, listVars
<1>10. QED
  BY <1>5, <1>6, <1>8, <1>9

LEMMA DropsDead ==
  ASSUME ProcInv, VisitDead
  PROVE  /\ current_process \in Proc /\ Dead(proc[current_process])
         /\ proc'[current_process].func = "EndProcess"
         /\ \A x \in Proc : Dead(proc'[x]) <=> Dead(proc[x])
         /\ \A x \in Proc \ {current_process} : proc'[x] = proc[x]
         /\ live' = live
<1>1. /\ proc \in Memory /\ current_process \in Proc /\ live' = live
      /\ Dead(proc[current_process])
      /\ proc' = [proc EXCEPT ![current_process].func = "EndProcess"]
  BY Types DEF VisitDead, Visits, listVars, Dead
<1>2. QED
  BY <1>1 DEF Memory, Struct, Dead

LEMMA CreatesDead ==
  ASSUME ProcInv, Creates
  PROVE  \E p \in Proc \ live :
           /\ live' = live \cup {p}
           /\ ~ Dead(proc'[p]) /\ proc'[p].func = "body"
           /\ \A x \in Proc \ {p} : /\ Dead(proc'[x]) <=> Dead(proc[x])
                                    /\ proc'[x].func = proc[x].func
           /\ UNCHANGED <<rtVars, heapVars, cont, pc>>
           /\ pc \in {"idle", "process"}
<1>1. proc \in Memory /\ live \subseteq Proc /\ top_process \in Ref
  BY Types
<1>2. PICK p \in Proc, prio \in Priorities, s \in live \cup {NULL} :
        /\ Allocates(p, prio, s)
        /\ \/ proc' = CreatedProcess(p, prio, s)
           \/ \E root \in live :
                proc' = LinkedChild(CreatedProcess(p, prio, s), root, p)
  BY DEF Creates, CreateProcess, CreateChildProcess
<1>3. /\ p \notin live /\ live' = live \cup {p}
      /\ pc \in {"idle", "process"} /\ UNCHANGED <<rtVars, heapVars, cont, pc>>
  BY <1>2 DEF Allocates, CallLeaves, Calling, InCode
<1> DEFINE v == CreatedProcess(p, prio, s)
<1>4. /\ v \in Memory /\ ~ Dead(v[p]) /\ v[p].func = "body"
      /\ \A x \in Proc \ {p} : /\ Dead(v[x]) <=> Dead(proc[x])
                               /\ v[x].func = proc[x].func
  <2>1. prio \in Nat /\ s \in Ref /\ s # p
    BY <1>1, <1>3, PrioritiesAssumption, RuntimeAssumption DEF Ref
  <2>2. QED
    BY <1>1, <2>1, CreatedModes
<1>5. SameDead(proc', v)
  BY <1>1, <1>2, <1>4, LinkedChildDead DEF SameDead
<1> HIDE DEF v
<1>6. QED
  BY <1>3, <1>4, <1>5 DEF SameDead

(* The running process puts itself to sleep, ends, or starts to watch; only a
   watch takes a mark off, and only the process's own. *)
LEMMA SleepsDead ==
  ASSUME ProcInv, NEW t \in SleepTimes \cup {0}, SleepProcess(t)
  PROVE  SameDead(proc', proc) /\ live' = live
<1>1. proc \in Memory /\ t \in Int /\ current_process \in Proc
  BY Types, TimesAssumption DEF SleepProcess, MayYield, InCode, ProcInv, ControlOK
<1> DEFINE s == WithMode(proc[current_process], "SLEEPING", t)
<1>2. ~ Dead(s) /\ s.func = proc[current_process].func
  BY <1>1, WithModeMarks DEF Memory, ExecMode, Dead
<1>3. \/ proc' = proc
      \/ /\ ~ Dead(proc[current_process])
         /\ proc' = [proc EXCEPT ![current_process] = s]
  BY DEF SleepProcess, Dead
<1> HIDE DEF s
<1>4. QED
  BY <1>1, <1>2, <1>3 DEF SleepProcess, SameDead, Memory, listVars

LEMMA WatchesDead ==
  ASSUME ProcInv, WatchChildProcess
  PROVE  /\ current_process \in Proc /\ current_process = current_slot
         /\ proc'[current_process].exec_mode = "WATCH"
         /\ \A x \in Proc \ {current_process} : proc'[x] = proc[x]
         /\ live' = live
<1>1. /\ proc \in Memory /\ current_process \in Proc
      /\ current_process = current_slot
  BY Types DEF WatchChildProcess, MayYield, InCode, ProcInv, ControlOK
<1>2. /\ live' = live
      /\ proc' = [proc EXCEPT ![current_process].exec_mode = "WATCH"]
  BY DEF WatchChildProcess, listVars
<1>3. QED
  BY <1>1, <1>2 DEF Memory, Struct

LEMMA EndsDead ==
  ASSUME ProcInv, EndProcess \/ DestructorReturns
  PROVE  MoreDead(proc', proc) /\ live' = live
<1>1. proc \in Memory /\ current_process \in Proc
  BY Types DEF EndProcess, DestructorReturns, ProcInv, ControlOK
<1> DEFINE c == ChildrenKilled(proc, current_process)
           m == UnlinkedChild(c, current_process)
<1>2. c \in Memory /\ MoreDead(c, proc)
  BY <1>1, ChildrenKilledDead, ChildrenKilledFields
<1>3. m \in Memory /\ SameDead(m, c)
  BY <1>1, <1>2, UnlinkedChildDead, UnlinkedChildKeeps
<1>4. m \in Memory /\ MoreDead(m, proc)
  BY <1>2, <1>3 DEF MoreDead, SameDead
<1>5. \/ proc' = m /\ live' = live
      \/ Terminates(m)
      \/ Terminates(proc)
  BY DEF EndProcess, DestructorReturns, listVars
<1> HIDE DEF m, c
<1>6. SameDead(UnlinkedProcess(m, current_process), m)
      /\ SameDead(UnlinkedProcess(proc, current_process), proc)
  BY <1>1, <1>4, UnlinkedProcessDead
<1>7. QED
  BY <1>4, <1>5, <1>6 DEF Terminates, SameDead, MoreDead
-----------------------------------------------------------------------------
LEMMA ProcAlways == Spec => []ProcInv
BY ProcInit, ProcStep, ProcStutter, PTL DEF Spec

(* KillSticks, for every number of processes: whatever the code does, a
   process once marked dead stays so until its struct is freed, but for its own
   WatchChildProcess. *)
THEOREM KillsAreFinal == Spec => KillSticks
<1> DEFINE Final == \A p \in live \cap live' :
                      proc[p].exec_mode = "DEAD" =>
                        \/ proc'[p].exec_mode = "DEAD"
                        \/ proc'[p].exec_mode = "WATCH" /\ current_slot = p
<1>1. ASSUME ProcInv, [Next]_vars
      PROVE  Final
  <2>1. live \subseteq Proc
    BY <1>1, Types
  <2>2. CASE MoreDead(proc', proc) \/ SameDead(proc', proc)
    BY <2>1, <2>2 DEF MoreDead, SameDead, Dead
  <2>3. CASE UNCHANGED vars
    BY <2>3 DEF vars
  <2>4. CASE Creates
    BY <1>1, <2>1, <2>4, CreatesDead DEF Dead
  <2>5. CASE Leaves
    BY <1>1, <2>1, <2>2, <2>5, SleepsDead, WatchesDead, EndsDead DEF Leaves
  <2>6. CASE ProcessTerminated
    BY <2>1, <2>6 DEF ProcessTerminated, Frees
  <2>7. CASE Kills \/ TimesOut \/ Relates
    BY <1>1, <2>2, <2>3, <2>7, CallsKeepDead, KillsMark, PassesKeepDead
       DEF Kills, KillNeverEnds, Relates
  <2>8. CASE InitProcess \/ Scheduler
    <3>1. CASE VisitDead
      BY <1>1, <2>1, <3>1, DropsDead DEF Dead
    <3>2. QED
      BY <1>1, <2>2, <2>6, <2>8, <3>1, PassesKeepDead DEF Scheduler
  <2>9. QED
    BY <1>1, <2>3, <2>4, <2>5, <2>7, <2>8 DEF Next
<1>2. QED
  BY <1>1, ProcAlways, PTL DEF Spec, KillSticks
-----------------------------------------------------------------------------
(***************************************************************************)
(* The lifecycle.                                                          *)
(***************************************************************************)

(* A process the scheduler is about to switch to has lost what it was in the
   middle of if it was killed; one that has not run yet will run its body unless
   it was; and a heap is pending only for a coroutine that has ended. *)
LifeMore ==
  /\ pc = "run" /\ Dead(proc[current_process]) =>
       /\ cont[current_process] = "none"
       /\ proc[current_process].func = "EndProcess"
  /\ \A p \in live : cont[p] = "none" /\ ~ Dead(proc[p]) => proc[p].func = "body"
  /\ pc = "returned" /\ yield_reason = "TERMINATE" =>
       /\ slots[current_process] # NoSlot
       /\ slots[current_process].state = "Dead"

LifeInv == ProcInv /\ LifeMore

LEMMA CallsKeepLife ==
  ASSUME LifeInv, live' = live, cont' = cont, MoreDead(proc', proc),
         pc' \notin {"run", "returned"}
  PROVE  LifeMore'
BY Types DEF LifeInv, LifeMore, MoreDead

LEMMA SameIsMore ==
  ASSUME NEW n, NEW m, SameDead(n, m)
  PROVE  MoreDead(n, m)
BY DEF SameDead, MoreDead

LEMMA PassesKeepLife ==
  ASSUME LifeInv, InitProcess \/ Scheduler
  PROVE  LifeMore'
<1>1. ProcInv /\ proc \in Memory /\ live \subseteq Proc
  BY Types DEF LifeInv
<1>2. CASE VisitWatched \/ VisitDefault
  <2>1. /\ current_process \in Proc /\ ~ Dead(proc[current_process])
        /\ UNCHANGED <<current_process, cont, live>> /\ pc' = "run"
    BY <1>1, <1>2, Types DEF VisitWatched, VisitDefault, Visits, Dead, listVars
  <2>2. SameDead(proc', proc)
    BY <1>1, <1>2, PassesKeepDead
  <2>3. QED
    BY <1>1, <2>1, <2>2 DEF LifeInv, LifeMore, SameDead
<1>3. CASE VisitDead
  <2>1. /\ cont' = [cont EXCEPT ![current_process] = "none"] /\ pc' = "run"
        /\ current_process' = current_process
    BY <1>3 DEF VisitDead
  <2>2. cont \in [Proc -> Continuation]
    BY <1>1 DEF ProcInv, TypeOK
  <2>3. /\ cont'[current_process] = "none"
        /\ \A x \in Proc \ {current_process} : cont'[x] = cont[x]
    BY <1>1, <1>3, <2>1, <2>2, DropsDead
  <2>4. QED
    BY <1>1, <1>3, <2>1, <2>3, DropsDead DEF LifeInv, LifeMore
<1>4. CASE RunProcess
  <2>1. /\ pc' = "process" /\ proc' = proc /\ live' = live
        /\ cont' = [cont EXCEPT ![current_process] =
                      IF @ = "none" THEN proc[current_process].func ELSE @]
    BY <1>4 DEF RunProcess, listVars
  <2>2. cont \in [Proc -> Continuation] /\ current_process \in Proc
        /\ proc[current_process].func # "none"
    BY <1>1, <1>4, ResumeAllowed, EntryAssumption DEF ProcInv, TypeOK, RunProcess
  <2>3. \A x \in Proc : cont'[x] = "none" => cont[x] = "none"
    BY <2>1, <2>2
  <2>4. QED
    BY <1>1, <2>1, <2>3 DEF LifeInv, LifeMore
<1>5. CASE ProcessTerminated
  <2>1. /\ live' = live \ {g_pending_heap_free} /\ pc' = "loop"
        /\ \A x \in Proc \ {g_pending_heap_free} : proc'[x] = proc[x]
        /\ cont' = [cont EXCEPT ![current_process] = "none"]
        /\ g_pending_heap_free = current_process
    BY <1>1, <1>5 DEF ProcessTerminated, Frees, ProcInv, ControlOK
  <2>2. cont \in [Proc -> Continuation]
    BY <1>1 DEF ProcInv, TypeOK
  <2>3. \A x \in Proc \ {current_process} : cont'[x] = cont[x]
    BY <2>1, <2>2
  <2>4. QED
    BY <1>1, <2>1, <2>3 DEF LifeInv, LifeMore
<1>6. CASE InitProcess \/ ProcessYielded \/ PassEnds
           \/ \E t \in Ticks : CallProcess(t)
  <2>1. SameDead(proc', proc) /\ live' = live
    BY <1>1, <1>6, PassesKeepDead
  <2>2. pc' \in {"idle", "loop"} /\ cont' = cont
    BY <1>6 DEF InitProcess, ProcessYielded, PassEnds, CallProcess
  <2>3. QED
    BY <2>1, <2>2, SameIsMore, CallsKeepLife
<1>7. CASE VisitPaused \/ VisitSleeping \/ VisitWatching
  <2>1. SameDead(proc', proc) /\ live' = live
    BY <1>1, <1>7, PassesKeepDead
  <2>2. pc' = "loop" /\ cont' = cont
    BY <1>7 DEF VisitPaused, VisitSleeping, VisitWatching, Visits, StepsOver
  <2>3. QED
    BY <2>1, <2>2, SameIsMore, CallsKeepLife
<1>8. QED
  BY <1>2, <1>3, <1>4, <1>5, <1>6, <1>7 DEF Scheduler
LEMMA CreatesKeepLife ==
  ASSUME LifeInv, Creates
  PROVE  LifeMore'
<1>1. ProcInv
  BY DEF LifeInv
<1>2. PICK p \in Proc \ live :
        /\ live' = live \cup {p}
        /\ ~ Dead(proc'[p]) /\ proc'[p].func = "body"
        /\ \A x \in Proc \ {p} : /\ Dead(proc'[x]) <=> Dead(proc[x])
                                 /\ proc'[x].func = proc[x].func
        /\ UNCHANGED <<rtVars, heapVars, cont, pc>>
        /\ pc \in {"idle", "process"}
  BY <1>1, CreatesDead
<1>3. QED
  BY <1>1, <1>2, Types DEF LifeInv, LifeMore

LEMMA LeavesKeepLife ==
  ASSUME LifeInv, Leaves
  PROVE  LifeMore'
<1>1. ProcInv /\ current_process \in Proc /\ pc = "process"
  BY Types DEF LifeInv, Leaves, SleepProcess, WatchChildProcess, MayYield, InCode,
       EndProcess, DestructorReturns, ProcInv, ControlOK
<1>2. cont \in [Proc -> Continuation] /\ slots \in [Proc -> Slot \cup {NoSlot}]
  BY <1>1 DEF ProcInv, TypeOK, RTTypeOK
<1>3. ASSUME NEW reason \in YieldReason, yield_to_scheduler(reason)
      PROVE  /\ pc' = "returned" /\ cont' = cont
             /\ current_process' = current_process /\ yield_reason' = reason
             /\ reason = "TERMINATE" =>
                  /\ slots'[current_process] # NoSlot
                  /\ slots'[current_process].state = "Dead"
  BY <1>1, <1>2, <1>3, YieldFacts, SlotValues DEF yield_to_scheduler, passVars
<1>4. cont[current_process] # "none"
  BY <1>1, RuntimeAssumption
     DEF ProcInv, ControlOK, SlotsMatchProcesses, RTInv, OnlyCurrentRuns
<1>5. "NORMAL" \in YieldReason /\ "TERMINATE" \in YieldReason
  BY DEF YieldReason
<1>6. CASE \E t \in SleepTimes \cup {0} : SleepProcess(t)
  BY <1>1, <1>3, <1>5, <1>6, SleepsDead, Types
     DEF SleepProcess, LifeInv, LifeMore, SameDead
<1>7. CASE WatchChildProcess
  BY <1>1, <1>3, <1>4, <1>5, <1>7, WatchesDead, Types
     DEF WatchChildProcess, LifeInv, LifeMore
<1>8. CASE EndProcess \/ DestructorReturns
  <2>1. MoreDead(proc', proc) /\ live' = live
    BY <1>1, <1>8, EndsDead
  <2>2. \/ yield_to_scheduler("TERMINATE")
        \/ /\ cont' = [cont EXCEPT ![current_process] = "destructor"]
           /\ pc' = pc
    BY <1>8 DEF EndProcess, DestructorReturns, Terminates
  <2>3. CASE yield_to_scheduler("TERMINATE")
    BY <1>1, <1>3, <1>5, <2>1, <2>3, Types DEF LifeInv, LifeMore, MoreDead
  <2>4. CASE /\ cont' = [cont EXCEPT ![current_process] = "destructor"]
             /\ pc' = pc
    <3>1. \A x \in Proc : cont'[x] = "none" => cont[x] = "none"
      BY <1>2, <2>4
    <3>2. QED
      BY <1>1, <2>1, <2>4, <3>1, Types DEF LifeInv, LifeMore, MoreDead
  <2>5. QED
    BY <2>2, <2>3, <2>4
<1>9. QED
  BY <1>6, <1>7, <1>8 DEF Leaves

LEMMA LifeStep ==
  ASSUME LifeInv, [Next]_vars
  PROVE  LifeInv'
<1>1. ProcInv /\ ProcInv'
  BY ProcStep, ProcStutter DEF LifeInv
<1>2. CASE UNCHANGED vars
  BY <1>1, <1>2 DEF LifeInv, LifeMore, Dead, vars, rtVars, listVars, passVars
<1>3. CASE Kills \/ TimesOut \/ Relates
  <2>1. CASE \/ \E root, child \in live : LinkChildProcess(root, child)
             \/ \E d \in Destructors : SetProcessDestruct(d)
             \/ TimesOut
    <3>1. SameDead(proc', proc) /\ CallOnStructs(proc')
      BY <1>1, <2>1, CallsKeepDead
    <3>2. live' = live /\ cont' = cont /\ pc' \notin {"run", "returned"}
      BY <3>1 DEF CallOnStructs, CallLeaves, Calling, InCode, listVars
    <3>3. QED
      BY <1>1, <3>1, <3>2, SameIsMore, CallsKeepLife DEF LifeInv
  <2>2. CASE \/ \E p \in live : KillChildProcess(p)
             \/ \E p \in live : KillProcess(p)
             \/ KillPrioIteration
    BY <1>1, <2>2, KillsMark, CallsKeepLife DEF LifeInv, listVars
  <2>3. CASE \/ \E lo, hi \in Priorities : lo <= hi /\ KillPrioProcess(lo, hi)
             \/ KillPrioReturn
    <3>1. SameDead(proc', proc) /\ live' = live
      BY <1>1, <2>3, PassesKeepDead
    <3>2. cont' = cont /\ pc' \notin {"run", "returned"}
      BY <2>3 DEF KillPrioProcess, KillPrioReturn
    <3>3. QED
      BY <1>1, <3>1, <3>2, SameIsMore, CallsKeepLife DEF LifeInv
  <2>4. QED
    BY <1>2, <1>3, <2>1, <2>2, <2>3 DEF Kills, KillNeverEnds, Relates
<1>4. QED
  BY <1>1, <1>2, <1>3, PassesKeepLife, CreatesKeepLife, LeavesKeepLife
     DEF Next, LifeInv

LEMMA LifeStart ==
  ASSUME Init
  PROVE  LifeInv
BY ProcInit DEF Init, LifeInv, LifeMore
-----------------------------------------------------------------------------
(* What a user sees, read off the invariant: only a process whose heap is pending
   has exited. *)
Seen(p) ==
  CASE p \notin live -> "free"
    [] p \in live /\ p = g_pending_heap_free -> "exited"
    [] p \in live /\ p # g_pending_heap_free /\ Dead(proc[p]) -> "killed"
    [] p \in live /\ p # g_pending_heap_free /\ ~ Dead(proc[p]) -> "alive"

AllSeen == \A p \in Proc : StatusOf(p) = Seen(p)

LEMMA StatusSeen == LifeInv => AllSeen
<1> SUFFICES ASSUME LifeInv, NEW p \in Proc
             PROVE  StatusOf(p) = Seen(p)
  BY DEF AllSeen
<1>1. slots[p] # NoSlot /\ slots[p].state = "Dead" => p = g_pending_heap_free
  BY DEF LifeInv, ProcInv, SlotsMatchProcesses
<1>2. p \in live /\ p = g_pending_heap_free =>
        slots[p] # NoSlot /\ slots[p].state = "Dead"
  BY Types DEF LifeInv, LifeMore, ProcInv, ControlOK
<1>3. QED
  BY <1>1, <1>2 DEF StatusOf, Seen, Listed, Dead
LEMMA StatusSeenNext == LifeInv' => AllSeen'
BY StatusSeen, PTL

LEMMA NoneHasExited ==
  ASSUME LifeInv, g_pending_heap_free = NULL
  PROVE  Lifecycle!NoneExited
BY StatusSeen, RuntimeAssumption DEF AllSeen, Seen, Lifecycle!NoneExited

(* A step that at most marks processes dead is a kill, of none if it marks none. *)
LEMMA KillsMap ==
  ASSUME LifeInv, LifeInv', MoreDead(proc', proc), live' = live, cont' = cont,
         current_slot' = current_slot,
         g_pending_heap_free = NULL, g_pending_heap_free' = NULL
  PROVE  Lifecycle!LifeNext
<1> DEFINE S == {p \in live : ~ Dead(proc[p]) /\ Dead(proc'[p])}
<1>1. /\ live \subseteq Proc /\ NULL \notin live
      /\ \A p \in Proc : CodeOf(p)' = CodeOf(p)
  BY Types DEF LifeInv, CodeOf
<1>2. /\ \A p \in Proc : StatusOf(p) = Seen(p)
      /\ \A p \in Proc : StatusOf(p)' = Seen(p)'
  BY StatusSeen, StatusSeenNext DEF AllSeen
<1>3. \A p \in Proc : StatusOf(p)' = IF p \in S THEN "killed" ELSE StatusOf(p)
  BY <1>1, <1>2 DEF Seen, MoreDead
<1>4. S \in SUBSET Lifecycle!Alive
  BY <1>1, <1>2 DEF Seen, Lifecycle!Alive
<1> HIDE DEF S
<1>5. Lifecycle!Kill(S)
  BY <1>1, <1>3, NoneHasExited DEF Lifecycle!Kill, Lifecycle!WithKilled
<1>6. QED
  BY <1>4, <1>5 DEF Lifecycle!LifeNext

LEMMA CreatesMap ==
  ASSUME LifeInv, LifeInv', Creates
  PROVE  Lifecycle!LifeNext
<1>1. ProcInv
  BY DEF LifeInv
<1>2. PICK p \in Proc \ live :
        /\ live' = live \cup {p}
        /\ ~ Dead(proc'[p]) /\ proc'[p].func = "body"
        /\ \A x \in Proc \ {p} : /\ Dead(proc'[x]) <=> Dead(proc[x])
                                 /\ proc'[x].func = proc[x].func
        /\ UNCHANGED <<rtVars, heapVars, cont, pc>>
        /\ pc \in {"idle", "process"}
  BY <1>1, CreatesDead
<1>3. /\ g_pending_heap_free = NULL /\ g_pending_heap_free' = NULL
      /\ current_slot' = current_slot
      /\ live \subseteq Proc /\ NULL \notin Proc
      /\ \A x \in Proc : CodeOf(x)' = CodeOf(x)
  BY <1>1, <1>2, Types DEF ProcInv, ControlOK, heapVars, rtVars, CodeOf
<1>4. \A x \in Proc : StatusOf(x) = Seen(x) /\ StatusOf(x)' = Seen(x)'
  BY StatusSeen, StatusSeenNext DEF AllSeen
<1>5. /\ StatusOf(p) = "free"
      /\ \A x \in Proc : StatusOf(x)' = IF x = p THEN "alive" ELSE StatusOf(x)
  BY <1>2, <1>3, <1>4 DEF Seen
<1>6. Lifecycle!Create(p)
  BY <1>3, <1>5, NoneHasExited DEF Lifecycle!Create
<1>7. QED
  BY <1>6 DEF Lifecycle!LifeNext
LEMMA DropsMap ==
  ASSUME LifeInv, LifeInv', VisitDead
  PROVE  Lifecycle!LifeNext
<1>1. ProcInv /\ cont \in [Proc -> Continuation] /\ NULL \notin Proc
  BY Types DEF LifeInv, ProcInv, TypeOK
<1>2. /\ current_process \in Proc /\ current_process \in live
      /\ current_slot = NULL /\ current_slot' = NULL
      /\ g_pending_heap_free = NULL /\ g_pending_heap_free' = NULL
      /\ cont' = [cont EXCEPT ![current_process] = "none"]
  BY <1>1, Types
     DEF VisitDead, Visits, heapVars, recomp_process_destroy, Fatal,
         ProcInv, ControlOK, CursorLive
<1>3. /\ StatusOf(current_process) = "killed"
      /\ \A x \in Proc : StatusOf(x)' = StatusOf(x)
  BY <1>1, <1>2, DropsDead, StatusSeen, StatusSeenNext DEF AllSeen, Seen
<1>4. \A x \in Proc : CodeOf(x)' = IF x = current_process THEN "none" ELSE CodeOf(x)
  BY <1>1, <1>2 DEF CodeOf
<1>5. Lifecycle!Drop(current_process)
  BY <1>2, <1>3, <1>4, NoneHasExited DEF Lifecycle!Drop
<1>6. QED
  BY <1>2, <1>5 DEF Lifecycle!LifeNext

LEMMA RunsMap ==
  ASSUME LifeInv, LifeInv', RunProcess
  PROVE  Lifecycle!LifeNext
<1> DEFINE e == proc[current_process].func
<1>1. ProcInv /\ cont \in [Proc -> Continuation] /\ NULL \notin Proc
  BY Types DEF LifeInv, ProcInv, TypeOK
<1>2. /\ current_process \in Proc /\ current_process \in live
      /\ current_slot = NULL /\ current_slot' = current_process
      /\ g_pending_heap_free = NULL /\ g_pending_heap_free' = NULL
      /\ e \in {"body", "EndProcess"}
      /\ cont' = [cont EXCEPT ![current_process] = IF @ = "none" THEN e ELSE @]
      /\ proc' = proc /\ live' = live
  BY <1>1, ResumeAllowed, EntryAssumption
     DEF RunProcess, recomp_process_resume, listVars, ProcInv, ControlOK
<1>3. /\ \A x \in Proc : StatusOf(x)' = StatusOf(x)
      /\ StatusOf(current_process) =
           IF Dead(proc[current_process]) THEN "killed" ELSE "alive"
  BY <1>1, <1>2, StatusSeen, StatusSeenNext DEF AllSeen, Seen
<1>4. /\ Dead(proc[current_process]) => cont[current_process] = "none"
      /\ cont[current_process] = "none" =>
           e = IF Dead(proc[current_process]) THEN "EndProcess" ELSE "body"
  BY <1>2 DEF LifeInv, LifeMore, RunProcess
<1> HIDE DEF e
<1>5. \A x \in Proc \ {current_process} : CodeOf(x)' = CodeOf(x)
  BY <1>1, <1>2 DEF CodeOf
<1>6. /\ CodeOf(current_process) = "none" <=> cont[current_process] = "none"
      /\ \A x \in Proc : x = current_process =>
           CodeOf(x)' = IF cont[x] # "none" THEN CodeOf(x)
                        ELSE IF Dead(proc[x]) THEN "end" ELSE "body"
  BY <1>1, <1>2, <1>4 DEF CodeOf
<1>7. Lifecycle!Run(current_process)
  BY <1>2, <1>3, <1>4, <1>5, <1>6, NoneHasExited DEF Lifecycle!Run
<1>8. QED
  BY <1>2, <1>7 DEF Lifecycle!LifeNext

LEMMA ReapsMap ==
  ASSUME LifeInv, LifeInv', ProcessTerminated
  PROVE  Lifecycle!LifeNext
<1>1. /\ ProcInv /\ cont \in [Proc -> Continuation] /\ NULL \notin Proc
      /\ live \subseteq Proc
  BY Types DEF LifeInv, ProcInv, TypeOK
<1>2. /\ current_process \in Proc /\ current_process \in live
      /\ current_slot = NULL /\ current_slot' = NULL
      /\ g_pending_heap_free = current_process /\ g_pending_heap_free' = NULL
      /\ cont' = [cont EXCEPT ![current_process] = "none"]
      /\ live' = live \ {current_process}
      /\ \A x \in Proc \ {current_process} : proc'[x] = proc[x]
  BY <1>1, Types
     DEF ProcessTerminated, Frees, recomp_process_destroy, Fatal,
         ProcInv, ControlOK, CursorLive
<1>3. /\ StatusOf(current_process) = "exited"
      /\ \A x \in Proc :
           StatusOf(x)' = IF x = current_process THEN "free" ELSE StatusOf(x)
  BY <1>1, <1>2, StatusSeen, StatusSeenNext DEF AllSeen, Seen
<1>4. \A x \in Proc : CodeOf(x)' = IF x = current_process THEN "none" ELSE CodeOf(x)
  BY <1>1, <1>2 DEF CodeOf
<1>5. Lifecycle!Reap(current_process)
  BY <1>2, <1>3, <1>4 DEF Lifecycle!Reap
<1>6. QED
  BY <1>2, <1>5 DEF Lifecycle!LifeNext

(* The three ways out of a coroutine. *)
LEMMA LeavesMap ==
  ASSUME LifeInv, LifeInv', Leaves
  PROVE  Lifecycle!LifeNext
<1>1. /\ ProcInv /\ cont \in [Proc -> Continuation] /\ NULL \notin Proc
      /\ live \subseteq Proc
  BY Types DEF LifeInv, ProcInv, TypeOK
<1>2. /\ pc = "process" /\ current_slot = current_process
      /\ current_process \in Proc /\ current_process \in live
      /\ g_pending_heap_free = NULL
  BY <1>1, Types
     DEF Leaves, SleepProcess, WatchChildProcess, MayYield, InCode, EndProcess,
         DestructorReturns, ProcInv, ControlOK, CursorLive
<1>3. \A x \in Proc : StatusOf(x) = Seen(x) /\ StatusOf(x)' = Seen(x)'
  BY StatusSeen, StatusSeenNext DEF AllSeen
<1>4. ASSUME NEW reason, yield_to_scheduler(reason)
      PROVE  current_slot' = NULL /\ \A x \in Proc : CodeOf(x)' = CodeOf(x)
  BY <1>1, <1>2, <1>4 DEF yield_to_scheduler, recomp_process_yield, CodeOf
<1>5. CASE (\E t \in SleepTimes \cup {0} : SleepProcess(t)) \/ WatchChildProcess
  <2>1. /\ yield_to_scheduler("NORMAL") /\ live' = live
        /\ g_pending_heap_free' = NULL
    BY <1>2, <1>5 DEF SleepProcess, WatchChildProcess, listVars
  <2>2. \/ SameDead(proc', proc)
        \/ /\ ~ Dead(proc'[current_process])
           /\ \A x \in Proc \ {current_process} : proc'[x] = proc[x]
    BY <1>1, <1>5, SleepsDead, WatchesDead DEF Dead
  <2>3. \/ \A x \in Proc : StatusOf(x)' = StatusOf(x)
        \/ \A x \in Proc :
             StatusOf(x)' = IF x = current_process THEN "alive" ELSE StatusOf(x)
    BY <1>1, <1>2, <1>3, <2>1, <2>2 DEF Seen, SameDead
  <2>4. Lifecycle!Pause
    BY <1>1, <1>2, <1>4, <2>1, <2>3 DEF Lifecycle!Pause
  <2>5. QED
    BY <2>4 DEF Lifecycle!LifeNext
<1>6. CASE EndProcess \/ DestructorReturns
  <2> DEFINE S == {p \in live : ~ Dead(proc[p]) /\ Dead(proc'[p])}
  <2>1. MoreDead(proc', proc) /\ live' = live
    BY <1>1, <1>6, EndsDead
  <2>2. S \in SUBSET Lifecycle!Alive
    BY <1>1, <1>2, <1>3 DEF Seen, Lifecycle!Alive
  <2>3. \A x \in Proc \ {g_pending_heap_free'} :
          StatusOf(x)' = IF x \in S THEN "killed" ELSE StatusOf(x)
    BY <1>1, <1>2, <1>3, <2>1 DEF Seen, MoreDead
  <2>4. CASE yield_to_scheduler("TERMINATE")
             /\ g_pending_heap_free' = current_process
    <3>1. \A x \in Proc : x = current_process => StatusOf(x)' = "exited"
      BY <1>2, <1>3, <2>1, <2>4 DEF Seen
    <3> HIDE DEF S
    <3>2. Lifecycle!Exit(S)
      BY <1>1, <1>2, <1>4, <2>3, <2>4, <3>1
         DEF Lifecycle!Exit, Lifecycle!WithKilled
    <3>3. QED
      BY <2>2, <3>2 DEF Lifecycle!LifeNext
  <2>5. CASE /\ cont' = [cont EXCEPT ![current_process] = "destructor"]
             /\ UNCHANGED <<rtVars, heapVars>>
    <3>1. /\ g_pending_heap_free' = NULL /\ current_slot' = current_slot
          /\ \A x \in Proc :
               CodeOf(x)' = IF x = current_process THEN "end" ELSE CodeOf(x)
      BY <1>1, <1>2, <2>5 DEF CodeOf, rtVars, heapVars
    <3> HIDE DEF S
    <3>2. Lifecycle!BeginEnd(S)
      BY <1>1, <1>2, <2>3, <3>1 DEF Lifecycle!BeginEnd, Lifecycle!WithKilled
    <3>3. QED
      BY <2>2, <3>2 DEF Lifecycle!LifeNext
  <2>6. QED
    BY <1>6, <2>4, <2>5 DEF EndProcess, DestructorReturns, Terminates
<1>7. QED
  BY <1>5, <1>6 DEF Leaves
LEMMA LifeStarts ==
  ASSUME Init
  PROVE  Lifecycle!LifeInit
<1>1. live = {} /\ current_slot = NULL /\ \A p \in Proc : cont[p] = "none"
  BY DEF Init, RTInit
<1>2. \A p \in Proc : StatusOf(p) = "free"
  BY <1>1, LifeStart, StatusSeen DEF AllSeen, Seen
<1>3. \A p \in Proc : CodeOf(p) = "none"
  BY <1>1 DEF CodeOf
<1>4. QED
  BY <1>1, <1>2, <1>3 DEF Lifecycle!LifeInit

LEMMA LifeMaps ==
  ASSUME LifeInv, LifeInv', [Next]_vars
  PROVE  [Lifecycle!LifeNext]_(Lifecycle!lifeVars)
<1>1. ProcInv /\ ProcInv'
  BY DEF LifeInv
<1>2. CASE UNCHANGED vars
  BY <1>2 DEF vars, rtVars, listVars, heapVars, StatusOf, CodeOf, Listed,
       Lifecycle!lifeVars
<1>3. CASE \/ \E root, child \in live : LinkChildProcess(root, child)
           \/ \E d \in Destructors : SetProcessDestruct(d)
           \/ TimesOut
  <2>1. SameDead(proc', proc) /\ CallOnStructs(proc')
    BY <1>1, <1>3, CallsKeepDead
  <2>2. /\ live' = live /\ cont' = cont /\ current_slot' = current_slot
        /\ g_pending_heap_free = NULL /\ g_pending_heap_free' = NULL
    BY <1>1, <2>1, AllListed
       DEF CallOnStructs, CallLeaves, Calling, InCode, listVars, heapVars, rtVars
  <2>3. QED
    BY <2>1, <2>2, SameIsMore, KillsMap
<1>4. CASE \/ \E p \in live : KillChildProcess(p)
           \/ \E p \in live : KillProcess(p)
           \/ KillPrioIteration
  <2>1. /\ MoreDead(proc', proc)
        /\ UNCHANGED <<rtVars, listVars, heapVars, cont, pc>>
        /\ pc \in {"idle", "process", "sweep"}
    BY <1>1, <1>4, KillsMark
  <2>2. QED
    BY <1>1, <2>1, AllListed, KillsMap DEF listVars, heapVars, rtVars
<1>5. CASE \/ InitProcess
           \/ \E lo, hi \in Priorities : lo <= hi /\ KillPrioProcess(lo, hi)
           \/ KillPrioReturn
           \/ \E t \in Ticks : CallProcess(t)
           \/ PassEnds
           \/ VisitPaused \/ VisitSleeping \/ VisitWatching \/ VisitWatched
           \/ VisitDefault \/ ProcessYielded
  <2>1. SameDead(proc', proc) /\ live' = live
    BY <1>1, <1>5, PassesKeepDead
  <2>2. cont' = cont /\ g_pending_heap_free = NULL /\ g_pending_heap_free' = NULL
    BY <1>1, <1>5
       DEF InitProcess, KillPrioProcess, Calling, InCode, KillPrioReturn,
           CallProcess, PassEnds, VisitPaused, VisitSleeping, VisitWatching,
           VisitWatched, VisitDefault, Visits, StepsOver, ProcessYielded,
           heapVars, ProcInv, ControlOK
  <2>3. current_slot' = current_slot
    BY <1>1, <1>5
       DEF InitProcess, recomp_process_init, Fatal, KillPrioProcess,
           KillPrioReturn, CallProcess, PassEnds, VisitPaused, VisitSleeping,
           VisitWatching, VisitWatched, VisitDefault, StepsOver,
           ProcessYielded, rtVars
  <2>4. QED
    BY <2>1, <2>2, <2>3, SameIsMore, KillsMap
<1>6. CASE Scheduler
  BY <1>5, <1>6, DropsMap, RunsMap, ReapsMap DEF Scheduler
<1>7. CASE Kills \/ TimesOut \/ Relates
  BY <1>2, <1>3, <1>4, <1>5, <1>7 DEF Kills, KillNeverEnds, Relates
<1>8. QED
  BY <1>2, <1>5, <1>6, <1>7, CreatesMap, LeavesMap DEF Next

(* The refinement, for every number of processes: whatever game code calls and
   however passes, kills and terminations interleave, its users see processes
   that are created, run one at a time, killed, exited and reaped in the order
   ProcessLifecycle allows and no other. *)
THEOREM LifecycleImplemented == Spec => ImplementsLifecycle
<1>1. Init => LifeInv /\ Lifecycle!LifeInit
  BY LifeStart, LifeStarts
<1>2. LifeInv /\ [Next]_vars => LifeInv'
  BY LifeStep
<1>3. LifeInv /\ LifeInv' /\ [Next]_vars =>
        [Lifecycle!LifeNext]_(Lifecycle!lifeVars)
  BY LifeMaps
<1>4. QED
  BY <1>1, <1>2, <1>3, PTL DEF Spec, ImplementsLifecycle, Lifecycle!LifeSpec

-----------------------------------------------------------------------------
(***************************************************************************)
(* A pass over the main list: what is still to come of it is a part of the *)
(* list up to its end.                                                     *)
(***************************************************************************)
(* A is the part of the main list, as memory m has it, from h to its end. *)
Suffix(m, A, h) ==
  IF h = NULL THEN A = {}
  ELSE /\ h \in A
       /\ m[h].youngest_child \notin A
       /\ \A x \in A : /\ x # h => m[x].youngest_child \in A
                       /\ m[x].next # NULL => m[x].next \in A

LEMMA SuffixSame ==
  ASSUME NEW m, NEW n, NEW A, NEW h, Suffix(m, A, h),
         \A x \in A : SameList(n[x], m[x])
  PROVE  Suffix(n, A, h)
BY DEF Suffix, SameList

LEMMA SuffixOfAll ==
  ASSUME ProcInv
  PROVE  Suffix(proc, Listed, top_process)
<1>1. ListOK /\ NULL \notin Listed
  BY Types DEF ProcInv, Listed
<1>2. CASE top_process = NULL
  <2>1. \A x \in Listed : proc[x].youngest_child \in Listed
    BY <1>1, <1>2 DEF ListOK
  <2>2. Listed = {}
    BY <1>1, <2>1 DEF ListOK, NoCycle
  <2>3. QED
    BY <1>2, <2>2 DEF Suffix
<1>3. CASE top_process # NULL
  BY <1>1, <1>3 DEF ListOK, Suffix
<1> QED BY <1>2, <1>3

(* The cursor moves on. *)
LEMMA SuffixMoves ==
  ASSUME ProcInv, NEW A \in SUBSET Listed, NEW h, h # NULL, Suffix(proc, A, h)
  PROVE  Suffix(proc, A \ {h}, proc[h].next)
<1> DEFINE n == proc[h].next
           B == A \ {h}
<1>1. /\ ListOK /\ NULL \notin Listed /\ h \in A
      /\ proc[h].youngest_child \notin A
      /\ \A x \in A : /\ x # h => proc[x].youngest_child \in A
                      /\ proc[x].next # NULL => proc[x].next \in A
  BY Types DEF ProcInv, Listed, Suffix
<1>2. \A x \in A : /\ proc[x].youngest_child = h => n = x
                   /\ proc[x].next # h
  <2>1. TAKE x \in A
  <2>2. proc[x].youngest_child = h => n = x
    BY <1>1 DEF ListOK
  <2>3. proc[x].next # h
    BY <1>1 DEF ListOK
  <2>4. QED
    BY <2>2, <2>3
<1>3. CASE n = NULL
  <2>1. \A x \in B : proc[x].youngest_child \in B
    BY <1>1, <1>2, <1>3
  <2>2. B = {}
    BY <1>1, <2>1 DEF ListOK, NoCycle
  <2>3. QED
    BY <1>3, <2>2 DEF Suffix
<1>4. CASE n # NULL
  <2>1. n \in B /\ proc[n].youngest_child = h
    BY <1>1, <1>2, <1>4 DEF ListOK
  <2>2. \A x \in B : /\ x # n => proc[x].youngest_child \in B
                     /\ proc[x].next # NULL => proc[x].next \in B
    BY <1>1, <1>2
  <2>3. Suffix(proc, B, n)
    BY ONLY <1>4, <2>1, <2>2 DEF Suffix
  <2>4. QED
    BY <2>3
<1> QED BY <1>3, <1>4

(* A process p is linked behind s. *)
LEMMA SuffixInserts ==
  ASSUME ProcInv, NEW p \in Proc \ live, NEW prio, NEW s \in Listed \cup {NULL},
         NEW m, Inserted(m, p, prio, s, Behind(s)),
         NEW A \in SUBSET Listed, NEW h, Suffix(proc, A, h)
  PROVE  /\ s \in A => Suffix(m, A \cup {p}, h)
         /\ s \notin A => Suffix(m, A, h)
         /\ s \notin A /\ s # NULL /\ h = proc[s].next => Suffix(m, A \cup {p}, p)
<1> DEFINE n == Behind(s)
<1>1. /\ ListOK /\ NULL \notin Listed /\ NULL # p /\ p \notin Listed
      /\ Listed \subseteq Proc
  BY Types DEF ProcInv, Listed
<1>2. /\ m[p].next = n /\ m[p].youngest_child = s
      /\ \A x \in Listed :
           /\ m[x].next = IF x = s THEN p ELSE proc[x].next
           /\ m[x].youngest_child = IF x = n THEN p ELSE proc[x].youngest_child
  BY <1>1 DEF Inserted
<1>3. /\ n # NULL => n \in Listed /\ proc[n].youngest_child = s
      /\ s # NULL => n = proc[s].next
      /\ s = NULL => n = top_process
  BY <1>1 DEF ListOK, Behind
<1> HIDE DEF n
<1>4. CASE h = NULL
  <2>1. A = {}
    BY <1>4 DEF Suffix
  <2>2. s # NULL /\ h = proc[s].next => Suffix(m, A \cup {p}, p)
    BY <1>1, <1>2, <1>3, <1>4, <2>1 DEF Suffix
  <2>3. QED
    BY <1>4, <2>1, <2>2 DEF Suffix
<1>5. CASE h # NULL
  <2>1. /\ h \in A /\ proc[h].youngest_child \notin A
        /\ \A x \in A : /\ x # h => proc[x].youngest_child \in A
                        /\ proc[x].next # NULL => proc[x].next \in A
    BY <1>5 DEF Suffix
  <2>2. ASSUME s \in A
        PROVE  Suffix(m, A \cup {p}, h)
    <3>1. h # n /\ s # NULL
      BY <1>1, <1>3, <2>1, <2>2
    <3>2. m[h].youngest_child \notin A \cup {p}
      <4>1. m[h].youngest_child = proc[h].youngest_child
        BY <1>2, <2>1, <3>1
      <4>2. proc[h].youngest_child # p
        BY <1>1, <1>5, <2>1 DEF ListOK
      <4>3. QED
        BY <2>1, <4>1, <4>2
    <3>3. \A x \in A : /\ x # h => m[x].youngest_child \in A \cup {p}
                       /\ m[x].next # NULL => m[x].next \in A \cup {p}
      BY <1>2, <2>1
    <3>4. n # NULL => n \in A
      BY <1>3, <2>1, <2>2, <3>1
    <3>5. /\ p # h => m[p].youngest_child \in A \cup {p}
          /\ m[p].next # NULL => m[p].next \in A \cup {p}
      BY <1>2, <2>2, <3>4
    <3>6. QED
      BY <1>5, <2>1, <3>2, <3>3, <3>5 DEF Suffix
  <2>3. ASSUME s \notin A
        PROVE  \A x \in A : /\ x # h => m[x].youngest_child \in A
                            /\ m[x].next # NULL => m[x].next \in A
    <3>1. \A x \in A : x # h => x # n
      BY <1>1, <1>3, <2>1, <2>3
    <3>2. QED
      BY <1>2, <2>1, <2>3, <3>1
  <2>4. ASSUME s \notin A
        PROVE  Suffix(m, A, h)
    <3>1. m[h].youngest_child \notin A
      BY <1>1, <1>2, <2>1
    <3>2. QED
      BY <1>5, <2>1, <2>3, <2>4, <3>1 DEF Suffix
  <2>5. ASSUME s \notin A, s # NULL, h = proc[s].next
        PROVE  Suffix(m, A \cup {p}, p)
    <3>1. h = n
      BY <1>3, <2>5
    <3>2. m[h].youngest_child = p /\ m[p].next = h /\ m[p].youngest_child = s
      BY <1>2, <2>1, <3>1
    <3>3. s # p
      BY <1>1, <2>5
    <3>4. QED
      BY <1>1, <2>1, <2>3, <2>5, <3>2, <3>3 DEF Suffix
  <2>6. QED
    BY <2>2, <2>4, <2>5
<1> QED BY <1>4, <1>5

(* A process p before h is taken off the list. *)
LEMMA SuffixLoses ==
  ASSUME ProcInv, NEW p \in Listed, NEW m \in Memory,
         \A x \in Proc : SameList(m[x], proc[x]),
         NEW A \in SUBSET Listed, p \notin A, NEW h, Suffix(proc, A, h)
  PROVE  Suffix(UnlinkedProcess(m, p), A, h)
<1> DEFINE v == UnlinkedProcess(m, p)
           n == proc[p].next
           y == proc[p].youngest_child
<1>1. ListOK /\ NULL \notin Listed /\ Listed \subseteq Proc
  BY Types DEF ProcInv, Listed
<1>2. \A x \in Listed :
        /\ v[x].next = IF x = y THEN n ELSE proc[x].next
        /\ v[x].youngest_child = IF x = n THEN y ELSE proc[x].youngest_child
  <2>1. \A x \in Proc :
          /\ v[x].next = IF x = m[p].youngest_child THEN m[p].next ELSE m[x].next
          /\ v[x].youngest_child = IF x = m[p].next THEN m[p].youngest_child
                                   ELSE m[x].youngest_child
    <3>1. m \in Memory /\ p \in Proc
      BY <1>1
    <3>2. QED
      BY ONLY <3>1, UnlinkedProcessFields
  <2>2. QED
    BY <1>1, <2>1 DEF SameList
<1> HIDE DEF v
<1>3. CASE h = NULL
  BY <1>3 DEF Suffix, v
<1>4. CASE h # NULL
  <2>1. /\ h \in A /\ proc[h].youngest_child \notin A
        /\ \A x \in A : /\ x # h => proc[x].youngest_child \in A
                        /\ proc[x].next # NULL => proc[x].next \in A
    BY <1>4 DEF Suffix
  <2>2. y \notin A
    BY <1>1, <2>1 DEF ListOK
  <2>3. \A x \in A : x # h => x # n
    BY <1>1, <2>1 DEF ListOK
  <2>4. v[h].youngest_child \notin A
    BY <1>2, <2>1, <2>2
  <2>5. \A x \in A : /\ x # h => v[x].youngest_child \in A
                     /\ v[x].next # NULL => v[x].next \in A
    BY <1>2, <2>1, <2>2, <2>3
  <2>6. Suffix(v, A, h)
    BY <1>4, <2>1, <2>4, <2>5 DEF Suffix
  <2>7. QED
    BY <2>6 DEF v
<1> QED BY <1>3, <1>4

-----------------------------------------------------------------------------
(***************************************************************************)
(* The invariant of a pass, and the steps.                                 *)
(***************************************************************************)
(* What is to come: the list from h on holds no process that had its turn, and
   every process that was there when the pass began and has not had its turn. *)
Ahead(A, h) ==
  /\ Suffix(proc, A, h)
  /\ seen \cap A = {}
  /\ present \subseteq A \cup seen

SomeAhead(h) == \E A \in SUBSET Listed : Ahead(A, h)

(* While a process has control both successors count: the one it has when it
   yields, and the one saved before the switch, to which the cursor goes when the
   process has freed itself; a process created meanwhile may be between them. *)
PassMore ==
  /\ pc # "sweep"
  /\ present \subseteq live /\ seen \subseteq live
  /\ pc = "loop" => SomeAhead(current_process)
  /\ pc \in {"run", "process", "returned"} => current_process \in seen
  /\ (pc \in {"run", "process"} \/ (pc = "returned" /\ yield_reason # "TERMINATE"))
       => SomeAhead(proc[current_process].next)
  /\ pc \in {"process", "returned"} => SomeAhead(next_proc)

PassInv == ProcInv /\ PassMore

(* A step that keeps the list and the history. *)
LEMMA AheadSame ==
  ASSUME ProcInv, NEW h, SomeAhead(h), Listed' = Listed,
         \A x \in Listed : SameList(proc'[x], proc[x]),
         seen' = seen, present' = present,
         NEW h2, h2 = h
  PROVE  \E A \in SUBSET Listed' :
           Suffix(proc', A, h2) /\ seen' \cap A = {} /\ present' \subseteq A \cup seen'
<1>1. PICK A \in SUBSET Listed : Ahead(A, h)
  BY DEF SomeAhead
<1>2. Suffix(proc', A, h)
  BY <1>1, SuffixSame DEF Ahead
<1> QED BY <1>1, <1>2 DEF Ahead

(* Steps between two passes. *)
LEMMA IdleKeeps ==
  ASSUME pc' = "idle", Records
  PROVE  PassMore'
BY DEF Records, PassMore

LEMMA StartKeeps ==
  ASSUME PassInv, ProcInv', NEW t \in Ticks, CallProcess(t), Records
  PROVE  PassMore'
<1>1. /\ pc = "idle" /\ pc' = "loop" /\ present' = live /\ seen' = {}
      /\ current_process' = top_process /\ proc' = proc /\ live' = live
      /\ Listed' = Listed
  BY DEF CallProcess, Records, listVars, heapVars, Listed
<1>2. Listed = live
  BY <1>1, AllListed DEF PassInv
<1>3. Suffix(proc', Listed', current_process')
  BY <1>1, SuffixOfAll DEF PassInv
<1>4. SomeAhead(current_process)'
  BY <1>1, <1>2, <1>3 DEF SomeAhead, Ahead
<1> QED BY <1>1, <1>4 DEF PassMore

(* The cursor visits a process: it steps over it, or will switch to it. *)
LEMMA VisitFacts ==
  ASSUME PassInv, ProcInv', pc = "loop", current_process # NULL, live' = live,
         g_pending_heap_free' = g_pending_heap_free,
         \A x \in Proc : SameList(proc'[x], proc[x]),
         pc' \in {"loop", "run"}, Records
  PROVE  /\ seen' = seen \cup {current_process} /\ present' = present
         /\ seen' \subseteq live'
         /\ \E A \in SUBSET Listed' : /\ Suffix(proc', A, proc[current_process].next)
                                     /\ seen' \cap A = {}
                                     /\ present' \subseteq A \cup seen'
<1>1. /\ present \subseteq live /\ seen \subseteq live
      /\ SomeAhead(current_process) /\ Listed' = Listed
  BY DEF PassInv, PassMore, Listed
<1>2. PICK A \in SUBSET Listed : Ahead(A, current_process)
  BY <1>1 DEF SomeAhead
<1>3. current_process \in A /\ current_process \in live /\ live \subseteq Proc
  BY <1>2, Types DEF Ahead, Suffix, Listed, PassInv
<1>4. seen' = seen \cup {current_process} /\ present' = present
  BY <1>1, <1>3 DEF Records
<1> DEFINE B == A \ {current_process}
<1>5. Suffix(proc, B, proc[current_process].next)
  BY <1>2, SuffixMoves DEF Ahead, PassInv
<1>6. \A x \in B : SameList(proc'[x], proc[x])
  BY <1>3 DEF Listed
<1>7. Suffix(proc', B, proc[current_process].next)
  BY <1>5, <1>6, SuffixSame
<1>8. seen' \cap B = {} /\ present' \subseteq B \cup seen'
  BY <1>2, <1>4 DEF Ahead
<1>9. B \in SUBSET Listed'
  BY <1>1
<1> HIDE DEF B
<1> QED BY <1>1, <1>3, <1>4, <1>7, <1>8, <1>9

(* What the visits have in common. *)
LEMMA VisitsSame ==
  ASSUME ProcInv, VisitPaused \/ VisitSleeping \/ VisitWatching \/ VisitWatched
                    \/ VisitDead \/ VisitDefault
  PROVE  /\ pc = "loop" /\ current_process # NULL /\ current_process \in Proc
         /\ live' = live /\ g_pending_heap_free' = g_pending_heap_free
         /\ \A x \in Proc : SameList(proc'[x], proc[x])
         /\ \/ pc' = "loop" /\ current_process' = proc[current_process].next
            \/ pc' = "run" /\ current_process' = current_process
<1>1. proc \in Memory /\ time \in Int
  BY Types DEF ProcInv, TypeOK
<1>2. ASSUME NEW mode, Visits(mode)
      PROVE  /\ pc = "loop" /\ current_process # NULL /\ current_process \in Proc
             /\ live' = live /\ g_pending_heap_free' = g_pending_heap_free
  BY <1>2, Types DEF Visits, listVars, heapVars
<1>3. ASSUME NEW s, current_process \in Proc, SameList(s, proc[current_process]),
             proc' = [proc EXCEPT ![current_process] = s]
      PROVE  \A x \in Proc : SameList(proc'[x], proc[x])
  BY <1>1, <1>3 DEF Memory, SameList
<1>4. CASE VisitPaused \/ VisitWatching
  BY <1>2, <1>4 DEF VisitPaused, VisitWatching, StepsOver, Visits, SameList
<1>5. CASE VisitSleeping
  <2>1. /\ Visits("SLEEPING") /\ StepsOver
        /\ proc' = [proc EXCEPT ![current_process] = Ticked(@)]
    BY <1>5 DEF VisitSleeping
  <2>2. current_process \in Proc => SameList(Ticked(proc[current_process]),
                                            proc[current_process])
    BY <1>1, TickedMode DEF OnlyMode, Memory
  <2>3. \A x \in Proc : SameList(proc'[x], proc[x])
    BY <1>2, <1>3, <2>1, <2>2
  <2>4. QED
    BY <1>2, <2>1, <2>3 DEF StepsOver
<1>6. CASE VisitWatched
  <2> DEFINE s == [proc[current_process] EXCEPT !.exec_mode = "DEFAULT"]
  <2>1. /\ Visits("WATCH") /\ pc' = "run" /\ current_process' = current_process
        /\ proc' = [proc EXCEPT ![current_process] = s]
    BY <1>6 DEF VisitWatched
  <2>2. current_process \in Proc => SameList(s, proc[current_process])
    BY <1>1 DEF SameList, Memory, Struct
  <2> HIDE DEF s
  <2>3. QED
    BY <1>2, <1>3, <2>1, <2>2
<1>7. CASE VisitDead
  <2> DEFINE s == [proc[current_process] EXCEPT !.func = "EndProcess"]
  <2>1. /\ Visits("DEAD") /\ pc' = "run" /\ current_process' = current_process
        /\ proc' = [proc EXCEPT ![current_process] = s]
    BY <1>7 DEF VisitDead
  <2>2. current_process \in Proc => SameList(s, proc[current_process])
    BY <1>1 DEF SameList, Memory, Struct
  <2> HIDE DEF s
  <2>3. QED
    BY <1>2, <1>3, <2>1, <2>2
<1>8. CASE VisitDefault
  BY <1>2, <1>8 DEF VisitDefault, SameList
<1> QED BY <1>4, <1>5, <1>6, <1>7, <1>8

LEMMA VisitsKeepPass ==
  ASSUME PassInv, ProcInv', Records,
         VisitPaused \/ VisitSleeping \/ VisitWatching \/ VisitWatched
           \/ VisitDead \/ VisitDefault
  PROVE  PassMore'
<1>1. /\ pc = "loop" /\ current_process # NULL /\ current_process \in Proc
      /\ live' = live /\ g_pending_heap_free' = g_pending_heap_free
      /\ \A x \in Proc : SameList(proc'[x], proc[x])
      /\ \/ pc' = "loop" /\ current_process' = proc[current_process].next
         \/ pc' = "run" /\ current_process' = current_process
  BY VisitsSame DEF PassInv
<1>2. /\ seen' = seen \cup {current_process} /\ present' = present
      /\ seen' \subseteq live'
      /\ \E A \in SUBSET Listed' : /\ Suffix(proc', A, proc[current_process].next)
                                  /\ seen' \cap A = {}
                                  /\ present' \subseteq A \cup seen'
  BY <1>1, VisitFacts
<1>3. present' \subseteq live'
  BY <1>1, <1>2 DEF PassInv, PassMore
<1>4. proc'[current_process].next = proc[current_process].next
  BY <1>1 DEF SameList
<1>5. CASE pc' = "loop" /\ current_process' = proc[current_process].next
  <2>1. SomeAhead(current_process)'
    BY <1>2, <1>5 DEF SomeAhead, Ahead
  <2>2. QED
    BY <1>2, <1>3, <1>5, <2>1 DEF PassMore
<1>6. CASE pc' = "run" /\ current_process' = current_process
  <2>1. SomeAhead(proc[current_process].next)'
    BY <1>2, <1>4, <1>6 DEF SomeAhead, Ahead
  <2>2. current_process' \in seen'
    BY <1>2, <1>6
  <2>3. QED
    BY <1>2, <1>3, <1>6, <2>1, <2>2 DEF PassMore
<1> QED BY <1>1, <1>5, <1>6

(* Outside the loop nothing is recorded but what is freed. *)
LEMMA RecordsKept ==
  ASSUME PassInv, Records, pc \in {"run", "process", "returned"}, pc' # "idle",
         live \subseteq live'
  PROVE  present' = present /\ seen' = seen
BY DEF Records, PassInv, PassMore

(* A step of the process that has control, or the switch to it, which leaves the
   list alone. *)
LEMMA SwitchKeeps ==
  ASSUME PassInv, ProcInv', Records, pc \in {"run", "process"},
         pc' \in {"process", "returned"},
         live' = live, Listed' = Listed, current_process' = current_process,
         next_proc' = IF pc = "run" THEN proc[current_process].next ELSE next_proc,
         \A x \in Proc : SameList(proc'[x], proc[x])
  PROVE  PassMore'
<1>1. present' = present /\ seen' = seen
  BY RecordsKept
<1>2. /\ SomeAhead(proc[current_process].next)
      /\ pc = "process" => SomeAhead(next_proc)
      /\ current_process \in seen /\ present \subseteq live /\ seen \subseteq live
  BY DEF PassInv, PassMore
<1>3. /\ live \subseteq Proc /\ Listed \subseteq Proc /\ current_process \in Proc
  BY <1>2, Types DEF Listed, PassInv
<1>4. \A x \in Listed : SameList(proc'[x], proc[x])
  BY <1>3
<1>5. proc'[current_process].next = proc[current_process].next
  BY <1>3 DEF SameList
<1>6. \E A \in SUBSET Listed' :
        /\ Suffix(proc', A, proc'[current_process'].next)
        /\ seen' \cap A = {} /\ present' \subseteq A \cup seen'
  BY <1>1, <1>2, <1>4, <1>5, AheadSame DEF PassInv
<1>7. \E A \in SUBSET Listed' :
        /\ Suffix(proc', A, next_proc')
        /\ seen' \cap A = {} /\ present' \subseteq A \cup seen'
  BY <1>1, <1>2, <1>4, AheadSame DEF PassInv
<1>8. SomeAhead(proc[current_process].next)'
  BY <1>6 DEF SomeAhead, Ahead
<1>9. SomeAhead(next_proc)'
  BY <1>7 DEF SomeAhead, Ahead
<1> QED BY <1>1, <1>2, <1>8, <1>9 DEF PassMore

LEMMA RunKeepsPass ==
  ASSUME PassInv, ProcInv', Records, RunProcess
  PROVE  PassMore'
<1>1. /\ pc = "run" /\ pc' = "process" /\ live' = live /\ proc' = proc
      /\ current_process' = current_process
      /\ next_proc' = proc[current_process].next /\ g_pending_heap_free' = NULL
  BY DEF RunProcess, listVars
<1>2. g_pending_heap_free = NULL
  BY <1>1, AllListed DEF PassInv
<1>3. Listed' = Listed
  BY <1>1, <1>2 DEF Listed
<1>4. \A x \in Proc : SameList(proc'[x], proc[x])
  BY <1>1 DEF SameList
<1> QED BY <1>1, <1>3, <1>4, SwitchKeeps

(* The process sleeps, starts to watch, kills another, or goes on to its
   destructor. *)
LEMMA StaysKeepPass ==
  ASSUME PassInv, ProcInv', Records, pc = "process",
         \/ \E t \in SleepTimes \cup {0} : SleepProcess(t)
         \/ WatchChildProcess
         \/ \E p \in live : KillProcess(p)
         \/ EndProcess /\ pc' = "process"
  PROVE  PassMore'
<1>1. proc \in Memory /\ live \subseteq Proc /\ g_pending_heap_free = NULL
  BY Types, AllListed DEF PassInv
<1>2. current_process \in Proc
  BY Types DEF PassInv, ProcInv, ControlOK
<1>3. ASSUME Quiet(proc', proc), live' = live, g_pending_heap_free' = g_pending_heap_free,
             UNCHANGED passVars, pc' \in {"process", "returned"}
      PROVE  PassMore'
  <2>1. Listed' = Listed
    BY <1>3 DEF Listed
  <2>2. \A x \in Proc : SameList(proc'[x], proc[x])
    BY <1>3 DEF Quiet, SameLinks
  <2>3. QED
    BY <1>3, <2>1, <2>2, SwitchKeeps DEF passVars
<1>4. CASE \E t \in SleepTimes \cup {0} : SleepProcess(t)
  <2>1. PICK t \in SleepTimes \cup {0} : SleepProcess(t)
    BY <1>4
  <2> DEFINE s == WithMode(proc[current_process], "SLEEPING", t)
  <2>2. OnlyMode(s, proc[current_process])
    <3>1. t \in Int /\ "SLEEPING" \in ExecMode /\ proc[current_process] \in Struct
      BY <1>1, <1>2, TimesAssumption DEF ExecMode, Memory
    <3>2. QED
      BY <3>1, ModeChanged
  <2>3. proc' = proc \/ proc' = [proc EXCEPT ![current_process] = s]
    BY <2>1 DEF SleepProcess
  <2> HIDE DEF s
  <2>4. Quiet(proc', proc)
    <3>1. Quiet(proc, proc)
      BY <1>1 DEF Quiet, SameLinks, SameList
    <3>2. Quiet([proc EXCEPT ![current_process] = s], proc)
      BY <1>1, <1>2, <2>2, OneModeQuiet
    <3>3. QED
      BY <2>3, <3>1, <3>2
  <2>5. QED
    BY <1>3, <2>1, <2>4 DEF SleepProcess, yield_to_scheduler, listVars
<1>5. CASE WatchChildProcess
  <2>1. "WATCH" \in ExecMode
    BY DEF ExecMode
  <2>2. Quiet(proc', proc)
    BY <1>1, <1>2, <1>5, <2>1, OneFieldQuiet DEF WatchChildProcess
  <2>3. QED
    BY <1>3, <1>5, <2>2 DEF WatchChildProcess, yield_to_scheduler, listVars
<1>6. CASE \E p \in live : KillProcess(p)
  <2>1. PICK p \in live : KillProcess(p)
    BY <1>6
  <2>2. Quiet(proc', proc)
    BY <1>1, <2>1, KilledQuiet DEF KillProcess, CallOnStructs
  <2>3. QED
    BY <1>3, <2>1, <2>2 DEF KillProcess, CallOnStructs, CallLeaves, listVars,
       heapVars
<1>7. CASE EndProcess /\ pc' = "process"
  <2> DEFINE c == ChildrenKilled(proc, current_process)
             m == UnlinkedChild(c, current_process)
  <2>1. c \in Memory /\ Quiet(c, proc)
    BY <1>1, <1>2, ChildrenKilledQuiet DEF Quiet
  <2>2. Quiet(m, proc)
    BY <1>2, <2>1, UnlinkedChildQuiet, QuietTransitive
  <2>3. \/ proc' = m /\ UNCHANGED <<listVars, heapVars, pc>> /\ UNCHANGED passVars
        \/ Terminates(m)
    BY <1>7 DEF EndProcess
  <2> HIDE DEF m, c
  <2>4. ~ Terminates(m)
    BY <1>7 DEF Terminates, yield_to_scheduler
  <2>5. QED
    BY <1>3, <1>7, <2>2, <2>3, <2>4 DEF listVars, heapVars
<1> QED BY <1>4, <1>5, <1>6, <1>7

(* The process creates another, which may be linked anywhere. *)
LEMMA CreatesKeepPass ==
  ASSUME PassInv, ProcInv', Records, pc = "process",
         NEW p \in Proc, NEW prio \in Priorities, CreateProcess(p, prio)
  PROVE  PassMore'
<1>1. PICK s \in live \cup {NULL} :
        Allocates(p, prio, s) /\ proc' = CreatedProcess(p, prio, s)
  BY DEF CreateProcess
<1>2. /\ p \notin live /\ live' = live \cup {p} /\ pc' = pc
      /\ g_pending_heap_free' = g_pending_heap_free
      /\ current_process' = current_process /\ next_proc' = next_proc
  BY <1>1 DEF Allocates, CallLeaves, passVars, heapVars
<1>3. /\ Listed = live /\ Listed' = live' /\ proc \in Memory /\ live \subseteq Proc
      /\ top_process \in Ref /\ NULL \notin Proc
  BY <1>2, AllListed, Types DEF PassInv, Listed
<1>4. Inserted(proc', p, prio, s, Behind(s))
  BY <1>1, <1>2, <1>3, PrioritiesAssumption, CreatedInserted DEF Ref
<1>5. present' = present /\ seen' = seen
  BY <1>2, RecordsKept
<1>6. /\ SomeAhead(proc[current_process].next) /\ SomeAhead(next_proc)
      /\ current_process \in seen /\ present \subseteq live /\ seen \subseteq live
  BY DEF PassInv, PassMore
<1>7. p \notin seen /\ current_process # p /\ current_process \in Proc
  BY <1>2, <1>3, <1>6
<1>8. proc'[current_process].next =
        IF current_process = s THEN p ELSE proc[current_process].next
  BY <1>4, <1>7 DEF Inserted
<1>9. ASSUME NEW h, SomeAhead(h)
      PROVE  \E A \in SUBSET Listed' :
               /\ Suffix(proc', A, h)
               /\ seen' \cap A = {} /\ present' \subseteq A \cup seen'
  <2>1. PICK A \in SUBSET Listed : Ahead(A, h)
    BY <1>9 DEF SomeAhead
  <2>2. \/ Suffix(proc', A, h) \/ Suffix(proc', A \cup {p}, h)
    BY <1>2, <1>3, <1>4, <2>1, SuffixInserts DEF Ahead, PassInv
  <2>3. A \in SUBSET Listed' /\ A \cup {p} \in SUBSET Listed'
    BY <1>2, <1>3
  <2>4. QED
    BY <1>5, <1>7, <2>1, <2>2, <2>3 DEF Ahead
<1>10. SomeAhead(proc[current_process].next)'
  <2>1. CASE current_process = s
    <3>1. PICK A \in SUBSET Listed : Ahead(A, proc[current_process].next)
      BY <1>6 DEF SomeAhead
    <3>2. s \notin A /\ s # NULL
      BY <1>3, <1>6, <1>7, <2>1, <3>1 DEF Ahead
    <3>3. Suffix(proc', A \cup {p}, p)
      BY <1>2, <1>3, <1>4, <2>1, <3>1, <3>2, SuffixInserts DEF Ahead, PassInv
    <3>4. A \cup {p} \in SUBSET Listed'
      BY <1>2, <1>3
    <3>5. Ahead(A \cup {p}, proc[current_process].next)'
      BY <1>2, <1>5, <1>7, <1>8, <2>1, <3>1, <3>3 DEF Ahead
    <3>6. QED
      BY <3>4, <3>5 DEF SomeAhead
  <2>2. CASE current_process # s
    BY <1>2, <1>6, <1>8, <1>9, <2>2 DEF SomeAhead, Ahead
  <2>3. QED
    BY <2>1, <2>2
<1>11. SomeAhead(next_proc)'
  BY <1>2, <1>6, <1>9 DEF SomeAhead, Ahead
<1>12. present' \subseteq live' /\ seen' \subseteq live' /\ current_process' \in seen'
  BY <1>2, <1>5, <1>6
<1> QED BY <1>2, <1>10, <1>11, <1>12 DEF PassMore

(* The process takes itself off the list, and control returns. *)
LEMMA TerminatesKeepPass ==
  ASSUME PassInv, ProcInv', Records, pc = "process", NEW m \in Memory,
         Quiet(m, proc), Terminates(m)
  PROVE  PassMore'
<1>1. /\ proc' = UnlinkedProcess(m, current_process) /\ live' = live
      /\ g_pending_heap_free' = current_process
      /\ current_process' = current_process /\ next_proc' = next_proc
      /\ pc' = "returned" /\ yield_reason' = "TERMINATE"
  <2>1. "TERMINATE" \in YieldReason
    BY DEF YieldReason
  <2>2. yield_reason' = "TERMINATE" /\ pc' = "returned"
    BY <2>1, YieldFacts DEF Terminates, PassInv
  <2>3. QED
    BY <2>2 DEF Terminates, yield_to_scheduler, passVars
<1>2. /\ Listed = live /\ Listed' = live \ {current_process}
  BY <1>1, AllListed DEF PassInv, Listed
<1>3. /\ SomeAhead(next_proc) /\ current_process \in seen
      /\ present \subseteq live /\ seen \subseteq live
      /\ present' = present /\ seen' = seen
  BY <1>1, RecordsKept DEF PassInv, PassMore
<1>4. PICK A \in SUBSET Listed : Ahead(A, next_proc)
  BY <1>3 DEF SomeAhead
<1>5. current_process \notin A /\ current_process \in Listed
  BY <1>2, <1>3, <1>4 DEF Ahead
<1>6. \A x \in Proc : SameList(m[x], proc[x])
  BY DEF Quiet, SameLinks
<1>7. Suffix(proc', A, next_proc')
  BY <1>1, <1>4, <1>5, <1>6, SuffixLoses DEF Ahead, PassInv
<1>8. A \in SUBSET Listed'
  BY <1>2, <1>5
<1>9. SomeAhead(next_proc)'
  BY <1>3, <1>4, <1>7, <1>8 DEF SomeAhead, Ahead
<1> QED BY <1>1, <1>3, <1>9 DEF PassMore

LEMMA EndsKeepPass ==
  ASSUME PassInv, ProcInv', Records, EndProcess \/ DestructorReturns
  PROVE  PassMore'
<1>1. proc \in Memory /\ current_process \in Proc /\ pc = "process"
  BY Types DEF PassInv, ProcInv, ControlOK, EndProcess, DestructorReturns
<1>2. CASE EndProcess
  <2> DEFINE c == ChildrenKilled(proc, current_process)
             m == UnlinkedChild(c, current_process)
  <2>1. c \in Memory /\ Quiet(c, proc)
    BY <1>1, ChildrenKilledQuiet DEF Quiet
  <2>2. m \in Memory /\ Quiet(m, proc)
    BY <1>1, <2>1, UnlinkedChildQuiet, QuietTransitive DEF Quiet
  <2>3. pc' = "process" \/ Terminates(m)
    BY <1>1, <1>2 DEF EndProcess
  <2> HIDE DEF m, c
  <2>4. QED
    BY <1>1, <1>2, <2>2, <2>3, TerminatesKeepPass, StaysKeepPass
<1>3. CASE DestructorReturns
  <2>1. Quiet(proc, proc)
    BY <1>1 DEF Quiet, SameLinks, SameList
  <2>2. QED
    BY <1>1, <1>3, <2>1, TerminatesKeepPass DEF DestructorReturns
<1> QED BY <1>2, <1>3

(* The switch back. *)
LEMMA TerminatedKeepsPass ==
  ASSUME PassInv, ProcInv', Records, ProcessTerminated
  PROVE  PassMore'
<1>1. /\ pc = "returned" /\ pc' = "loop" /\ yield_reason = "TERMINATE"
      /\ g_pending_heap_free = current_process /\ g_pending_heap_free' = NULL
      /\ live' = live \ {current_process} /\ current_process' = next_proc
      /\ current_process \in Proc
      /\ proc' = [x \in Proc |-> IF x = current_process THEN Fresh(0) ELSE proc[x]]
  BY Types DEF ProcessTerminated, Frees, PassInv, ProcInv, ControlOK
<1>2. Listed = live \ {current_process} /\ Listed' = Listed
  BY <1>1, Types DEF Listed, PassInv
<1>3. present' = present \cap live' /\ seen' = seen \cap live'
  BY <1>1 DEF Records
<1>4. PICK A \in SUBSET Listed : Ahead(A, next_proc)
  BY <1>1 DEF PassInv, PassMore, SomeAhead
<1>5. \A x \in A : SameList(proc'[x], proc[x])
  BY <1>1, <1>2, Types DEF SameList, PassInv
<1>6. Suffix(proc', A, next_proc)
  BY <1>4, <1>5, SuffixSame DEF Ahead
<1>7. seen' \cap A = {} /\ present' \subseteq A \cup seen'
  BY <1>3, <1>4 DEF Ahead
<1>8. SomeAhead(current_process)'
  BY <1>1, <1>2, <1>6, <1>7 DEF SomeAhead, Ahead
<1> QED BY <1>1, <1>3, <1>8 DEF PassMore

LEMMA YieldedKeepsPass ==
  ASSUME PassInv, ProcInv', Records, ProcessYielded
  PROVE  PassMore'
<1>1. /\ pc = "returned" /\ pc' = "loop" /\ yield_reason # "TERMINATE"
      /\ live' = live /\ Listed' = Listed /\ proc' = proc
      /\ current_process' = proc[current_process].next
  BY DEF ProcessYielded, listVars, heapVars, Listed
<1>2. present' = present /\ seen' = seen
  BY <1>1, RecordsKept
<1>3. SomeAhead(proc[current_process].next)
  BY <1>1 DEF PassInv, PassMore
<1>4. SomeAhead(current_process)'
  BY <1>1, <1>2, <1>3 DEF SomeAhead, Ahead
<1> QED BY <1>1, <1>2, <1>4 DEF PassInv, PassMore
-----------------------------------------------------------------------------
LEMMA PassStarts ==
  ASSUME PassInit
  PROVE  PassInv
BY ProcInit DEF PassInit, PassInv, PassMore, Init

LEMMA PassStep ==
  ASSUME PassInv, [PassNext]_<<vars, passHistory>>
  PROVE  PassInv'
<1>1. CASE UNCHANGED <<vars, passHistory>>
  <2>1. ProcInv'
    BY <1>1, ProcStutter DEF PassInv
  <2>2. /\ UNCHANGED <<pc, present, seen, live, current_process, next_proc, proc,
                       yield_reason, g_pending_heap_free>>
    BY <1>1 DEF vars, passHistory, listVars, passVars, heapVars, rtVars
  <2>3. Listed' = Listed
    BY <2>2 DEF Listed
  <2>4. PassMore'
    BY <2>2, <2>3 DEF PassInv, PassMore, SomeAhead, Ahead
  <2>5. QED
    BY <2>1, <2>4 DEF PassInv
<1>2. CASE PassNext
  <2>1. Records /\ (InitProcess \/ Scheduler \/ Leaves \/ ListCalls)
    BY <1>2 DEF PassNext
  <2>2. Next
    BY <1>2 DEF PassNext, NoFatal, Next, ListCalls, Creates, Kills
  <2>3. ProcInv'
    BY <2>2, ProcStep DEF PassInv
  <2> SUFFICES PassMore'
    BY <2>3 DEF PassInv
  <2>4. CASE pc' = "idle"
    BY <2>1, <2>4, IdleKeeps
  <2>5. CASE InitProcess
    BY <2>4, <2>5 DEF InitProcess
  <2>6. CASE Scheduler
    <3>1. CASE PassEnds
      BY <2>4, <3>1 DEF PassEnds
    <3>2. QED
      BY <2>1, <2>3, <2>6, <3>1, StartKeeps, VisitsKeepPass, RunKeepsPass,
         TerminatedKeepsPass, YieldedKeepsPass DEF Scheduler
  <2>7. CASE Leaves
    <3>1. pc = "process"
      BY <2>7 DEF Leaves, SleepProcess, WatchChildProcess, MayYield, InCode,
         EndProcess, DestructorReturns
    <3>2. QED
      BY <2>1, <2>3, <2>7, <3>1, StaysKeepPass, EndsKeepPass DEF Leaves
  <2>8. CASE ListCalls
    <3>1. pc' = pc /\ (pc = "idle" \/ pc = "process")
      BY <2>8 DEF ListCalls, CreateProcess, Allocates, KillProcess, CallOnStructs,
         CallLeaves, Calling, InCode
    <3>2. QED
      BY <2>1, <2>3, <2>4, <2>8, <3>1, StaysKeepPass, CreatesKeepPass DEF ListCalls
  <2>9. QED
    BY <2>1, <2>5, <2>6, <2>7, <2>8
<1> QED BY <1>1, <1>2

(* OneTurnEach, for every number of processes: whatever running processes create,
   kill and end under the cursor, a pass of CallProcess comes to no process twice,
   and when it ends it has missed none of those that were on the list when it
   began and still are. *)
THEOREM OneTurnForEach == PassSpec => []OneTurnEach
<1>1. ASSUME PassInv PROVE OneTurnEach
  BY <1>1 DEF PassInv, PassMore, SomeAhead, Ahead, Suffix, OneTurnEach
<1> QED BY <1>1, PassStarts, PassStep, PTL DEF PassSpec
=============================================================================
