--------------------------- MODULE Process_proofs ---------------------------
(***************************************************************************)
(* Proofs about the process system, for any set of addresses and any       *)
(* callers: the main list is never damaged and never loses a process, the  *)
(* scheduler's cursors stay valid across every switch, slots match the     *)
(* processes at their addresses, and no check ever ends the program.       *)
(*                                                                         *)
(* First the host runtime on its own, under a caller that does anything;   *)
(* then what the operators on structs change, field by field; then what    *)
(* the steps of each kind keep, and the theorems.                          *)
(***************************************************************************)
EXTENDS Process, TLAPS, FiniteSetTheorems

(* The type invariant alone is not inductive: a yield updates the current slot,
   which must exist. *)
RTInv == RTTypeOK /\ OnlyCurrentRuns

SlotState == {"Created", "Running", "Suspended", "Dead"}

(* What the runtime's operators write into the slot table are slots. *)
LEMMA SlotValues ==
  /\ NoSlot \notin Slot
  /\ \A e \in Entry : NewSlot(e) \in Slot
  /\ \A s \in Slot, st \in SlotState, co \in {"SUSPENDED", "RUNNING"} :
       /\ SlotAs(s, st, co) \in Slot
       /\ SlotAs(s, st, co).state = st
       /\ SlotAs(s, st, co).coro = co
       /\ SlotAs(s, st, co).entry = s.entry
<1>1. NoSlot \notin Slot
  BY DEF NoSlot, Slot
<1>2. \A e \in Entry : NewSlot(e) \in Slot
  BY DEF NewSlot, Slot
<1>3. ASSUME NEW s \in Slot, NEW st \in SlotState,
             NEW co \in {"SUSPENDED", "RUNNING"}
      PROVE  /\ SlotAs(s, st, co) \in Slot
             /\ SlotAs(s, st, co).state = st
             /\ SlotAs(s, st, co).coro = co
             /\ SlotAs(s, st, co).entry = s.entry
  BY DEF Slot, SlotState, SlotAs
<1>4. QED
  BY <1>1, <1>2, <1>3
(* Each operation preserves the invariant; the modules that compose the runtime
   with its caller use these one by one. *)
LEMMA FatalKeeps ==
  ASSUME RTInv, Fatal
  PROVE  RTInv'
BY DEF RTInv, RTTypeOK, OnlyCurrentRuns, Fatal

LEMMA InitKeeps ==
  ASSUME RTInv, recomp_process_init
  PROVE  RTInv'
<1>1. CASE current_slot # NULL
  BY <1>1, FatalKeeps DEF recomp_process_init
<1>2. CASE current_slot = NULL
  BY <1>2 DEF recomp_process_init, RTInv, RTTypeOK, OnlyCurrentRuns, YieldReason
<1>3. QED
  BY <1>1, <1>2

LEMMA ResumeKeeps ==
  ASSUME RTInv, NEW k \in Proc, NEW e \in Entry, recomp_process_resume(k, e)
  PROVE  RTInv'
<1>1. CASE ~ MayResume(k, e)
  BY <1>1, FatalKeeps DEF recomp_process_resume
<1>2. CASE MayResume(k, e)
  <2> DEFINE t == SlotAs(FoundOrCreated(k, e), "Running", "RUNNING")
  <2>1. FoundOrCreated(k, e) \in Slot
    BY SlotValues DEF FoundOrCreated, RTInv, RTTypeOK
  <2>2. t \in Slot /\ t.state = "Running" /\ t.coro = "RUNNING"
    BY <2>1, SlotValues DEF SlotState
  <2>3. slots' = [slots EXCEPT ![k] = t] /\ current_slot' = k
    BY <1>2 DEF recomp_process_resume
  <2>4. current_slot = NULL
    BY <1>2 DEF MayResume
  <2> HIDE DEF t
  <2>5. RTTypeOK'
    BY <1>2, <2>2, <2>3 DEF RTInv, RTTypeOK, recomp_process_resume
  <2>6. OnlyCurrentRuns'
    BY <2>2, <2>3, <2>4, SlotValues, RuntimeAssumption
       DEF RTInv, RTTypeOK, OnlyCurrentRuns
  <2>7. QED
    BY <2>5, <2>6 DEF RTInv
<1>3. QED
  BY <1>1, <1>2

LEMMA YieldKeeps ==
  ASSUME RTInv, NEW r \in YieldReason, recomp_process_yield(r)
  PROVE  RTInv'
<1>1. CASE current_slot = NULL
  BY <1>1, FatalKeeps DEF recomp_process_yield
<1>2. CASE current_slot # NULL
  <2> DEFINE st == IF r = "TERMINATE" THEN "Dead" ELSE "Suspended"
             t  == SlotAs(slots[current_slot], st, "SUSPENDED")
  <2>1. current_slot \in Proc /\ slots[current_slot] \in Slot
    BY <1>2 DEF RTInv, RTTypeOK, OnlyCurrentRuns
  <2>2. t \in Slot /\ t.state = st /\ t.coro = "SUSPENDED"
    BY <2>1, SlotValues DEF SlotState
  <2>3. slots' = [slots EXCEPT ![current_slot] = t] /\ current_slot' = NULL
    BY <1>2 DEF recomp_process_yield
  <2>4. st # "Running" /\ st # "Created"
    OBVIOUS
  <2> HIDE DEF t, st
  <2>5. RTTypeOK'
    BY <1>2, <2>1, <2>2, <2>3 DEF RTInv, RTTypeOK, recomp_process_yield
  <2>6. OnlyCurrentRuns'
    BY <2>1, <2>2, <2>3, <2>4, SlotValues, RuntimeAssumption
       DEF RTInv, RTTypeOK, OnlyCurrentRuns
  <2>7. QED
    BY <2>5, <2>6 DEF RTInv
<1>3. QED
  BY <1>1, <1>2

LEMMA DestroyKeeps ==
  ASSUME RTInv, NEW k \in Proc, recomp_process_destroy(k)
  PROVE  RTInv'
<1>1. CASE slots[k] # NoSlot /\ k = current_slot
  BY <1>1, FatalKeeps DEF recomp_process_destroy
<1>2. CASE ~ (slots[k] # NoSlot /\ k = current_slot)
  BY <1>2 DEF recomp_process_destroy, RTInv, RTTypeOK, OnlyCurrentRuns
<1>3. QED
  BY <1>1, <1>2
-----------------------------------------------------------------------------
(* Whatever is called in whatever order, the runtime's variables keep their
   types and the slot table agrees with the current slot. *)
THEOREM RTInvariant == RTSpec => [](RTTypeOK /\ OnlyCurrentRuns)
<1>1. RTInit => RTInv
  BY RuntimeAssumption
     DEF RTInit, RTInv, RTTypeOK, OnlyCurrentRuns, YieldReason
<1>2. RTInv /\ [RTNext]_rtVars => RTInv'
  <2> SUFFICES ASSUME RTInv, [RTNext]_rtVars PROVE RTInv'
    OBVIOUS
  <2>1. CASE UNCHANGED rtVars
    BY <2>1 DEF rtVars, RTInv, RTTypeOK, OnlyCurrentRuns
  <2>2. CASE RTNext
    BY <2>2, InitKeeps, ResumeKeeps, YieldKeeps, DestroyKeeps DEF RTNext
  <2>3. QED
    BY <2>1, <2>2
<1>3. QED
  BY <1>1, <1>2, PTL DEF RTSpec, RTInv

(* A slot that terminated stays dead until it is destroyed, and a slot keeps the
   entry function it was created for. *)
THEOREM RTTerminated == RTSpec => TerminatedNeverRuns
<1> DEFINE A == \A k \in Proc : slots[k] # NoSlot /\ slots'[k] # NoSlot =>
                  /\ slots[k].state = "Dead" => slots'[k].state = "Dead"
                  /\ slots'[k].entry = slots[k].entry
<1>1. RTInv /\ [RTNext]_rtVars => [A]_rtVars
  <2> SUFFICES ASSUME RTInv, RTNext PROVE A
    OBVIOUS
  <2>1. CASE Fatal
    BY <2>1 DEF Fatal
  <2>2. CASE recomp_process_init
    BY <2>1, <2>2 DEF recomp_process_init
  <2>3. ASSUME NEW k \in Proc, NEW e \in Entry, MayResume(k, e),
               recomp_process_resume(k, e)
        PROVE  A
    <3>1. FoundOrCreated(k, e) \in Slot
      BY SlotValues DEF FoundOrCreated, RTInv, RTTypeOK
    <3> DEFINE t == SlotAs(FoundOrCreated(k, e), "Running", "RUNNING")
    <3>2. t.entry = FoundOrCreated(k, e).entry
      BY <3>1, SlotValues DEF SlotState
    <3>3. slots' = [slots EXCEPT ![k] = t]
      BY <2>3 DEF recomp_process_resume
    <3>4. slots[k] # NoSlot => FoundOrCreated(k, e) = slots[k]
      BY DEF FoundOrCreated
    <3>5. FoundOrCreated(k, e).state # "Dead"
      BY <2>3 DEF MayResume
    <3> HIDE DEF t
    <3>6. QED
      BY <3>2, <3>3, <3>4, <3>5 DEF RTInv, RTTypeOK
  <2>4. ASSUME NEW r \in YieldReason, current_slot # NULL,
               recomp_process_yield(r)
        PROVE  A
    <3> DEFINE st == IF r = "TERMINATE" THEN "Dead" ELSE "Suspended"
               t  == SlotAs(slots[current_slot], st, "SUSPENDED")
    <3>1. /\ current_slot \in Proc /\ slots[current_slot] \in Slot
          /\ slots[current_slot].state = "Running"
      BY <2>4 DEF RTInv, RTTypeOK, OnlyCurrentRuns
    <3>2. t.entry = slots[current_slot].entry
      BY <3>1, SlotValues DEF SlotState
    <3>3. slots' = [slots EXCEPT ![current_slot] = t]
      BY <2>4 DEF recomp_process_yield
    <3> HIDE DEF t
    <3>4. QED
      BY <3>1, <3>2, <3>3 DEF RTInv, RTTypeOK
  <2>5. ASSUME NEW k \in Proc, recomp_process_destroy(k)
        PROVE  A
    BY <2>1, <2>5 DEF recomp_process_destroy, RTInv, RTTypeOK
  <2>6. QED
    BY <2>1, <2>2, <2>3, <2>4, <2>5
       DEF RTNext, recomp_process_resume, recomp_process_yield
<1>2. RTSpec => []RTInv
  BY RTInvariant DEF RTInv
<1>3. QED
  BY <1>1, <1>2, PTL DEF RTSpec, TerminatedNeverRuns
-----------------------------------------------------------------------------
Memory == [Proc -> Struct]

(* The fields of a struct, and what setting some of them leaves alone. *)
LEMMA StructFields ==
  ASSUME NEW r \in Struct
  PROVE  /\ {r.next, r.youngest_child, r.oldest_child, r.relative,
             r.parent_oldest_child, r.new_process} \subseteq Ref
         /\ r.exec_mode \in ExecMode /\ r.priority \in Nat
         /\ r.sleep_time \in Int /\ r.func \in Entry
BY DEF Struct

SameMode(a, b) == a.exec_mode = b.exec_mode /\ a.sleep_time = b.sleep_time
SameFixed(a, b) ==
  a.priority = b.priority /\ a.func = b.func /\ a.destructor = b.destructor
SameList(a, b) == a.next = b.next /\ a.youngest_child = b.youngest_child
SameTree(a, b) ==
  /\ a.oldest_child = b.oldest_child /\ a.relative = b.relative
  /\ a.parent_oldest_child = b.parent_oldest_child
  /\ a.new_process = b.new_process

(* w is r with these pointers of the main list. *)
ListSet(w, r, n, y) ==
  /\ w \in Struct /\ w.next = n /\ w.youngest_child = y
  /\ SameMode(w, r) /\ SameFixed(w, r) /\ SameTree(w, r)

LEMMA WithListFields ==
  ASSUME NEW r \in Struct, NEW n \in Ref, NEW y \in Ref
  PROVE  ListSet(WithList(r, n, y), r, n, y)
BY DEF ListSet, WithList, Struct, SameMode, SameFixed, SameTree

(* w is r with these sibling pointers. *)
TreeSet(w, r, rel, c, o, n) ==
  /\ w \in Struct /\ w.relative = rel /\ w.oldest_child = c
  /\ w.parent_oldest_child = o /\ w.new_process = n
  /\ SameMode(w, r) /\ SameFixed(w, r) /\ SameList(w, r)

LEMMA WithTreeFields ==
  ASSUME NEW r \in Struct, NEW rel \in Ref, NEW c \in Ref, NEW o \in Ref,
         NEW n \in Ref
  PROVE  TreeSet(WithTree(r, rel, c, o, n), r, rel, c, o, n)
BY DEF TreeSet, WithTree, Struct, SameMode, SameFixed, SameList

LEMMA WithModeFields ==
  ASSUME NEW r \in Struct, NEW mode \in ExecMode, NEW t \in Int
  PROVE  LET w == WithMode(r, mode, t) IN
         /\ w \in Struct /\ w.exec_mode = mode /\ w.sleep_time = t
         /\ SameFixed(w, r) /\ SameList(w, r) /\ SameTree(w, r)
BY DEF WithMode, Struct, SameFixed, SameList, SameTree
-----------------------------------------------------------------------------
LEMMA MemoryFields ==
  ASSUME NEW m \in Memory, NEW x \in Proc
  PROVE  /\ m[x] \in Struct
         /\ {m[x].next, m[x].youngest_child, m[x].oldest_child, m[x].relative,
             m[x].parent_oldest_child, m[x].new_process} \subseteq Ref
         /\ m[x].exec_mode \in ExecMode /\ m[x].priority \in Nat
         /\ m[x].sleep_time \in Int /\ m[x].func \in Entry
BY StructFields DEF Memory
-----------------------------------------------------------------------------
(* What each list function writes. *)
LEMMA UnlinkedChildFields ==
  ASSUME NEW m \in Memory, NEW p \in Proc, m[p].relative # NULL
  PROVE  LET v == UnlinkedChild(m, p) IN
         /\ v \in Memory
         /\ \A x \in Proc :
              /\ SameMode(v[x], m[x]) /\ SameFixed(v[x], m[x])
              /\ SameList(v[x], m[x])
              /\ v[x].relative = IF x = p THEN NULL ELSE m[x].relative
              /\ v[x].oldest_child =
                   IF m[p].new_process = NULL /\ x = m[p].relative
                   THEN m[p].parent_oldest_child ELSE m[x].oldest_child
              /\ v[x].parent_oldest_child =
                   IF x = m[p].new_process THEN m[p].parent_oldest_child
                   ELSE m[x].parent_oldest_child
              /\ v[x].new_process =
                   IF x = m[p].parent_oldest_child THEN m[p].new_process
                   ELSE m[x].new_process
<1> DEFINE v == UnlinkedChild(m, p)
           rel(x) == IF x = p THEN NULL ELSE m[x].relative
           kid(x) == IF m[p].new_process = NULL /\ x = m[p].relative
                     THEN m[p].parent_oldest_child ELSE m[x].oldest_child
           old(x) == IF x = m[p].new_process THEN m[p].parent_oldest_child
                     ELSE m[x].parent_oldest_child
           new(x) == IF x = m[p].parent_oldest_child THEN m[p].new_process
                     ELSE m[x].new_process
           w(x) == WithTree(m[x], rel(x), kid(x), old(x), new(x))
<1>1. v = [x \in Proc |-> w(x)]
  BY DEF UnlinkedChild
<1>2. \A x \in Proc : {rel(x), kid(x), old(x), new(x)} \subseteq Ref
  BY MemoryFields DEF Ref
<1> HIDE DEF v, rel, kid, old, new
<1>3. ASSUME NEW x \in Proc
      PROVE  TreeSet(w(x), m[x], rel(x), kid(x), old(x), new(x))
  <2>1. m[x] \in Struct
    BY DEF Memory
  <2>2. rel(x) \in Ref /\ kid(x) \in Ref /\ old(x) \in Ref /\ new(x) \in Ref
    BY <1>2
  <2>3. QED
    BY <2>1, <2>2, WithTreeFields
<1> HIDE DEF w
<1>4. v \in Memory /\ \A x \in Proc : v[x] = w(x)
  BY <1>1, <1>3 DEF Memory, TreeSet
<1>5. QED
  BY <1>3, <1>4 DEF TreeSet, v, rel, kid, old, new

(* Being unlinked twice is harmless: afterwards the process has no relative. *)
LEMMA UnlinkedChildKeeps ==
  ASSUME NEW m \in Memory, NEW p \in Proc
  PROVE  LET v == UnlinkedChild(m, p) IN
         /\ v \in Memory
         /\ v[p].relative = NULL
         /\ \A x \in Proc : /\ SameMode(v[x], m[x]) /\ SameFixed(v[x], m[x])
                            /\ SameList(v[x], m[x])
<1>1. CASE m[p].relative = NULL
  BY <1>1 DEF UnlinkedChild, SameMode, SameFixed, SameList
<1>2. CASE m[p].relative # NULL
  BY <1>2, UnlinkedChildFields
<1>3. QED
  BY <1>1, <1>2

LEMMA LinkedChildFields ==
  ASSUME NEW m \in Memory, NEW root \in Proc, NEW child \in Proc
  PROVE  LET u == UnlinkedChild(m, child)
             v == LinkedChild(m, root, child)
             o == u[root].oldest_child
         IN
         /\ v \in Memory
         /\ \A x \in Proc :
              /\ SameMode(v[x], m[x]) /\ SameFixed(v[x], m[x])
              /\ SameList(v[x], m[x])
              /\ v[x].relative = IF x = child THEN root ELSE u[x].relative
              /\ v[x].oldest_child =
                   IF x = root THEN child ELSE u[x].oldest_child
              /\ v[x].parent_oldest_child =
                   IF x = child THEN o ELSE u[x].parent_oldest_child
              /\ v[x].new_process =
                   IF x = child THEN NULL
                   ELSE IF x = o THEN child ELSE u[x].new_process
<1> DEFINE u == UnlinkedChild(m, child)
           v == LinkedChild(m, root, child)
           o == u[root].oldest_child
           rel(x) == IF x = child THEN root ELSE u[x].relative
           kid(x) == IF x = root THEN child ELSE u[x].oldest_child
           old(x) == IF x = child THEN o ELSE u[x].parent_oldest_child
           new(x) == IF x = child THEN NULL
                     ELSE IF x = o THEN child ELSE u[x].new_process
           w(x) == WithTree(u[x], rel(x), kid(x), old(x), new(x))
<1>1. v = [x \in Proc |-> w(x)]
  BY DEF LinkedChild
<1>2. u \in Memory /\ \A x \in Proc : /\ SameMode(u[x], m[x])
                                      /\ SameFixed(u[x], m[x])
                                      /\ SameList(u[x], m[x])
  BY UnlinkedChildKeeps
<1> HIDE DEF u, v
<1>3. \A x \in Proc : {rel(x), kid(x), old(x), new(x)} \subseteq Ref
  BY <1>2, MemoryFields DEF Ref
<1> HIDE DEF rel, kid, old, new
<1>4. ASSUME NEW x \in Proc
      PROVE  TreeSet(w(x), u[x], rel(x), kid(x), old(x), new(x))
  <2>1. u[x] \in Struct
    BY <1>2 DEF Memory
  <2>2. rel(x) \in Ref /\ kid(x) \in Ref /\ old(x) \in Ref /\ new(x) \in Ref
    BY <1>3
  <2>3. QED
    BY <2>1, <2>2, WithTreeFields
<1> HIDE DEF w
<1>5. v \in Memory /\ \A x \in Proc : v[x] = w(x)
  BY <1>1, <1>4 DEF Memory, TreeSet
<1> HIDE DEF o
<1>6. ASSUME NEW x \in Proc
      PROVE  /\ SameMode(v[x], m[x]) /\ SameFixed(v[x], m[x])
             /\ SameList(v[x], m[x])
  <2>1. /\ v[x] = w(x)
        /\ SameMode(w(x), u[x]) /\ SameFixed(w(x), u[x]) /\ SameList(w(x), u[x])
        /\ SameMode(u[x], m[x]) /\ SameFixed(u[x], m[x]) /\ SameList(u[x], m[x])
    BY <1>2, <1>4, <1>5 DEF TreeSet
  <2>2. SameMode(v[x], m[x])
    BY <2>1 DEF SameMode
  <2>3. SameFixed(v[x], m[x])
    BY <2>1 DEF SameFixed
  <2>4. SameList(v[x], m[x])
    BY <2>1 DEF SameList
  <2>5. QED
    BY <2>2, <2>3, <2>4
<1>7. QED
  BY <1>4, <1>5, <1>6 DEF TreeSet, u, v, o, rel, kid, old, new

(* The functions of a process's mode set no other field. *)
OnlyMode(s, r) ==
  s \in Struct /\ SameFixed(s, r) /\ SameList(s, r) /\ SameTree(s, r)

LEMMA SameStruct ==
  ASSUME NEW r \in Struct
  PROVE  OnlyMode(r, r)
BY DEF OnlyMode, SameFixed, SameList, SameTree

LEMMA ModeChanged ==
  ASSUME NEW r \in Struct, NEW mode \in ExecMode, NEW t \in Int
  PROVE  OnlyMode(WithMode(r, mode, t), r)
BY WithModeFields DEF OnlyMode

LEMMA WokenMode ==
  ASSUME NEW r \in Struct
  PROVE  OnlyMode(Woken(r), r)
BY SameStruct, ModeChanged, StructFields DEF Woken, ExecMode

LEMMA KillMarkedMode ==
  ASSUME NEW r \in Struct
  PROVE  OnlyMode(KillMarked(r), r) /\ KillMarked(r).exec_mode = "DEAD"
<1>1. Woken(r).sleep_time \in Int
  BY WokenMode, StructFields DEF OnlyMode
<1>2. "DEAD" \in ExecMode
  BY DEF ExecMode
<1>3. QED
  BY <1>1, <1>2, SameStruct, ModeChanged, WithModeFields DEF KillMarked

LEMMA SleptMode ==
  ASSUME NEW r \in Struct, NEW t \in Int
  PROVE  OnlyMode(Slept(r, t), r)
BY SameStruct, ModeChanged, StructFields DEF Slept, ExecMode

LEMMA TickedMode ==
  ASSUME NEW r \in Struct, time \in Int
  PROVE  OnlyMode(Ticked(r), r)
<1>1. r.sleep_time \in Int /\ r.sleep_time - time \in Int
  BY StructFields
<1>2. "DEFAULT" \in ExecMode /\ "SLEEPING" \in ExecMode
  BY DEF ExecMode
<1>3. QED
  BY <1>1, <1>2, SameStruct, ModeChanged DEF Ticked

LEMMA ChildrenKilledFields ==
  ASSUME NEW m \in Memory, NEW p \in Proc
  PROVE  LET v == ChildrenKilled(m, p)
             K == KillTree(m, p)
         IN
         /\ v \in Memory
         /\ \A x \in Proc :
              /\ SameFixed(v[x], m[x]) /\ SameList(v[x], m[x])
              /\ v[x].relative = m[x].relative
              /\ v[x].oldest_child =
                   IF x \in K \cup {p} THEN NULL ELSE m[x].oldest_child
              /\ v[x].parent_oldest_child = m[x].parent_oldest_child
              /\ v[x].new_process = m[x].new_process
              /\ v[x].exec_mode = IF x \in K THEN "DEAD" ELSE m[x].exec_mode
<1> DEFINE v == ChildrenKilled(m, p)
           K == KillTree(m, p)
           r(x) == IF x \in K THEN KillMarked(m[x]) ELSE m[x]
           kid(x) == IF x \in K \cup {p} THEN NULL ELSE m[x].oldest_child
           w(x) == WithTree(r(x), m[x].relative, kid(x),
                            m[x].parent_oldest_child, m[x].new_process)
<1>1. v = [x \in Proc |-> w(x)]
  BY DEF ChildrenKilled
<1> HIDE DEF v, K
<1>2. ASSUME NEW x \in Proc
      PROVE  /\ OnlyMode(r(x), m[x])
             /\ r(x).exec_mode = IF x \in K THEN "DEAD" ELSE m[x].exec_mode
  BY KillMarkedMode, SameStruct DEF Memory
<1>3. \A x \in Proc : kid(x) \in Ref
  BY MemoryFields DEF Ref
<1> HIDE DEF r, kid
<1>4. ASSUME NEW x \in Proc
      PROVE  TreeSet(w(x), r(x), m[x].relative, kid(x),
                     m[x].parent_oldest_child, m[x].new_process)
  <2>1. r(x) \in Struct
    BY <1>2 DEF OnlyMode
  <2>2. /\ m[x].relative \in Ref /\ kid(x) \in Ref
        /\ m[x].parent_oldest_child \in Ref /\ m[x].new_process \in Ref
    BY <1>3, MemoryFields
  <2>3. QED
    BY <2>1, <2>2, WithTreeFields
<1> HIDE DEF w
<1>5. v \in Memory /\ \A x \in Proc : v[x] = w(x)
  BY <1>1, <1>4 DEF Memory, TreeSet
<1>6. \A x \in Proc : SameFixed(v[x], m[x]) /\ SameList(v[x], m[x])
  BY <1>2, <1>4, <1>5 DEF TreeSet, OnlyMode, SameFixed, SameList
<1>7. \A x \in Proc :
        v[x].exec_mode = IF x \in K THEN "DEAD" ELSE m[x].exec_mode
  BY <1>2, <1>4, <1>5 DEF TreeSet, SameMode
<1>8. QED
  BY <1>4, <1>5, <1>6, <1>7 DEF TreeSet, v, K, kid
-----------------------------------------------------------------------------
(* n is m with other sibling pointers, modes or destructors: the main list is
   the same, and so is what a resume is checked against. *)
SameLinks(s, r) == SameList(s, r) /\ s.priority = r.priority /\ s.func = r.func

Quiet(n, m) == n \in Memory /\ \A x \in Proc : SameLinks(n[x], m[x])

LEMMA QuietTransitive ==
  ASSUME NEW m, NEW n, NEW o, Quiet(n, m), Quiet(o, n)
  PROVE  Quiet(o, m)
BY DEF Quiet, SameLinks, SameList

LEMMA UnlinkedChildQuiet ==
  ASSUME NEW m \in Memory, NEW p \in Proc
  PROVE  Quiet(UnlinkedChild(m, p), m)
BY UnlinkedChildKeeps DEF Quiet, SameLinks, SameFixed

LEMMA LinkedChildQuiet ==
  ASSUME NEW m \in Memory, NEW root \in Proc, NEW child \in Proc
  PROVE  Quiet(LinkedChild(m, root, child), m)
BY LinkedChildFields DEF Quiet, SameLinks, SameFixed

LEMMA ChildrenKilledQuiet ==
  ASSUME NEW m \in Memory, NEW p \in Proc
  PROVE  Quiet(ChildrenKilled(m, p), m)
BY ChildrenKilledFields DEF Quiet, SameLinks, SameFixed

(* One struct changed in its mode. *)
LEMMA OneModeQuiet ==
  ASSUME NEW m \in Memory, NEW p \in Proc, NEW s, OnlyMode(s, m[p])
  PROVE  Quiet([m EXCEPT ![p] = s], m)
BY DEF Quiet, SameLinks, OnlyMode, SameList, SameFixed, Memory

(* Any structs changed in their mode. *)
LEMMA ModesQuiet ==
  ASSUME NEW m \in Memory, NEW n, n = [x \in Proc |-> n[x]],
         \A x \in Proc : OnlyMode(n[x], m[x])
  PROVE  Quiet(n, m)
BY DEF Quiet, SameLinks, OnlyMode, SameList, SameFixed, Memory

LEMMA OneFieldQuiet ==
  ASSUME NEW m \in Memory, NEW p \in Proc
  PROVE  /\ \A d \in BOOLEAN : Quiet([m EXCEPT ![p].destructor = d], m)
         /\ \A e \in ExecMode : Quiet([m EXCEPT ![p].exec_mode = e], m)
BY DEF Quiet, SameLinks, SameList, Memory, Struct

LEMMA KilledQuiet ==
  ASSUME NEW m \in Memory, NEW p \in Proc
  PROVE  Quiet(Killed(m, p), m)
<1> DEFINE c == ChildrenKilled(m, p)
           u == UnlinkedChild(c, p)
           v == Killed(m, p)
<1>1. Quiet(c, m) /\ c \in Memory
  BY ChildrenKilledQuiet DEF Quiet
<1>2. Quiet(u, c) /\ u \in Memory
  BY <1>1, UnlinkedChildQuiet DEF Quiet
<1>3. v = [x \in Proc |-> IF x = p THEN KillMarked(u[x]) ELSE u[x]]
  BY DEF Killed
<1> HIDE DEF c, u, v
<1>4. \A x \in Proc : u[x] \in Struct
  BY <1>2 DEF Memory
<1>5. \A x \in Proc : OnlyMode(v[x], u[x])
  BY <1>3, <1>4, KillMarkedMode, SameStruct
<1>6. Quiet(v, u)
  BY <1>2, <1>3, <1>5, ModesQuiet
<1>7. Quiet(v, m)
  BY <1>1, <1>2, <1>6, QuietTransitive
<1>8. QED
  BY <1>7 DEF v
-----------------------------------------------------------------------------
LEMMA FreshStruct ==
  ASSUME NEW prio \in Nat
  PROVE  /\ Fresh(prio) \in Struct
         /\ Fresh(prio).priority = prio /\ Fresh(prio).func = "body"
BY EntryAssumption DEF Fresh, Struct, Ref, ExecMode

(* m is the memory with a new process p linked into the main list behind s and
   in front of n. *)
Inserted(m, p, prio, s, n) ==
  /\ m \in Memory
  /\ m[p].next = n /\ m[p].youngest_child = s
  /\ m[p].priority = prio /\ m[p].func = "body"
  /\ \A x \in Proc \ {p} :
       /\ m[x].next = IF x = s THEN p ELSE proc[x].next
       /\ m[x].youngest_child = IF x = n THEN p ELSE proc[x].youngest_child
       /\ m[x].priority = proc[x].priority /\ m[x].func = proc[x].func

Behind(s) == IF s = NULL THEN top_process ELSE proc[s].next

(* What a creation writes: the new struct, linked behind s. *)
LEMMA CreatedFields ==
  ASSUME proc \in Memory, top_process \in Ref, NEW p \in Proc,
         NEW prio \in Nat, NEW s \in Ref, s # p
  PROVE  LET v == CreatedProcess(p, prio, s)
             n == Behind(s)
         IN
         /\ v \in Memory
         /\ v[p].next = n /\ v[p].youngest_child = s
         /\ SameMode(v[p], Fresh(prio)) /\ SameFixed(v[p], Fresh(prio))
         /\ SameTree(v[p], Fresh(prio))
         /\ \A x \in Proc \ {p} :
              /\ v[x].next = IF x = s THEN p ELSE proc[x].next
              /\ v[x].youngest_child =
                   IF x = n THEN p ELSE proc[x].youngest_child
              /\ SameMode(v[x], proc[x]) /\ SameFixed(v[x], proc[x])
              /\ SameTree(v[x], proc[x])
<1> DEFINE m == [proc EXCEPT ![p] = Fresh(prio)]
           n == Behind(s)
           nxt(x) == IF x = p THEN n ELSE IF x = s THEN p ELSE m[x].next
           yng(x) == IF x = p THEN s ELSE IF x = n THEN p
                     ELSE m[x].youngest_child
           v == CreatedProcess(p, prio, s)
<1>1. m \in Memory /\ m[p] = Fresh(prio)
      /\ \A x \in Proc \ {p} : m[x] = proc[x]
  BY FreshStruct DEF Memory
<1>2. n = IF s = NULL THEN top_process ELSE m[s].next
  BY <1>1 DEF Behind, Ref
<1>3. v = [x \in Proc |-> WithList(m[x], nxt(x), yng(x))]
  BY <1>2 DEF CreatedProcess, LinkedProcess
<1>4. n \in Ref
  BY MemoryFields DEF Behind, Ref
<1> HIDE DEF m, n, v
<1>5. \A x \in Proc : nxt(x) \in Ref /\ yng(x) \in Ref
  BY <1>1, <1>4, MemoryFields DEF Ref
<1> HIDE DEF nxt, yng
<1>6. \A x \in Proc : ListSet(v[x], m[x], nxt(x), yng(x))
  <2>1. \A x \in Proc : m[x] \in Struct
    BY <1>1 DEF Memory
  <2>2. QED
    BY <1>3, <1>5, <2>1, WithListFields
<1>7. v \in Memory
  BY <1>3, <1>6 DEF Memory, ListSet
<1>8. QED
  BY <1>1, <1>6, <1>7 DEF ListSet, v, n, nxt, yng

LEMMA CreatedInserted ==
  ASSUME proc \in Memory, top_process \in Ref, NEW p \in Proc,
         NEW prio \in Nat, NEW s \in Ref, s # p
  PROVE  Inserted(CreatedProcess(p, prio, s), p, prio, s, Behind(s))
BY CreatedFields, FreshStruct DEF Inserted, SameFixed

LEMMA InsertedQuiet ==
  ASSUME NEW m, NEW w, NEW p \in Proc, NEW prio, NEW s, NEW n,
         Inserted(m, p, prio, s, n), Quiet(w, m)
  PROVE  Inserted(w, p, prio, s, n)
BY DEF Inserted, Quiet, SameLinks, SameList

(* What taking a process off the main list writes. *)
LEMMA UnlinkedProcessFields ==
  ASSUME NEW m \in Memory, NEW p \in Proc
  PROVE  LET v == UnlinkedProcess(m, p)
             n == m[p].next
             y == m[p].youngest_child
         IN
         /\ v \in Memory
         /\ \A x \in Proc :
              /\ v[x].next = IF x = y THEN n ELSE m[x].next
              /\ v[x].youngest_child = IF x = n THEN y ELSE m[x].youngest_child
              /\ SameMode(v[x], m[x]) /\ SameFixed(v[x], m[x])
              /\ SameTree(v[x], m[x])
<1> DEFINE n == m[p].next
           y == m[p].youngest_child
           nxt(x) == IF x = y THEN n ELSE m[x].next
           yng(x) == IF x = n THEN y ELSE m[x].youngest_child
           v == UnlinkedProcess(m, p)
<1>1. v = [x \in Proc |-> WithList(m[x], nxt(x), yng(x))]
  BY DEF UnlinkedProcess
<1>2. n \in Ref /\ y \in Ref
  BY MemoryFields
<1> HIDE DEF n, y, v
<1>3. \A x \in Proc : nxt(x) \in Ref /\ yng(x) \in Ref
  BY <1>2, MemoryFields
<1> HIDE DEF nxt, yng
<1>4. \A x \in Proc :
        /\ v[x] \in Struct
        /\ v[x].next = nxt(x) /\ v[x].youngest_child = yng(x)
        /\ SameMode(v[x], m[x]) /\ SameFixed(v[x], m[x]) /\ SameTree(v[x], m[x])
  <2>1. \A x \in Proc : m[x] \in Struct
    BY DEF Memory
  <2>2. \A x \in Proc : ListSet(v[x], m[x], nxt(x), yng(x))
    BY <1>1, <1>3, <2>1, WithListFields
  <2>3. QED
    BY <2>2 DEF ListSet
<1>5. v \in Memory
  BY <1>1, <1>4 DEF Memory
<1>6. QED
  BY <1>4, <1>5 DEF nxt, yng, n, y, v
-----------------------------------------------------------------------------
(* None of the conjuncts is inductive without the others: the resume that NoFatal
   is about reads the slot SlotsMatchProcesses describes, at the cursor CursorLive
   keeps valid, which moves along the list of ListOK. *)
ProcInv ==
  /\ RTInv /\ TypeOK /\ NoFatal
  /\ ControlOK /\ CursorLive /\ SlotsMatchProcesses /\ ListOK

LEMMA Types ==
  ASSUME ProcInv
  PROVE  /\ proc \in Memory /\ live \subseteq Proc
         /\ top_process \in Ref /\ current_process \in Ref
         /\ next_proc \in Ref /\ g_pending_heap_free \in Ref
         /\ current_process # NULL => current_process \in Proc
         /\ NULL \notin Proc
BY RuntimeAssumption DEF ProcInv, TypeOK, Memory, Ref

(* Between a termination and the scheduler's answer only, a live process is not
   on the list. *)
LEMMA AllListed ==
  ASSUME ProcInv, pc # "returned"
  PROVE  Listed = live /\ g_pending_heap_free = NULL
BY Types DEF ProcInv, ControlOK, Listed

LEMMA U16Range ==
  ASSUME NEW n \in Int
  PROVE  n % U16 \in 0 .. U16 - 1
<1>1. U16 \in Int /\ U16 > 0
  BY DEF U16
<1>2. ASSUME NEW m \in Int, m > 0 PROVE n % m \in 0 .. m - 1
  BY <1>2
<1>3. QED
  BY <1>1, <1>2

LEMMA ListSame ==
  ASSUME ListOK, Listed' = Listed, top_process' = top_process,
         \A x \in Listed : /\ SameList(proc'[x], proc[x])
                           /\ proc'[x].priority = proc[x].priority
  PROVE  ListOK'
BY DEF ListOK, NoCycle, SameList

LEMMA RTSame ==
  ASSUME RTInv, UNCHANGED rtVars
  PROVE  RTInv'
BY DEF RTInv, RTTypeOK, OnlyCurrentRuns, rtVars
-----------------------------------------------------------------------------
(***************************************************************************)
(* Steps that leave the main list, control and the runtime alone.          *)
(***************************************************************************)
LEMMA QuietKeeps ==
  ASSUME ProcInv, Quiet(proc', proc),
         UNCHANGED <<rtVars, listVars, passVars, heapVars, cont>>,
         sweep' \in [at : Listed \cup {NULL}, lo : Nat, hi : Nat],
         pc' \in Control, ControlOK', pc = "returned" <=> pc' = "returned"
  PROVE  ProcInv'
<1>1. RTInv'
  BY RTSame DEF ProcInv
<1>2. Listed \subseteq Proc
  BY Types DEF Listed
<1>3. sweep'.at \in Listed \cup {NULL} /\ sweep' \in [at : Ref, lo : Nat, hi : Nat]
  BY <1>2 DEF Ref
<1>4. TypeOK'
  BY <1>1, <1>3 DEF ProcInv, TypeOK, RTInv, Quiet, Memory, listVars, passVars,
     heapVars
<1>5. Listed' = Listed
  BY DEF Listed, listVars, heapVars
<1>6. ListOK'
  BY <1>2, <1>5, ListSame DEF ProcInv, Quiet, SameLinks, listVars
<1>7. CursorLive'
  BY <1>3, <1>5 DEF ProcInv, CursorLive, listVars, passVars
<1>8. SlotsMatchProcesses'
  BY DEF ProcInv, SlotsMatchProcesses, Quiet, SameLinks, rtVars, listVars,
     passVars, heapVars
<1>9. NoFatal'
  BY DEF ProcInv, NoFatal, rtVars, heapVars
<1>10. QED
  BY <1>1, <1>4, <1>6, <1>7, <1>8, <1>9 DEF ProcInv

LEMMA SweepType ==
  ASSUME ProcInv
  PROVE  sweep \in [at : Listed \cup {NULL}, lo : Nat, hi : Nat]
BY DEF ProcInv, TypeOK, CursorLive

LEMMA CallKeeps ==
  ASSUME ProcInv, NEW m, Quiet(m, proc), CallOnStructs(m)
  PROVE  ProcInv'
<1>1. UNCHANGED <<rtVars, listVars, passVars, heapVars, cont, sweep, pc>>
  BY DEF CallOnStructs, CallLeaves
<1>2. ControlOK'
  BY <1>1 DEF ProcInv, ControlOK, rtVars, listVars, passVars, heapVars
<1>3. pc' \in Control
  BY <1>1 DEF ProcInv, TypeOK
<1>4. QED
  BY <1>1, <1>2, <1>3, SweepType, QuietKeeps DEF CallOnStructs

LEMMA CallsKeep ==
  ASSUME ProcInv,
         \/ \E root, child \in live : LinkChildProcess(root, child)
         \/ \E p \in live : KillChildProcess(p)
         \/ \E p \in live : KillProcess(p)
         \/ \E d \in Destructors : SetProcessDestruct(d)
         \/ TimesOut
  PROVE  ProcInv'
<1>1. proc \in Memory /\ live \subseteq Proc
  BY Types
<1>2. ASSUME NEW root \in live, NEW child \in live, LinkChildProcess(root, child)
      PROVE  ProcInv'
  BY <1>1, <1>2, LinkedChildQuiet, CallKeeps DEF LinkChildProcess
<1>3. ASSUME NEW p \in live, KillChildProcess(p)
      PROVE  ProcInv'
  BY <1>1, <1>3, ChildrenKilledQuiet, CallKeeps DEF KillChildProcess
<1>4. ASSUME NEW p \in live, KillProcess(p)
      PROVE  ProcInv'
  BY <1>1, <1>4, KilledQuiet, CallKeeps DEF KillProcess
<1>5. ASSUME NEW d \in Destructors, SetProcessDestruct(d)
      PROVE  ProcInv'
  <2>1. current_process \in Proc /\ d \in BOOLEAN
    BY <1>5, Types, DestructorAssumption
       DEF ProcInv, ControlOK, SetProcessDestruct, InCode
  <2>2. QED
    BY <1>1, <1>5, <2>1, OneFieldQuiet, CallKeeps DEF SetProcessDestruct
<1>6. ASSUME NEW p \in live, WakeupProcess(p)
      PROVE  ProcInv'
  <2>1. OnlyMode(Woken(proc[p]), proc[p])
    BY <1>1, WokenMode DEF Memory
  <2>2. QED
    BY <1>1, <1>6, <2>1, OneModeQuiet, CallKeeps DEF WakeupProcess
<1>7. ASSUME NEW p \in live, NEW t \in SleepTimes, SleepProcessP(p, t)
      PROVE  ProcInv'
  <2>1. OnlyMode(Slept(proc[p], t), proc[p])
    BY <1>1, SleptMode, TimesAssumption DEF Memory
  <2>2. QED
    BY <1>1, <1>7, <2>1, OneModeQuiet, CallKeeps DEF SleepProcessP
<1>8. ASSUME NEW lo \in Priorities, NEW hi \in Priorities,
             WakeupPrioProcess(lo, hi)
      PROVE  ProcInv'
  <2> DEFINE n == [x \in Proc |-> IF x \in live /\ InRange(x, lo, hi)
                                  THEN Woken(proc[x]) ELSE proc[x]]
  <2>1. \A x \in Proc : OnlyMode(n[x], proc[x])
    BY <1>1, WokenMode, SameStruct DEF Memory
  <2>2. Quiet(n, proc)
    BY <1>1, <2>1, ModesQuiet
  <2>3. CallOnStructs(n)
    BY <1>8 DEF WakeupPrioProcess
  <2> HIDE DEF n
  <2>4. QED
    BY <2>2, <2>3, CallKeeps
<1>9. ASSUME NEW lo \in Priorities, NEW hi \in Priorities, NEW t \in SleepTimes,
             SleepPrioProcess(lo, hi, t)
      PROVE  ProcInv'
  <2> DEFINE n == [x \in Proc |-> IF x \in live /\ InRange(x, lo, hi)
                                  THEN Slept(proc[x], t) ELSE proc[x]]
  <2>1. \A x \in Proc : OnlyMode(n[x], proc[x])
    BY <1>1, SleptMode, SameStruct, TimesAssumption DEF Memory
  <2>2. Quiet(n, proc)
    BY <1>1, <2>1, ModesQuiet
  <2>3. CallOnStructs(n)
    BY <1>9 DEF SleepPrioProcess
  <2> HIDE DEF n
  <2>4. QED
    BY <2>2, <2>3, CallKeeps
<1>10. QED
  BY <1>2, <1>3, <1>4, <1>5, <1>6, <1>7, <1>8, <1>9 DEF TimesOut

LEMMA SweepKeeps ==
  ASSUME ProcInv,
         \/ \E lo, hi \in Priorities : lo <= hi /\ KillPrioProcess(lo, hi)
         \/ KillPrioIteration
         \/ KillPrioReturn
  PROVE  ProcInv'
<1>1. proc \in Memory /\ Listed \subseteq Proc
  BY Types DEF Listed
<1>2. Quiet(proc, proc)
  BY <1>1 DEF Quiet, SameLinks, SameList
<1>3. ASSUME NEW lo \in Priorities, NEW hi \in Priorities, KillPrioProcess(lo, hi)
      PROVE  ProcInv'
  <2>1. sweep' \in [at : Listed \cup {NULL}, lo : Nat, hi : Nat] /\ pc' = "sweep"
    BY <1>3, PrioritiesAssumption DEF KillPrioProcess, ProcInv, CursorLive
  <2>2. pc \in {"idle", "process"} /\ pc' \in Control
    BY <1>3, <2>1 DEF KillPrioProcess, Calling, InCode, Control
  <2>3. ControlOK'
    BY <1>3, <2>1, <2>2 DEF KillPrioProcess, ProcInv, ControlOK, rtVars,
       listVars, passVars, heapVars
  <2>4. QED
    BY <1>2, <1>3, <2>1, <2>2, <2>3, QuietKeeps DEF KillPrioProcess
<1>4. ASSUME KillPrioIteration
      PROVE  ProcInv'
  <2>1. sweep.at \in Listed /\ sweep.at \in Proc
    BY <1>1, <1>4 DEF KillPrioIteration, ProcInv, CursorLive
  <2>2. Quiet(proc', proc)
    BY <1>1, <1>2, <1>4, <2>1, KilledQuiet DEF KillPrioIteration
  <2>3. proc[sweep.at].next \in Listed \cup {NULL}
    BY <2>1 DEF ProcInv, ListOK
  <2>4. sweep' \in [at : Listed \cup {NULL}, lo : Nat, hi : Nat]
    BY <1>4, <2>3, SweepType DEF KillPrioIteration
  <2>5. pc = "sweep" /\ pc' = "sweep" /\ pc' \in Control
    BY <1>4 DEF KillPrioIteration, Control
  <2>6. ControlOK'
    BY <1>4, <2>5 DEF KillPrioIteration, ProcInv, ControlOK, rtVars,
       listVars, passVars, heapVars
  <2>7. QED
    BY <1>4, <2>2, <2>4, <2>5, <2>6, QuietKeeps DEF KillPrioIteration
<1>5. ASSUME KillPrioReturn
      PROVE  ProcInv'
  <2>1. sweep' = NoSweep /\ pc = "sweep" /\ pc' \in {"idle", "process"}
    BY <1>5 DEF KillPrioReturn
  <2>2. sweep' \in [at : Listed \cup {NULL}, lo : Nat, hi : Nat] /\ pc' \in Control
    BY <2>1 DEF NoSweep, Control
  <2>3. ControlOK'
    BY <1>5, <2>1 DEF KillPrioReturn, ProcInv, ControlOK, rtVars, listVars,
       passVars, heapVars
  <2>4. QED
    BY <1>2, <1>5, <2>1, <2>2, <2>3, QuietKeeps DEF KillPrioReturn
<1>6. QED
  BY <1>3, <1>4, <1>5
-----------------------------------------------------------------------------
(***************************************************************************)
(* Creation: the list argument is about Listed, proc and top_process only. *)
(***************************************************************************)
LEMMA InsertedList ==
  ASSUME ProcInv, NEW p \in Proc \ live, NEW prio \in Nat,
         NEW s \in Listed \cup {NULL}, InsertsAfter(s, prio),
         Inserted(proc', p, prio, s, Behind(s)),
         Listed' = Listed \cup {p},
         top_process' = IF s = NULL THEN p ELSE top_process
  PROVE  ListOK'
<1> DEFINE n == Behind(s)
<1>1. /\ p \notin Listed /\ p # NULL /\ NULL \notin Listed
      /\ Listed \subseteq Proc \ {p}
  BY Types DEF Listed
<1>2. n \in Listed \cup {NULL}
  BY DEF ProcInv, ListOK, Behind
<1>3. n # NULL => proc[n].youngest_child = s
  BY DEF ProcInv, ListOK, Behind
<1>4. /\ s # NULL => /\ proc[s].next = n /\ proc[s].priority >= prio
      /\ n # NULL => proc[n].priority < prio
      /\ s = NULL => n = top_process
  BY DEF InsertsAfter, Behind
<1>5. \A x \in Listed \cup {p} : proc'[x].priority \in Nat
  BY <1>1, MemoryFields DEF Inserted
<1> HIDE DEF n
<1>6. ASSUME NEW x \in Listed'
      PROVE  /\ proc'[x].next # NULL =>
                  /\ proc'[x].next \in Listed'
                  /\ proc'[proc'[x].next].youngest_child = x
                  /\ proc'[x].priority >= proc'[proc'[x].next].priority
             /\ proc'[x].youngest_child # NULL =>
                  /\ proc'[x].youngest_child \in Listed'
                  /\ proc'[proc'[x].youngest_child].next = x
             /\ proc'[x].youngest_child = NULL <=> x = top_process'
  <2>1. CASE x = p
    <3>1. proc'[p].next = n /\ proc'[p].youngest_child = s
          /\ proc'[p].priority = prio
      BY DEF Inserted, n
    <3>2. ASSUME n # NULL
          PROVE  /\ n \in Listed' /\ proc'[n].youngest_child = p
                 /\ prio >= proc'[n].priority
      <4>1. n \in Proc \ {p}
        BY <1>1, <1>2, <3>2
      <4>2. proc'[n].youngest_child = p /\ proc'[n].priority = proc[n].priority
        BY <4>1 DEF Inserted, n
      <4>3. proc[n].priority < prio /\ proc[n].priority \in Nat
        BY <1>2, <1>4, <1>5, <3>2, <4>2
      <4>4. QED
        BY <1>2, <3>2, <4>2, <4>3
    <3>3. ASSUME s # NULL
          PROVE  s \in Listed' /\ proc'[s].next = p
      BY <1>1, <3>3 DEF Inserted
    <3>4. s = NULL <=> p = top_process'
      BY <1>1 DEF ProcInv, ListOK
    <3>5. QED
      BY <2>1, <3>1, <3>2, <3>3, <3>4
  <2>2. CASE x \in Listed
    <3>1. /\ proc[x].next # NULL =>
               /\ proc[x].next \in Listed
               /\ proc[proc[x].next].youngest_child = x
               /\ proc[x].priority >= proc[proc[x].next].priority
          /\ proc[x].youngest_child # NULL =>
               /\ proc[x].youngest_child \in Listed
               /\ proc[proc[x].youngest_child].next = x
          /\ proc[x].youngest_child = NULL <=> x = top_process
      BY <2>2 DEF ProcInv, ListOK
    <3>2. /\ proc'[x].next = IF x = s THEN p ELSE proc[x].next
          /\ proc'[x].youngest_child = IF x = n THEN p
                                       ELSE proc[x].youngest_child
      BY <1>1, <2>2 DEF Inserted, n
    <3>3. /\ proc'[p].next = n /\ proc'[p].youngest_child = s
          /\ proc'[p].priority = prio
          /\ \A z \in Listed : proc'[z].priority = proc[z].priority
      BY <1>1 DEF Inserted, n
    <3>4. ASSUME proc'[x].next # NULL
          PROVE  /\ proc'[x].next \in Listed'
                 /\ proc'[proc'[x].next].youngest_child = x
                 /\ proc'[x].priority >= proc'[proc'[x].next].priority
      <4>1. CASE x = s
        BY <1>1, <1>4, <3>2, <3>3, <4>1, <2>2
      <4>2. CASE x # s
        <5>1. proc[x].next # n
          BY <1>3, <3>1, <3>2, <3>4, <4>2
        <5>2. QED
          BY <1>1, <2>2, <3>1, <3>2, <3>3, <3>4, <4>2, <5>1 DEF Inserted, n
      <4>3. QED
        BY <4>1, <4>2
    <3>5. ASSUME proc'[x].youngest_child # NULL
          PROVE  /\ proc'[x].youngest_child \in Listed'
                 /\ proc'[proc'[x].youngest_child].next = x
      <4>1. CASE x = n
        BY <3>2, <3>3, <4>1
      <4>2. CASE x # n
        <5>1. proc[x].youngest_child # s
          BY <1>4, <3>1, <3>2, <3>5, <4>2
        <5>2. QED
          BY <1>1, <3>1, <3>2, <3>5, <4>2, <5>1 DEF Inserted
      <4>3. QED
        BY <4>1, <4>2
    <3>6. proc'[x].youngest_child = NULL <=> x = top_process'
      BY <1>1, <1>2, <1>3, <1>4, <2>2, <3>1, <3>2
    <3>7. QED
      BY <3>4, <3>5, <3>6
  <2>3. QED
    BY <2>1, <2>2
<1>7. NoCycle'
  <2> SUFFICES ASSUME NEW S \in SUBSET Listed', S # {}
               PROVE  \E x \in S : proc'[x].youngest_child \notin S
    BY DEF NoCycle
  <2>1. ASSUME S \ {p} # {}
        PROVE  \E x \in S \ {p} : proc[x].youngest_child \notin S \ {p}
    <3>1. S \ {p} \in SUBSET Listed
      OBVIOUS
    <3>2. QED
      BY <2>1, <3>1 DEF ProcInv, ListOK, NoCycle
  <2>2. \A x \in S \ {p} : proc'[x].youngest_child =
                             IF x = n THEN p ELSE proc[x].youngest_child
    BY <1>1 DEF Inserted, n
  <2>3. proc'[p].youngest_child = s /\ s # p
    BY <1>1 DEF Inserted
  <2>4. \A x \in S \ {p} : proc[x].youngest_child # p
    BY <1>1 DEF ProcInv, ListOK
  <2>5. CASE S \ {p} = {}
    BY <2>3, <2>5
  <2>6. CASE S \ {p} # {}
    <3>1. PICK x \in S \ {p} : proc[x].youngest_child \notin S \ {p}
      BY <2>1, <2>6
    <3>2. CASE x # n
      BY <2>2, <2>4, <3>1, <3>2
    <3>3. CASE x = n
      <4>1. s \notin S
        BY <1>1, <1>3, <2>3, <3>1, <3>3
      <4>2. QED
        BY <2>2, <2>3, <3>3, <4>1
    <3>4. QED
      BY <3>2, <3>3
  <2>7. QED
    BY <2>5, <2>6
<1>8. top_process' # NULL => top_process' \in Listed'
  BY DEF ProcInv, ListOK
<1>9. QED
  BY <1>6, <1>7, <1>8 DEF ListOK

(* Both creations, whatever they do to the siblings. *)
LEMMA AllocationKeeps ==
  ASSUME ProcInv, NEW p \in Proc, NEW prio \in Priorities,
         NEW s \in live \cup {NULL}, Allocates(p, prio, s),
         Quiet(proc', CreatedProcess(p, prio, s))
  PROVE  ProcInv'
<1>1. /\ Calling /\ p \notin live /\ InsertsAfter(s, prio)
      /\ live' = live \cup {p} /\ process_count' = (process_count + 1) % U16
      /\ top_process' = IF s = NULL THEN p ELSE top_process
      /\ UNCHANGED <<rtVars, passVars, heapVars, cont, sweep, pc>>
  BY DEF Allocates, CallLeaves
<1>2. pc \in {"idle", "process"}
  BY <1>1 DEF Calling, InCode
<1>3. Listed = live /\ g_pending_heap_free = NULL /\ live \subseteq Proc
  BY <1>2, AllListed, Types
<1>4. Listed' = Listed \cup {p}
  BY <1>1, <1>3, Types DEF Listed, heapVars
<1>5. prio \in Nat /\ s \in Ref /\ s # p
  BY <1>1, <1>3, Types, PrioritiesAssumption DEF Ref
<1>6. Inserted(proc', p, prio, s, Behind(s))
  BY <1>5, Types, CreatedInserted, InsertedQuiet
<1>7. ListOK'
  BY <1>1, <1>3, <1>4, <1>5, <1>6, InsertedList
<1>8. RTInv'
  BY <1>1, RTSame DEF ProcInv
<1>9. TypeOK'
  <2>1. proc' \in Memory
    BY <1>6 DEF Inserted
  <2>2. (process_count + 1) % U16 \in 0 .. U16 - 1
    <3>1. process_count \in Nat
      BY DEF ProcInv, TypeOK
    <3>2. QED
      BY <3>1, U16Range
  <2>3. top_process' \in Ref
    BY <1>1, Types DEF Ref
  <2>4. QED
    BY <1>1, <1>8, <2>1, <2>2, <2>3 DEF ProcInv, TypeOK, RTInv, Memory, passVars,
       heapVars
<1>10. NoFatal'
  BY <1>1 DEF ProcInv, NoFatal, rtVars, heapVars
<1>11. ControlOK'
  BY <1>1, <1>2 DEF ProcInv, ControlOK, rtVars, passVars, heapVars
<1>12. CursorLive'
  BY <1>1, <1>4 DEF ProcInv, CursorLive, passVars
<1>13. SlotsMatchProcesses'
  BY <1>1, <1>6 DEF ProcInv, SlotsMatchProcesses, Inserted, rtVars, passVars,
     heapVars
<1>14. QED
  BY <1>7, <1>8, <1>9, <1>10, <1>11, <1>12, <1>13 DEF ProcInv

LEMMA CreationKeeps ==
  ASSUME ProcInv, Creates
  PROVE  ProcInv'
<1>1. ASSUME NEW p \in Proc, NEW prio \in Priorities, NEW s \in live \cup {NULL},
             Allocates(p, prio, s)
      PROVE  CreatedProcess(p, prio, s) \in Memory
  <2>1. prio \in Nat /\ s \in Ref /\ s # p
    BY <1>1, Types, PrioritiesAssumption DEF Ref, Allocates
  <2>2. QED
    BY <2>1, Types, CreatedInserted DEF Inserted
<1>2. ASSUME NEW p \in Proc, NEW prio \in Priorities, CreateProcess(p, prio)
      PROVE  ProcInv'
  <2>1. PICK s \in live \cup {NULL} :
          Allocates(p, prio, s) /\ proc' = CreatedProcess(p, prio, s)
    BY <1>2 DEF CreateProcess
  <2>2. Quiet(proc', CreatedProcess(p, prio, s))
    BY <1>1, <2>1 DEF Quiet, SameLinks, SameList
  <2>3. QED
    BY <2>1, <2>2, AllocationKeeps
<1>3. ASSUME NEW p \in Proc, NEW prio \in Priorities, NEW root \in live,
             CreateChildProcess(p, prio, root)
      PROVE  ProcInv'
  <2>1. PICK s \in live \cup {NULL} :
          /\ Allocates(p, prio, s)
          /\ proc' = LinkedChild(CreatedProcess(p, prio, s), root, p)
    BY <1>3 DEF CreateChildProcess
  <2>2. Quiet(proc', CreatedProcess(p, prio, s))
    BY <1>1, <2>1, Types, LinkedChildQuiet
  <2>3. QED
    BY <2>1, <2>2, AllocationKeeps
<1>4. QED
  BY <1>2, <1>3 DEF Creates
-----------------------------------------------------------------------------
(***************************************************************************)
(* Termination takes the current process off the list.                     *)
(***************************************************************************)
LEMMA NotItsOwnNeighbour ==
  ASSUME ListOK, NEW p \in Listed, NULL \notin Listed
  PROVE  proc[p].next # p /\ proc[p].youngest_child # p
<1>1. {p} \in SUBSET Listed /\ {p} # {}
  OBVIOUS
<1>2. \E x \in {p} : proc[x].youngest_child \notin {p}
  BY <1>1 DEF ListOK, NoCycle
<1>3. proc[p].youngest_child # p
  BY <1>2
<1>4. QED
  BY <1>3 DEF ListOK

(* m is proc but for siblings and modes, so it reads the same list. *)
LEMMA RemovedList ==
  ASSUME ProcInv, NEW p \in Listed, NEW m, Quiet(m, proc),
         proc' = UnlinkedProcess(m, p), Listed' = Listed \ {p},
         top_process' = IF m[p].youngest_child = NULL THEN m[p].next
                        ELSE top_process
  PROVE  ListOK'
<1> DEFINE n == proc[p].next
           y == proc[p].youngest_child
<1>1. NULL \notin Listed /\ Listed \subseteq Proc
  BY Types DEF Listed
<1>2. n # p /\ y # p
  BY <1>1, NotItsOwnNeighbour DEF ProcInv
<1>3. /\ n # NULL => /\ n \in Listed \ {p} /\ proc[n].youngest_child = p
                     /\ proc[p].priority >= proc[n].priority
      /\ y # NULL => /\ y \in Listed \ {p} /\ proc[y].next = p
                     /\ proc[y].priority >= proc[p].priority
      /\ y = NULL <=> p = top_process
  <2>1. /\ n # NULL => /\ n \in Listed /\ proc[n].youngest_child = p
                       /\ proc[p].priority >= proc[n].priority
        /\ y # NULL => y \in Listed /\ proc[y].next = p
        /\ y = NULL <=> p = top_process
    BY DEF ProcInv, ListOK
  <2>2. ASSUME y # NULL
        PROVE  proc[y].priority >= proc[p].priority
    <3> HIDE DEF y
    <3>1. y \in Listed /\ proc[y].next = p
      BY <2>1, <2>2
    <3>2. QED
      BY <1>1, <3>1 DEF ProcInv, ListOK
  <2>3. QED
    BY <1>2, <2>1, <2>2
<1>4. m \in Memory /\ m[p].next = n /\ m[p].youngest_child = y
  BY <1>1 DEF Quiet, SameLinks, SameList
<1>5. top_process' = IF y = NULL THEN n ELSE top_process
  BY <1>4
<1> HIDE DEF n, y
<1>6. \A x \in Listed :
        /\ proc'[x].next = IF x = y THEN n ELSE proc[x].next
        /\ proc'[x].youngest_child = IF x = n THEN y ELSE proc[x].youngest_child
        /\ proc'[x].priority = proc[x].priority
        /\ proc[x].priority \in Nat
  BY <1>1, <1>4, Types, MemoryFields, UnlinkedProcessFields
     DEF SameFixed, Quiet, SameLinks, SameList
<1>7. ASSUME NEW x \in Listed'
      PROVE  /\ proc'[x].next # NULL =>
                  /\ proc'[x].next \in Listed'
                  /\ proc'[proc'[x].next].youngest_child = x
                  /\ proc'[x].priority >= proc'[proc'[x].next].priority
             /\ proc'[x].youngest_child # NULL =>
                  /\ proc'[x].youngest_child \in Listed'
                  /\ proc'[proc'[x].youngest_child].next = x
             /\ proc'[x].youngest_child = NULL <=> x = top_process'
  <2>1. x \in Listed /\ x # p
    OBVIOUS
  <2>2. /\ proc[x].next # NULL =>
             /\ proc[x].next \in Listed
             /\ proc[proc[x].next].youngest_child = x
             /\ proc[x].priority >= proc[proc[x].next].priority
        /\ proc[x].youngest_child # NULL =>
             /\ proc[x].youngest_child \in Listed
             /\ proc[proc[x].youngest_child].next = x
        /\ proc[x].youngest_child = NULL <=> x = top_process
    BY <2>1 DEF ProcInv, ListOK
  <2>3. ASSUME proc'[x].next # NULL
        PROVE  /\ proc'[x].next \in Listed'
               /\ proc'[proc'[x].next].youngest_child = x
               /\ proc'[x].priority >= proc'[proc'[x].next].priority
    <3>1. CASE x = y
      <4>1. proc'[x].next = n
        BY <1>6, <2>1, <3>1
      <4>2. n \in Listed'
        BY <1>3, <2>3, <4>1
      <4>3. proc'[n].youngest_child = x
        BY <1>6, <3>1, <4>2
      <4>4. proc[x].priority >= proc[p].priority /\ proc[p].priority >= proc[n].priority
        BY <1>1, <1>3, <2>1, <2>3, <3>1, <4>1
      <4>5. proc[x].priority >= proc[n].priority
        BY <1>6, <2>1, <4>2, <4>4
      <4>6. QED
        BY <1>6, <2>1, <4>1, <4>2, <4>3, <4>5
    <3>2. CASE x # y
      <4>1. proc'[x].next = proc[x].next
        BY <1>6, <2>1, <3>2
      <4>2. proc[x].next # p /\ proc[x].next # n
        BY <1>3, <2>1, <2>2, <2>3, <3>2, <4>1 DEF y
      <4>3. QED
        BY <1>6, <2>1, <2>2, <2>3, <4>1, <4>2
    <3>3. QED
      BY <3>1, <3>2
  <2>4. ASSUME proc'[x].youngest_child # NULL
        PROVE  /\ proc'[x].youngest_child \in Listed'
               /\ proc'[proc'[x].youngest_child].next = x
    <3>1. CASE x = n
      BY <1>3, <1>6, <2>1, <2>4, <3>1
    <3>2. CASE x # n
      <4>1. proc'[x].youngest_child = proc[x].youngest_child
        BY <1>6, <2>1, <3>2
      <4>2. proc[x].youngest_child # p /\ proc[x].youngest_child # y
        BY <1>3, <2>1, <2>2, <2>4, <3>2, <4>1 DEF n
      <4>3. QED
        BY <1>6, <2>1, <2>2, <2>4, <4>1, <4>2
    <3>3. QED
      BY <3>1, <3>2
  <2>5. proc'[x].youngest_child = NULL <=> x = top_process'
    <3>1. CASE x = n
      BY <1>1, <1>3, <1>5, <1>6, <2>1, <2>2, <3>1
    <3>2. CASE x # n
      BY <1>1, <1>3, <1>5, <1>6, <2>1, <2>2, <3>2
    <3>3. QED
      BY <3>1, <3>2
  <2>6. QED
    BY <2>3, <2>4, <2>5
<1>8. NoCycle'
  <2> SUFFICES ASSUME NEW S \in SUBSET Listed', S # {}
               PROVE  \E x \in S : proc'[x].youngest_child \notin S
    BY DEF NoCycle
  <2>1. \A x \in S : /\ x \in Listed /\ x # p
                     /\ proc'[x].youngest_child =
                          IF x = n THEN y ELSE proc[x].youngest_child
    BY <1>6
  <2>2. ASSUME NEW T \in SUBSET Listed, T # {}
        PROVE  \E x \in T : proc[x].youngest_child \notin T
    BY <2>2 DEF ProcInv, ListOK, NoCycle
  <2>3. CASE n \in S
    <3>1. S \cup {p} \in SUBSET Listed /\ S \cup {p} # {}
      OBVIOUS
    <3>2. PICK x \in S \cup {p} : proc[x].youngest_child \notin S \cup {p}
      BY <2>2, <3>1
    <3>3. x # n
      BY <1>1, <1>3, <2>1, <2>3, <3>2
    <3>4. CASE x = p
      BY <2>1, <2>3, <3>2, <3>4 DEF y
    <3>5. CASE x # p
      BY <2>1, <3>2, <3>3, <3>5
    <3>6. QED
      BY <3>4, <3>5
  <2>4. CASE n \notin S
    BY <2>1, <2>2, <2>4
  <2>5. QED
    BY <2>3, <2>4
<1>9. top_process' # NULL => top_process' \in Listed'
  BY <1>3, <1>5 DEF ProcInv, ListOK
<1>10. QED
  BY <1>7, <1>8, <1>9 DEF ListOK

LEMMA YieldFacts ==
  ASSUME ProcInv, NEW reason \in YieldReason, pc = "process",
         yield_to_scheduler(reason)
  PROVE  /\ RTInv' /\ current_process \in Proc \cap live
         /\ current_slot' = NULL /\ yield_reason' = reason /\ pc' = "returned"
         /\ UNCHANGED <<initialized, fatal>>
         /\ \E t \in Slot :
              /\ slots' = [slots EXCEPT ![current_process] = t]
              /\ t.entry = slots[current_process].entry
              /\ t.state = IF reason = "TERMINATE" THEN "Dead" ELSE "Suspended"
<1>1. /\ current_slot = current_process /\ current_slot # NULL
      /\ current_process \in Proc \cap live
  BY Types DEF ProcInv, ControlOK, CursorLive
<1>2. RTInv'
  BY YieldKeeps DEF yield_to_scheduler, ProcInv
<1>3. slots[current_slot] \in Slot
  BY <1>1 DEF ProcInv, RTInv, RTTypeOK, OnlyCurrentRuns
<1> DEFINE st == IF reason = "TERMINATE" THEN "Dead" ELSE "Suspended"
           t == SlotAs(slots[current_slot], st, "SUSPENDED")
<1>4. st \in SlotState
  BY DEF SlotState
<1>5. /\ slots' = [slots EXCEPT ![current_slot] = t]
      /\ yield_reason' = reason /\ current_slot' = NULL /\ pc' = "returned"
      /\ UNCHANGED <<initialized, fatal>>
  BY <1>1 DEF yield_to_scheduler, recomp_process_yield
<1> HIDE DEF st
<1>6. t \in Slot /\ t.state = st /\ t.entry = slots[current_slot].entry
  BY <1>3, <1>4, SlotValues
<1> HIDE DEF t
<1>7. QED
  BY <1>1, <1>2, <1>5, <1>6 DEF st

LEMMA PauseKeeps ==
  ASSUME ProcInv, pc = "process", Quiet(proc', proc),
         yield_to_scheduler("NORMAL"), UNCHANGED <<listVars, g_pending_heap_free>>
  PROVE  ProcInv'
<1>1. "NORMAL" \in YieldReason
  BY DEF YieldReason
<1>2. UNCHANGED <<passVars, cont, sweep, errstop>>
  BY DEF yield_to_scheduler
<1>3. /\ RTInv' /\ current_process \in Proc \cap live
      /\ current_slot' = NULL /\ yield_reason' = "NORMAL" /\ pc' = "returned"
      /\ UNCHANGED <<initialized, fatal>>
  BY <1>1, YieldFacts
<1>4. PICK t \in Slot : /\ slots' = [slots EXCEPT ![current_process] = t]
                        /\ t.entry = slots[current_process].entry
                        /\ t.state = "Suspended"
  BY <1>1, YieldFacts
<1>5. Listed' = Listed /\ Listed = live /\ g_pending_heap_free = NULL
  BY AllListed DEF Listed, listVars
<1>6. ListOK'
  BY <1>5, Types, ListSame DEF ProcInv, Quiet, SameLinks, listVars
<1>7. TypeOK'
  BY <1>2, <1>3 DEF ProcInv, TypeOK, RTInv, Quiet, Memory, listVars, passVars,
     Control
<1>8. NoFatal'
  BY <1>2, <1>3 DEF ProcInv, NoFatal
<1>9. ControlOK'
  BY <1>2, <1>3, <1>5, Types DEF ProcInv, ControlOK, listVars, passVars
<1>10. CursorLive'
  BY <1>2, <1>5 DEF ProcInv, CursorLive, listVars, passVars
<1>11. slots[current_process] # NoSlot
  BY <1>3, RuntimeAssumption DEF ProcInv, RTInv, OnlyCurrentRuns, ControlOK
<1>12. SlotsMatchProcesses'
  <2> SUFFICES ASSUME NEW p \in Proc
               PROVE  /\ slots'[p] = NoSlot <=> cont'[p] = "none"
                      /\ slots'[p] # NoSlot =>
                           /\ p \in live'
                           /\ slots'[p].entry = proc'[p].func
                           /\ slots'[p].state = "Dead" =>
                                pc' = "returned" /\ p = g_pending_heap_free'
                           /\ slots'[p].state = "Running" => p = current_process'
    BY DEF SlotsMatchProcesses
  <2>1. proc'[p].func = proc[p].func
    BY DEF Quiet, SameLinks
  <2>2. slots \in [Proc -> Slot \cup {NoSlot}] /\ NoSlot \notin Slot
    BY SlotValues DEF ProcInv, RTInv, RTTypeOK
  <2>3. CASE p = current_process
    BY <1>2, <1>3, <1>4, <1>11, <2>1, <2>2, <2>3
       DEF ProcInv, SlotsMatchProcesses, listVars, passVars
  <2>4. CASE p # current_process
    BY <1>2, <1>3, <1>4, <2>1, <2>2, <2>4
       DEF ProcInv, SlotsMatchProcesses, listVars, passVars
  <2>5. QED
    BY <2>3, <2>4
<1>13. QED
  BY <1>3, <1>6, <1>7, <1>8, <1>9, <1>10, <1>12 DEF ProcInv

LEMMA TerminationKeeps ==
  ASSUME ProcInv, pc = "process", NEW m, Quiet(m, proc), Terminates(m)
  PROVE  ProcInv'
<1>1. "TERMINATE" \in YieldReason
  BY DEF YieldReason
<1>2. /\ UNCHANGED <<passVars, cont, sweep, errstop, live>>
      /\ proc' = UnlinkedProcess(m, current_process)
      /\ top_process' = IF m[current_process].youngest_child = NULL
                        THEN m[current_process].next ELSE top_process
      /\ process_count' = (process_count - 1) % U16
      /\ g_pending_heap_free' = current_process
      /\ yield_to_scheduler("TERMINATE")
  BY DEF Terminates, yield_to_scheduler
<1>3. /\ RTInv' /\ current_process \in Proc \cap live
      /\ current_slot' = NULL /\ yield_reason' = "TERMINATE" /\ pc' = "returned"
      /\ UNCHANGED <<initialized, fatal>>
  BY <1>1, <1>2, YieldFacts
<1>4. PICK t \in Slot : /\ slots' = [slots EXCEPT ![current_process] = t]
                        /\ t.entry = slots[current_process].entry
                        /\ t.state = "Dead"
  BY <1>1, <1>2, YieldFacts
<1>5. Listed = live /\ g_pending_heap_free = NULL
  BY AllListed
<1>6. Listed' = Listed \ {current_process}
  BY <1>2, <1>5 DEF Listed
<1>7. ListOK'
  BY <1>2, <1>3, <1>5, <1>6, RemovedList
<1>8. /\ m \in Memory /\ proc' \in Memory
      /\ \A x \in Proc : proc'[x].func = proc[x].func
  BY <1>2, <1>3, UnlinkedProcessFields DEF Quiet, SameLinks, SameFixed
<1>9. TypeOK'
  <2>1. process_count' \in 0 .. U16 - 1
    <3>1. process_count \in Nat
      BY DEF ProcInv, TypeOK
    <3>2. QED
      BY <1>2, <3>1, U16Range
  <2>2. top_process' \in Ref
    BY <1>2, <1>3, <1>8, Types, MemoryFields
  <2>3. QED
    BY <1>2, <1>3, <1>8, <2>1, <2>2
       DEF ProcInv, TypeOK, RTInv, Memory, passVars, Control, Ref
<1>10. NoFatal'
  BY <1>2, <1>3 DEF ProcInv, NoFatal
<1>11. ControlOK'
  BY <1>2, <1>3, Types DEF ProcInv, ControlOK, passVars
<1>12. CursorLive'
  <2>1. top_process' \in Listed' \cup {NULL}
    BY <1>7 DEF ListOK
  <2>2. sweep'.at = NULL
    BY <1>2 DEF ProcInv, ControlOK, NoSweep
  <2>3. QED
    BY <1>2, <1>6, <2>1, <2>2 DEF ProcInv, CursorLive, passVars
<1>13. slots[current_process] # NoSlot
  BY <1>3, RuntimeAssumption DEF ProcInv, RTInv, OnlyCurrentRuns, ControlOK
<1>14. SlotsMatchProcesses'
  <2> SUFFICES ASSUME NEW p \in Proc
               PROVE  /\ slots'[p] = NoSlot <=> cont'[p] = "none"
                      /\ slots'[p] # NoSlot =>
                           /\ p \in live'
                           /\ slots'[p].entry = proc'[p].func
                           /\ slots'[p].state = "Dead" =>
                                pc' = "returned" /\ p = g_pending_heap_free'
                           /\ slots'[p].state = "Running" => p = current_process'
    BY DEF SlotsMatchProcesses
  <2>1. slots \in [Proc -> Slot \cup {NoSlot}] /\ NoSlot \notin Slot
    BY SlotValues DEF ProcInv, RTInv, RTTypeOK
  <2>2. CASE p = current_process
    BY <1>2, <1>3, <1>4, <1>8, <1>13, <2>1, <2>2
       DEF ProcInv, SlotsMatchProcesses, passVars
  <2>3. CASE p # current_process
    BY <1>2, <1>3, <1>4, <1>8, <2>1, <2>3
       DEF ProcInv, SlotsMatchProcesses, passVars
  <2>4. QED
    BY <2>2, <2>3
<1>15. QED
  BY <1>3, <1>7, <1>9, <1>10, <1>11, <1>12, <1>14 DEF ProcInv

LEMMA LeavesKeep ==
  ASSUME ProcInv, Leaves
  PROVE  ProcInv'
<1>1. proc \in Memory
  BY Types
<1>2. pc = "process" /\ current_process \in Proc
  BY Types DEF Leaves, SleepProcess, WatchChildProcess, EndProcess,
     DestructorReturns, MayYield, InCode, ProcInv, ControlOK
<1>3. Quiet(proc, proc)
  BY <1>1 DEF Quiet, SameLinks, SameList
<1>4. ASSUME NEW t \in SleepTimes \cup {0}, SleepProcess(t)
      PROVE  ProcInv'
  <2>1. OnlyMode(WithMode(proc[current_process], "SLEEPING", t),
                 proc[current_process])
    <3>1. "SLEEPING" \in ExecMode /\ t \in Int
      BY TimesAssumption DEF ExecMode
    <3>2. proc[current_process] \in Struct
      BY <1>1, <1>2 DEF Memory
    <3>3. QED
      BY <3>1, <3>2, ModeChanged
  <2>2. Quiet(proc', proc)
    BY <1>1, <1>2, <1>3, <1>4, <2>1, OneModeQuiet DEF SleepProcess
  <2>3. QED
    BY <1>2, <1>4, <2>2, PauseKeeps DEF SleepProcess
<1>5. ASSUME WatchChildProcess
      PROVE  ProcInv'
  <2>1. Quiet(proc', proc)
    BY <1>1, <1>2, <1>5, OneFieldQuiet DEF WatchChildProcess, ExecMode
  <2>2. QED
    BY <1>2, <1>5, <2>1, PauseKeeps DEF WatchChildProcess
<1>6. ASSUME EndProcess
      PROVE  ProcInv'
  <2> DEFINE c == ChildrenKilled(proc, current_process)
             m == UnlinkedChild(c, current_process)
  <2>1. Quiet(c, proc) /\ c \in Memory
    BY <1>1, <1>2, ChildrenKilledQuiet DEF Quiet
  <2>2. Quiet(m, c)
    BY <1>2, <2>1, UnlinkedChildQuiet
  <2>3. Quiet(m, proc)
    BY <2>1, <2>2, QuietTransitive
  <2>4. cont[current_process] \in {"body", "EndProcess"}
    BY <1>6 DEF EndProcess
  <2>5. CASE m[current_process].destructor
    <3>1. /\ proc' = m
          /\ cont' = [cont EXCEPT ![current_process] = "destructor"]
          /\ UNCHANGED <<rtVars, listVars, passVars, heapVars, sweep, pc>>
      BY <1>6, <2>5 DEF EndProcess
    <3> HIDE DEF m, c
    <3>2. RTInv'
      BY <3>1, RTSame DEF ProcInv
    <3>3. Listed' = Listed /\ Listed \subseteq Proc
      BY <3>1, Types DEF Listed, listVars, heapVars
    <3>4. ListOK'
      BY <2>3, <3>1, <3>3, ListSame DEF ProcInv, Quiet, SameLinks, listVars
    <3>5. TypeOK'
      BY <2>3, <3>1, <3>2 DEF ProcInv, TypeOK, RTInv, Quiet, Memory, listVars,
         passVars, heapVars, Continuation
    <3>6. NoFatal' /\ ControlOK' /\ CursorLive'
      BY <3>1, <3>3 DEF ProcInv, NoFatal, ControlOK, CursorLive, rtVars,
         listVars, passVars, heapVars
    <3>7. SlotsMatchProcesses'
      BY <1>2, <2>3, <2>4, <3>1 DEF ProcInv, TypeOK, SlotsMatchProcesses, Quiet,
         SameLinks, rtVars, listVars, passVars, heapVars
    <3>8. QED
      BY <3>2, <3>4, <3>5, <3>6, <3>7 DEF ProcInv
  <2>6. CASE ~ m[current_process].destructor
    <3>1. Terminates(m)
      BY <1>6, <2>6 DEF EndProcess
    <3> HIDE DEF m, c
    <3>2. QED
      BY <1>2, <2>3, <3>1, TerminationKeeps
  <2>7. QED
    BY <2>5, <2>6
<1>7. ASSUME DestructorReturns
      PROVE  ProcInv'
  BY <1>2, <1>3, <1>7, TerminationKeeps DEF DestructorReturns
<1>8. QED
  BY <1>4, <1>5, <1>6, <1>7 DEF Leaves
-----------------------------------------------------------------------------
(***************************************************************************)
(* The scheduler.                                                          *)
(***************************************************************************)
LEMMA Quiescent ==
  ASSUME ProcInv, current_slot = NULL
  PROVE  \A p \in Proc : slots[p] # NoSlot =>
           slots[p].state # "Running" /\ slots[p].coro = "SUSPENDED"
BY RuntimeAssumption
   DEF ProcInv, RTInv, RTTypeOK, OnlyCurrentRuns, Slot, NoSlot

(* Moves of the cursor that switch to no process. *)
LEMMA MoveKeeps ==
  ASSUME ProcInv, Quiet(proc', proc),
         UNCHANGED <<rtVars, listVars, next_proc, heapVars, cont, sweep>>,
         time' \in Int, current_process' \in live \cup {NULL},
         pc \in {"idle", "loop"}, pc' \in {"idle", "loop", "run"},
         pc' = "idle" => current_process' = NULL,
         pc' = "run" => current_process' # NULL
  PROVE  ProcInv'
<1>1. RTInv'
  BY RTSame DEF ProcInv
<1>2. current_slot = NULL /\ next_proc = NULL
  BY DEF ProcInv, ControlOK
<1>3. Listed' = Listed /\ Listed \subseteq Proc
  BY Types DEF Listed, listVars, heapVars
<1>4. ListOK'
  BY <1>3, ListSame DEF ProcInv, Quiet, SameLinks, listVars
<1>5. TypeOK'
  BY <1>1, Types DEF ProcInv, TypeOK, RTInv, Quiet, Memory, listVars, heapVars,
     Control, Ref
<1>6. NoFatal'
  BY DEF ProcInv, NoFatal, rtVars, heapVars
<1>7. ControlOK'
  BY <1>2 DEF ProcInv, ControlOK, rtVars, listVars, heapVars
<1>8. CursorLive'
  BY <1>2, <1>3 DEF ProcInv, CursorLive, listVars
<1>9. SlotsMatchProcesses'
  BY <1>2, Quiescent DEF ProcInv, SlotsMatchProcesses, Quiet, SameLinks, rtVars,
     listVars, heapVars
<1>10. QED
  BY <1>1, <1>4, <1>5, <1>6, <1>7, <1>8, <1>9 DEF ProcInv

LEMMA VisitsKeep ==
  ASSUME ProcInv,
         \/ \E t \in Ticks : CallProcess(t)
         \/ PassEnds \/ VisitPaused \/ VisitSleeping \/ VisitWatching
         \/ VisitWatched \/ VisitDefault
  PROVE  ProcInv'
<1>1. proc \in Memory /\ time \in Int
  BY Types DEF ProcInv, TypeOK
<1>2. Quiet(proc, proc)
  BY <1>1 DEF Quiet, SameLinks, SameList
<1>3. ASSUME NEW t \in Ticks, CallProcess(t)
      PROVE  ProcInv'
  <2>1. pc = "idle" /\ Listed = live
    BY <1>3, AllListed DEF CallProcess
  <2>2. current_process' \in live \cup {NULL} /\ time' \in Int
    BY <1>3, <2>1, TimesAssumption DEF CallProcess, ProcInv, CursorLive
  <2>3. QED
    BY <1>2, <1>3, <2>1, <2>2, MoveKeeps DEF CallProcess
<1>4. ASSUME PassEnds
      PROVE  ProcInv'
  BY <1>2, <1>4, MoveKeeps DEF PassEnds
<1>5. ASSUME pc = "loop", current_process # NULL
      PROVE  /\ current_process \in live /\ current_process \in Proc
             /\ proc[current_process].next \in live \cup {NULL}
  <2>1. Listed = live /\ current_process \in live /\ current_process \in Proc
    BY <1>5, AllListed, Types DEF ProcInv, CursorLive
  <2>2. QED
    BY <2>1 DEF ProcInv, ListOK
<1>6. ASSUME VisitPaused \/ VisitWatching
      PROVE  ProcInv'
  <2>1. /\ pc = "loop" /\ pc' = "loop" /\ current_process # NULL
        /\ current_process' = proc[current_process].next
        /\ UNCHANGED <<rtVars, proc, listVars, next_proc, time, heapVars, cont,
                       sweep>>
    BY <1>6 DEF VisitPaused, VisitWatching, Visits, StepsOver
  <2>2. QED
    BY <1>1, <1>2, <1>5, <2>1, MoveKeeps
<1>7. ASSUME VisitSleeping
      PROVE  ProcInv'
  <2>1. /\ pc = "loop" /\ pc' = "loop" /\ current_process # NULL
        /\ current_process' = proc[current_process].next
        /\ proc' = [proc EXCEPT ![current_process] =
                      Ticked(proc[current_process])]
        /\ UNCHANGED <<rtVars, listVars, next_proc, time, heapVars, cont, sweep>>
    BY <1>7 DEF VisitSleeping, Visits, StepsOver
  <2>2. OnlyMode(Ticked(proc[current_process]), proc[current_process])
    BY <1>1, <1>5, <2>1, TickedMode DEF Memory
  <2>3. Quiet(proc', proc)
    BY <1>1, <1>5, <2>1, <2>2, OneModeQuiet
  <2>4. QED
    BY <1>1, <1>5, <2>1, <2>3, MoveKeeps
<1>8. ASSUME VisitWatched
      PROVE  ProcInv'
  <2>1. /\ pc = "loop" /\ pc' = "run" /\ current_process # NULL
        /\ current_process' = current_process
        /\ proc' = [proc EXCEPT ![current_process].exec_mode = "DEFAULT"]
        /\ UNCHANGED <<rtVars, listVars, next_proc, time, heapVars, cont, sweep>>
    BY <1>8 DEF VisitWatched, Visits
  <2>2. Quiet(proc', proc)
    BY <1>1, <1>5, <2>1, OneFieldQuiet DEF ExecMode
  <2>3. QED
    BY <1>1, <1>5, <2>1, <2>2, MoveKeeps
<1>9. ASSUME VisitDefault
      PROVE  ProcInv'
  <2>1. /\ pc = "loop" /\ pc' = "run" /\ current_process # NULL
        /\ current_process' = current_process
        /\ UNCHANGED <<rtVars, proc, listVars, next_proc, time, heapVars, cont,
                       sweep>>
    BY <1>9 DEF VisitDefault, Visits
  <2>2. QED
    BY <1>1, <1>2, <1>5, <2>1, MoveKeeps
<1>10. QED
  BY <1>3, <1>4, <1>6, <1>7, <1>8, <1>9

LEMMA VisitDeadKeeps ==
  ASSUME ProcInv, VisitDead
  PROVE  ProcInv'
<1>1. /\ pc = "loop" /\ pc' = "run" /\ current_process # NULL
      /\ recomp_process_destroy(current_process)
      /\ cont' = [cont EXCEPT ![current_process] = "none"]
      /\ proc' = [proc EXCEPT ![current_process].func = "EndProcess"]
      /\ UNCHANGED <<current_process, listVars, next_proc, time, heapVars, sweep>>
  BY DEF VisitDead, Visits
<1>2. /\ current_process \in Proc /\ proc \in Memory
      /\ current_slot = NULL /\ next_proc = NULL
  BY <1>1, Types DEF ProcInv, ControlOK
<1>3. /\ slots' = [slots EXCEPT ![current_process] = NoSlot]
      /\ UNCHANGED <<initialized, current_slot, yield_reason, fatal>>
  BY <1>1, <1>2 DEF recomp_process_destroy
<1>4. RTInv'
  BY <1>1, <1>2, DestroyKeeps DEF ProcInv
<1>5. /\ proc' \in Memory
      /\ \A x \in Proc : /\ SameList(proc'[x], proc[x])
                         /\ proc'[x].priority = proc[x].priority
                         /\ x # current_process => proc'[x] = proc[x]
  BY <1>1, <1>2, EntryAssumption DEF Memory, Struct, SameList
<1>6. Listed' = Listed /\ Listed \subseteq Proc
  BY <1>1, Types DEF Listed, listVars, heapVars
<1>7. ListOK'
  BY <1>1, <1>5, <1>6, ListSame DEF ProcInv, listVars
<1>8. TypeOK'
  BY <1>1, <1>4, <1>5 DEF ProcInv, TypeOK, RTInv, Memory, listVars, heapVars,
     Control, Continuation
<1>9. NoFatal'
  BY <1>1, <1>3 DEF ProcInv, NoFatal, heapVars
<1>10. ControlOK'
  BY <1>1, <1>2, <1>3 DEF ProcInv, ControlOK, listVars, heapVars
<1>11. CursorLive'
  BY <1>1, <1>2, <1>6 DEF ProcInv, CursorLive, listVars
<1>12. SlotsMatchProcesses'
  <2>1. ASSUME NEW p \in Proc, p # current_process
        PROVE  slots'[p] = slots[p] /\ cont'[p] = cont[p] /\ proc'[p] = proc[p]
    BY <1>1, <1>2, <1>3, <1>5, <2>1 DEF ProcInv, TypeOK, RTInv, RTTypeOK
  <2>2. slots'[current_process] = NoSlot /\ cont'[current_process] = "none"
    BY <1>1, <1>2, <1>3 DEF ProcInv, TypeOK, RTInv, RTTypeOK
  <2>3. \A p \in Proc : slots[p] # NoSlot =>
          slots[p].state # "Running" /\ slots[p].state # "Dead"
    BY <1>1, <1>2, Quiescent DEF ProcInv, SlotsMatchProcesses
  <2>4. QED
    BY <1>1, <2>1, <2>2, <2>3 DEF ProcInv, SlotsMatchProcesses, listVars
<1>13. QED
  BY <1>4, <1>7, <1>8, <1>9, <1>10, <1>11, <1>12 DEF ProcInv

(* The switch is never refused. *)
LEMMA ResumeAllowed ==
  ASSUME ProcInv, pc = "run"
  PROVE  /\ current_process \in Proc /\ current_process \in live
         /\ proc[current_process].func \in Entry
         /\ MayResume(current_process, proc[current_process].func)
<1> DEFINE e == proc[current_process].func
           s == FoundOrCreated(current_process, e)
<1>1. /\ current_process \in Proc /\ current_process \in live
      /\ current_slot = NULL /\ initialized
  BY Types DEF ProcInv, ControlOK, CursorLive
<1>2. e \in Entry
  BY <1>1, Types, MemoryFields
<1> HIDE DEF e
<1>3. CASE slots[current_process] = NoSlot
  <2>1. s = NewSlot(e)
    BY <1>3 DEF FoundOrCreated
  <2>2. s.state = "Created" /\ s.entry = e /\ s.coro = "SUSPENDED"
    BY <2>1 DEF NewSlot
  <2>3. QED
    BY <1>1, <1>2, <2>2 DEF MayResume, e
<1>4. CASE slots[current_process] # NoSlot
  <2>1. s = slots[current_process]
    BY <1>4 DEF FoundOrCreated
  <2>2. s.state # "Dead" /\ s.entry = e /\ s.coro = "SUSPENDED"
    BY <1>1, <1>4, <2>1, Quiescent DEF ProcInv, SlotsMatchProcesses, e
  <2>3. QED
    BY <1>1, <1>2, <2>2 DEF MayResume, e
<1>5. QED
  BY <1>3, <1>4

LEMMA RunKeeps ==
  ASSUME ProcInv, RunProcess
  PROVE  ProcInv'
<1> DEFINE e == proc[current_process].func
           t == SlotAs(FoundOrCreated(current_process, e), "Running", "RUNNING")
<1>1. /\ pc = "run" /\ pc' = "process" /\ next_proc' = proc[current_process].next
      /\ g_pending_heap_free' = NULL
      /\ recomp_process_resume(current_process, e)
      /\ cont' = [cont EXCEPT ![current_process] =
                    IF cont[current_process] = "none" THEN e
                    ELSE cont[current_process]]
      /\ UNCHANGED <<proc, listVars, current_process, time, errstop, sweep>>
  BY DEF RunProcess
<1>2. /\ current_process \in Proc /\ current_process \in live
      /\ e \in Entry /\ MayResume(current_process, e)
  BY <1>1, ResumeAllowed
<1>3. /\ Listed = live /\ g_pending_heap_free = NULL /\ Listed' = Listed
  BY <1>1, AllListed DEF Listed, listVars
<1>4. /\ slots' = [slots EXCEPT ![current_process] = t]
      /\ current_slot' = current_process
      /\ yield_reason' = "none" /\ UNCHANGED <<initialized, fatal>>
  BY <1>1, <1>2 DEF recomp_process_resume
<1>5. RTInv'
  BY <1>1, <1>2, ResumeKeeps DEF ProcInv
<1>6. proc[current_process].next \in Listed \cup {NULL}
      /\ proc[current_process].next # current_process
  BY <1>2, <1>3, Types, NotItsOwnNeighbour DEF ProcInv, ListOK
<1>7. FoundOrCreated(current_process, e) \in Slot
      /\ FoundOrCreated(current_process, e).entry = e
  <2>1. FoundOrCreated(current_process, e).entry = e
    BY <1>2 DEF MayResume
  <2>2. QED
    BY <1>2, <2>1, SlotValues DEF FoundOrCreated, ProcInv, RTInv, RTTypeOK
<1>8. t \in Slot /\ t.state = "Running" /\ t.entry = e
  BY <1>7, SlotValues DEF SlotState
<1>9. e \in {"body", "EndProcess"}
  BY <1>2, EntryAssumption
<1> HIDE DEF e, t
<1>10. ListOK'
  BY <1>1, <1>3, ListSame DEF ProcInv, SameList, listVars
<1>11. TypeOK'
  <2>1. cont' \in [Proc -> Continuation]
    BY <1>1, <1>9 DEF ProcInv, TypeOK, Continuation
  <2>2. next_proc' \in Ref
    BY <1>1, <1>2, Types, MemoryFields
  <2>3. QED
    BY <1>1, <1>5, <2>1, <2>2 DEF ProcInv, TypeOK, RTInv, listVars, Control, Ref
<1>12. NoFatal'
  BY <1>1, <1>4 DEF ProcInv, NoFatal
<1>13. ControlOK'
  BY <1>1, <1>2, <1>4, RuntimeAssumption DEF ProcInv, ControlOK, listVars
<1>14. CursorLive'
  BY <1>1, <1>3, <1>6 DEF ProcInv, CursorLive, listVars
<1>15. SlotsMatchProcesses'
  <2>1. ASSUME NEW p \in Proc, p # current_process
        PROVE  slots'[p] = slots[p] /\ cont'[p] = cont[p]
    BY <1>1, <1>2, <1>4, <2>1 DEF ProcInv, TypeOK, RTInv, RTTypeOK
  <2>2. slots'[current_process] = t /\ cont'[current_process] # "none"
    BY <1>1, <1>2, <1>4, <1>9 DEF ProcInv, TypeOK, RTInv, RTTypeOK
  <2>3. \A p \in Proc : slots[p] # NoSlot =>
          slots[p].state # "Running" /\ slots[p].state # "Dead"
    BY <1>1, Quiescent DEF ProcInv, ControlOK, SlotsMatchProcesses
  <2>4. t # NoSlot
    BY <1>8, SlotValues
  <2>5. \A p \in Proc \ {current_process} : p \in live'
          \/ slots[p] = NoSlot
    BY <1>1 DEF ProcInv, SlotsMatchProcesses, listVars
  <2>6. QED
    BY <1>1, <1>2, <1>8, <2>1, <2>2, <2>3, <2>4, <2>5
       DEF ProcInv, SlotsMatchProcesses, listVars, e
<1>16. QED
  BY <1>5, <1>10, <1>11, <1>12, <1>13, <1>14, <1>15 DEF ProcInv

LEMMA TerminatedKeeps ==
  ASSUME ProcInv, ProcessTerminated
  PROVE  ProcInv'
<1>1. /\ pc = "returned" /\ pc' = "loop" /\ yield_reason = "TERMINATE"
      /\ recomp_process_destroy(current_process)
      /\ cont' = [cont EXCEPT ![current_process] = "none"]
      /\ errstop' = (g_pending_heap_free = NULL)
      /\ live' = live \ {g_pending_heap_free}
      /\ proc' = [p \in Proc |-> IF p = g_pending_heap_free THEN Fresh(0)
                                 ELSE proc[p]]
      /\ g_pending_heap_free' = NULL /\ current_process' = next_proc
      /\ next_proc' = NULL
      /\ UNCHANGED <<top_process, process_count, time, sweep>>
  BY DEF ProcessTerminated, Frees
<1>2. /\ g_pending_heap_free = current_process /\ current_process # NULL
      /\ current_process \in Proc /\ current_slot = NULL
  BY <1>1, Types DEF ProcInv, ControlOK
<1>3. /\ slots' = [slots EXCEPT ![current_process] = NoSlot]
      /\ UNCHANGED <<initialized, current_slot, yield_reason, fatal>>
  BY <1>1, <1>2 DEF recomp_process_destroy
<1>4. RTInv'
  BY <1>1, <1>2, DestroyKeeps DEF ProcInv
<1>5. /\ proc' \in Memory
      /\ \A p \in Proc \ {current_process} : proc'[p] = proc[p]
  BY <1>1, <1>2, Types, FreshStruct DEF Memory
<1>6. /\ Listed = live \ {current_process} /\ Listed' = live'
      /\ live' = Listed /\ Listed \subseteq Proc \ {current_process}
  BY <1>1, <1>2, Types DEF Listed
<1>7. ListOK'
  BY <1>1, <1>5, <1>6, ListSame DEF ProcInv, SameList
<1>8. next_proc \in Listed \cup {NULL}
  BY DEF ProcInv, CursorLive
<1>9. TypeOK'
  BY <1>1, <1>4, <1>5, <1>6, <1>8, Types
     DEF ProcInv, TypeOK, RTInv, Memory, Control, Continuation, Ref
<1>10. NoFatal'
  BY <1>1, <1>2, <1>3 DEF ProcInv, NoFatal
<1>11. ControlOK'
  BY <1>1, <1>2, <1>3 DEF ProcInv, ControlOK
<1>12. CursorLive'
  BY <1>1, <1>6, <1>8 DEF ProcInv, CursorLive
<1>13. SlotsMatchProcesses'
  <2>1. ASSUME NEW p \in Proc, p # current_process
        PROVE  slots'[p] = slots[p] /\ cont'[p] = cont[p] /\ proc'[p] = proc[p]
    BY <1>1, <1>2, <1>3, <1>5, <2>1 DEF ProcInv, TypeOK, RTInv, RTTypeOK
  <2>2. slots'[current_process] = NoSlot /\ cont'[current_process] = "none"
    BY <1>1, <1>2, <1>3 DEF ProcInv, TypeOK, RTInv, RTTypeOK
  <2>3. \A p \in Proc \ {current_process} : slots[p] # NoSlot =>
          /\ p \in live'
          /\ slots[p].state # "Running" /\ slots[p].state # "Dead"
    BY <1>1, <1>2, Quiescent DEF ProcInv, SlotsMatchProcesses
  <2>4. QED
    BY <1>1, <2>1, <2>2, <2>3 DEF ProcInv, SlotsMatchProcesses
<1>14. QED
  BY <1>4, <1>7, <1>9, <1>10, <1>11, <1>12, <1>13 DEF ProcInv

LEMMA YieldedKeeps ==
  ASSUME ProcInv, ProcessYielded
  PROVE  ProcInv'
<1>1. /\ pc = "returned" /\ pc' = "loop" /\ yield_reason # "TERMINATE"
      /\ current_process' = proc[current_process].next /\ next_proc' = NULL
      /\ UNCHANGED <<rtVars, proc, listVars, time, heapVars, cont, sweep>>
  BY DEF ProcessYielded
<1>2. /\ g_pending_heap_free = NULL /\ current_slot = NULL
      /\ current_process \in live
  BY <1>1 DEF ProcInv, ControlOK, CursorLive
<1>3. Listed = live /\ Listed' = Listed /\ Listed \subseteq Proc
  BY <1>1, <1>2, Types DEF Listed, listVars, heapVars
<1>4. proc[current_process].next \in Listed \cup {NULL}
  BY <1>2, <1>3 DEF ProcInv, ListOK
<1>5. RTInv'
  BY <1>1, RTSame DEF ProcInv
<1>6. ListOK'
  BY <1>1, <1>3, ListSame DEF ProcInv, SameList, listVars
<1>7. TypeOK'
  BY <1>1, <1>3, <1>4, <1>5 DEF ProcInv, TypeOK, RTInv, listVars, heapVars,
     Control, Ref
<1>8. NoFatal'
  BY <1>1 DEF ProcInv, NoFatal, rtVars, heapVars
<1>9. ControlOK'
  BY <1>1, <1>2 DEF ProcInv, ControlOK, rtVars, listVars, heapVars
<1>10. CursorLive'
  BY <1>1, <1>3, <1>4 DEF ProcInv, CursorLive, listVars
<1>11. SlotsMatchProcesses'
  BY <1>1, <1>2, Types, Quiescent DEF ProcInv, SlotsMatchProcesses, rtVars, listVars,
     heapVars
<1>12. QED
  BY <1>5, <1>6, <1>7, <1>8, <1>9, <1>10, <1>11 DEF ProcInv

LEMMA BootKeeps ==
  ASSUME ProcInv, InitProcess
  PROVE  ProcInv'
<1>1. /\ pc = "boot" /\ pc' = "idle" /\ recomp_process_init
      /\ g_pending_heap_free' = NULL /\ process_count' = 0
      /\ top_process' = NULL /\ current_process' = NULL
      /\ UNCHANGED <<proc, live, next_proc, time, errstop, cont, sweep>>
  BY DEF InitProcess
<1>2. live = {} /\ current_slot = NULL /\ next_proc = NULL
  BY <1>1 DEF ProcInv, ControlOK
<1>3. /\ slots' = [k \in Proc |-> NoSlot] /\ initialized' = TRUE
      /\ UNCHANGED <<current_slot, fatal>>
  BY <1>1, <1>2 DEF recomp_process_init
<1>4. RTInv'
  BY <1>1, InitKeeps DEF ProcInv
<1>5. \A p \in Proc : cont[p] = "none"
  BY <1>2 DEF ProcInv, SlotsMatchProcesses
<1>6. Listed = {} /\ Listed' = {}
  BY <1>1, <1>2 DEF Listed
<1>7. ListOK'
  BY <1>1, <1>6 DEF ListOK, NoCycle
<1>8. TypeOK'
  <2>1. process_count' \in 0 .. U16 - 1
    BY <1>1 DEF U16
  <2>2. QED
    BY <1>1, <1>4, <2>1 DEF ProcInv, TypeOK, RTInv, Control, Ref
<1>9. NoFatal'
  BY <1>1, <1>3 DEF ProcInv, NoFatal
<1>10. ControlOK'
  BY <1>1, <1>2, <1>3 DEF ProcInv, ControlOK
<1>11. CursorLive'
  BY <1>1, <1>2, <1>6 DEF ProcInv, CursorLive, ControlOK
<1>12. SlotsMatchProcesses'
  BY <1>1, <1>3, <1>5 DEF SlotsMatchProcesses
<1>13. QED
  BY <1>4, <1>7, <1>8, <1>9, <1>10, <1>11, <1>12 DEF ProcInv
-----------------------------------------------------------------------------
LEMMA ProcInit ==
  ASSUME Init
  PROVE  ProcInv
<1>1. RTInv
  BY RuntimeAssumption DEF Init, RTInit, RTInv, RTTypeOK, OnlyCurrentRuns
<1>2. TypeOK
  <2>1. process_count \in 0 .. U16 - 1
    BY DEF Init, U16
  <2>2. proc \in [Proc -> Struct]
    BY FreshStruct DEF Init
  <2>3. sweep \in [at : Ref, lo : Nat, hi : Nat]
    BY DEF Init, NoSweep, Ref
  <2>4. cont \in [Proc -> Continuation] /\ pc \in Control
    BY DEF Init, Continuation, Control
  <2>5. {top_process, current_process, next_proc, g_pending_heap_free}
          \subseteq Ref
    BY DEF Init, Ref
  <2>6. live \subseteq Proc /\ time \in Int
    BY DEF Init
  <2>7. errstop \in BOOLEAN
    BY Zenon DEF Init
  <2>8. RTTypeOK
    BY <1>1 DEF RTInv
  <2>9. QED
    BY <2>1, <2>2, <2>3, <2>4, <2>5, <2>6, <2>7, <2>8 DEF TypeOK
<1>3. Listed = {}
  BY DEF Init, Listed
<1>4. NoFatal /\ ControlOK /\ CursorLive /\ SlotsMatchProcesses
  BY <1>3 DEF Init, RTInit, NoFatal, ControlOK, CursorLive, SlotsMatchProcesses,
     NoSweep
<1>5. ListOK
  BY <1>3 DEF Init, ListOK, NoCycle
<1>6. QED
  BY <1>1, <1>2, <1>4, <1>5 DEF ProcInv

LEMMA ProcStutter ==
  ASSUME ProcInv, UNCHANGED vars
  PROVE  ProcInv'
<1>1. RTInv'
  BY RTSame DEF vars, ProcInv
<1>2. Listed' = Listed
  BY DEF vars, listVars, heapVars, Listed
<1>3. ListOK'
  BY <1>2, ListSame DEF ProcInv, vars, listVars, SameList
<1>4. TypeOK'
  BY <1>1 DEF ProcInv, RTInv, TypeOK, vars, listVars, passVars, heapVars
<1>5. NoFatal' /\ ControlOK' /\ CursorLive' /\ SlotsMatchProcesses'
  BY <1>2 DEF ProcInv, NoFatal, ControlOK, CursorLive, SlotsMatchProcesses, vars,
     rtVars, listVars, passVars, heapVars
<1>6. QED
  BY <1>1, <1>3, <1>4, <1>5 DEF ProcInv

LEMMA ProcStep ==
  ASSUME ProcInv, Next
  PROVE  ProcInv'
<1>1. CASE InitProcess
  BY <1>1, BootKeeps
<1>2. CASE Scheduler
  BY <1>2, VisitsKeep, VisitDeadKeeps, RunKeeps, TerminatedKeeps, YieldedKeeps
     DEF Scheduler
<1>3. CASE Leaves
  BY <1>3, LeavesKeep
<1>4. CASE Creates
  BY <1>4, CreationKeeps
<1>5. CASE Kills
  BY <1>5, CallsKeep, SweepKeeps, ProcStutter DEF Kills, KillNeverEnds
<1>6. CASE TimesOut
  BY <1>6, CallsKeep
<1>7. CASE Relates
  BY <1>7, CallsKeep DEF Relates
<1>8. QED
  BY <1>1, <1>2, <1>3, <1>4, <1>5, <1>6, <1>7 DEF Next

(* Whatever sequence of calls game code makes, in whatever order processes are
   created, put to sleep, killed and switched to: the invariants above hold in
   every state, and no check of the runtime or the scheduler ends the program. *)
THEOREM ProcessInvariant ==
  Spec => [](/\ TypeOK /\ OnlyCurrentRuns /\ NoFatal /\ ControlOK
             /\ CursorLive /\ SlotsMatchProcesses /\ ListOK)
<1>1. Init => ProcInv
  BY ProcInit
<1>2. ProcInv /\ [Next]_vars => ProcInv'
  BY ProcStep, ProcStutter
<1>3. ProcInv => /\ TypeOK /\ OnlyCurrentRuns /\ NoFatal /\ ControlOK
                 /\ CursorLive /\ SlotsMatchProcesses /\ ListOK
  BY DEF ProcInv, RTInv
<1>4. QED
  BY <1>1, <1>2, <1>3, PTL DEF Spec
-----------------------------------------------------------------------------
(***************************************************************************)
(* What follows from the list's shape: it reaches every live process, and  *)
(* process_count counts them.                                              *)
(***************************************************************************)
LEMMA U16Steps ==
  ASSUME NEW c \in Int
  PROVE  /\ ((c % U16) + 1) % U16 = (c + 1) % U16
         /\ ((c % U16) - 1) % U16 = (c - 1) % U16
BY DEF U16

CountOK ==
  IsFiniteSet(live) /\ process_count = Cardinality(Listed) % U16

LEMMA CountSame ==
  ASSUME CountOK, IsFiniteSet(live'), Listed' = Listed,
         process_count' = process_count
  PROVE  CountOK'
BY DEF CountOK

LEMMA CountStep ==
  ASSUME ProcInv, CountOK, [Next]_vars
  PROVE  CountOK'
<1>1. ASSUME UNCHANGED listVars, UNCHANGED g_pending_heap_free
      PROVE  CountOK'
  BY <1>1, CountSame DEF CountOK, listVars, Listed
<1>2. IsFiniteSet(live) /\ Cardinality(live) \in Nat
  BY FS_CardinalityType DEF CountOK
<1>3. CASE UNCHANGED vars
  BY <1>1, <1>3 DEF vars, heapVars
<1>4. CASE InitProcess
  <2>1. live = {} /\ live' = {} /\ process_count' = 0 /\ Listed' = {}
    BY <1>4 DEF InitProcess, ProcInv, ControlOK, Listed
  <2>2. QED
    BY <2>1, FS_EmptySet DEF CountOK, U16
<1>5. CASE Creates
  <2>1. PICK p \in Proc, prio \in Priorities, s \in live \cup {NULL} :
          Allocates(p, prio, s)
    BY <1>5 DEF Creates, CreateProcess, CreateChildProcess
  <2>2. /\ p \notin live /\ live' = live \cup {p}
        /\ process_count' = (process_count + 1) % U16
        /\ pc # "returned" /\ g_pending_heap_free' = g_pending_heap_free
    BY <2>1 DEF Allocates, CallLeaves, heapVars, Calling, InCode
  <2>3. Listed = live /\ Listed' = live'
    BY <2>2, AllListed, Types DEF Listed
  <2>4. IsFiniteSet(live') /\ Cardinality(live') = Cardinality(live) + 1
    BY <1>2, <2>2, FS_AddElement
  <2>5. process_count' = ((Cardinality(live) % U16) + 1) % U16
    BY <2>2, <2>3 DEF CountOK
  <2>6. QED
    BY <1>2, <2>3, <2>4, <2>5, U16Steps DEF CountOK
<1>6. ASSUME NEW m, pc = "process", Terminates(m)
      PROVE  CountOK'
  <2>1. /\ live' = live /\ g_pending_heap_free' = current_process
        /\ process_count' = (process_count - 1) % U16
        /\ Listed = live /\ Listed' = live \ {current_process}
        /\ current_process \in live
    BY <1>6, AllListed DEF Terminates, Listed, ProcInv, ControlOK, CursorLive
  <2>2. Cardinality(Listed') = Cardinality(live) - 1
    BY <1>2, <2>1, FS_RemoveElement
  <2>3. process_count' = ((Cardinality(live) % U16) - 1) % U16
    BY <2>1 DEF CountOK
  <2>4. QED
    BY <1>2, <2>1, <2>2, <2>3, U16Steps DEF CountOK
<1>7. CASE ProcessTerminated
  <2>1. /\ live' = live \ {g_pending_heap_free} /\ g_pending_heap_free' = NULL
        /\ process_count' = process_count
    BY <1>7 DEF ProcessTerminated, Frees
  <2>2. Listed' = Listed
    BY <2>1, Types DEF Listed
  <2>3. IsFiniteSet(live')
    BY <1>2, <2>1, FS_RemoveElement
  <2>4. QED
    BY <2>1, <2>2, <2>3, CountSame
<1>8. CASE RunProcess
  <2>1. pc = "run" /\ g_pending_heap_free' = NULL /\ UNCHANGED listVars
    BY <1>8 DEF RunProcess
  <2>2. QED
    BY <1>1, <2>1, AllListed
<1>9. CASE Leaves
  <2>1. CASE \E t \in SleepTimes \cup {0} : SleepProcess(t)
    BY <1>1, <2>1 DEF SleepProcess
  <2>2. CASE WatchChildProcess
    BY <1>1, <2>2 DEF WatchChildProcess
  <2>3. CASE EndProcess
    BY <1>1, <1>6, <2>3 DEF EndProcess, heapVars
  <2>4. CASE DestructorReturns
    BY <1>6, <2>4 DEF DestructorReturns
  <2>5. QED
    BY <1>9, <2>1, <2>2, <2>3, <2>4 DEF Leaves
<1>10. ASSUME NEW m, CallOnStructs(m)
       PROVE  CountOK'
  BY <1>1, <1>10 DEF CallOnStructs, CallLeaves, heapVars
<1>11. CASE Kills \/ TimesOut \/ Relates
  <2>1. CASE Kills
    BY <1>1, <1>10, <2>1 DEF Kills, KillProcess, KillPrioProcess,
       KillPrioIteration, KillPrioReturn, KillNeverEnds, vars, heapVars
  <2>2. CASE TimesOut
    BY <1>10, <2>2 DEF TimesOut, WakeupProcess, SleepProcessP,
       WakeupPrioProcess, SleepPrioProcess
  <2>3. CASE Relates
    BY <1>10, <2>3 DEF Relates, LinkChildProcess, KillChildProcess,
       SetProcessDestruct
  <2>4. QED
    BY <1>11, <2>1, <2>2, <2>3
<1>12. CASE Scheduler
  <2>1. CASE (\E t \in Ticks : CallProcess(t)) \/ PassEnds
    BY <1>1, <2>1 DEF CallProcess, PassEnds, heapVars
  <2>2. CASE VisitPaused \/ VisitSleeping \/ VisitWatching \/ VisitWatched
             \/ VisitDead \/ VisitDefault
    BY <1>1, <2>2 DEF VisitPaused, VisitSleeping, VisitWatching, VisitWatched,
       VisitDead, VisitDefault, Visits, heapVars
  <2>3. CASE ProcessYielded
    BY <1>1, <2>3 DEF ProcessYielded, heapVars
  <2>4. QED
    BY <1>7, <1>8, <1>12, <2>1, <2>2, <2>3 DEF Scheduler
<1>13. QED
  BY <1>3, <1>4, <1>5, <1>9, <1>11, <1>12 DEF Next

LEMMA ListReachesAll ==
  ASSUME ProcInv, CountOK
  PROVE  ListIsLive
<1> DEFINE Closed(S) ==
             /\ top_process # NULL => top_process \in S
             /\ \A x \in S : proc[x].next # NULL => proc[x].next \in S
           OnList == {x \in Proc : \A S \in SUBSET Proc : Closed(S) => x \in S}
<1>1. Listed \in SUBSET Proc /\ NULL \notin Listed
  BY Types DEF Listed
<1>2. Closed(Listed)
  BY DEF ProcInv, ListOK
<1>3. ASSUME NEW S \in SUBSET Proc, Closed(S)
      PROVE  Listed \subseteq S
  <2> SUFFICES ASSUME Listed \ S # {}
               PROVE  FALSE
    OBVIOUS
  <2>1. Listed \ S \in SUBSET Listed
    OBVIOUS
  <2>2. PICK x \in Listed \ S : proc[x].youngest_child \notin Listed \ S
    BY <2>1 DEF ProcInv, ListOK, NoCycle
  <2>3. CASE proc[x].youngest_child = NULL
    <3>1. x = top_process
      BY <2>2, <2>3 DEF ProcInv, ListOK
    <3>2. QED
      BY <1>1, <1>3, <2>2, <3>1
  <2>4. CASE proc[x].youngest_child # NULL
    <3>1. /\ proc[x].youngest_child \in Listed
          /\ proc[proc[x].youngest_child].next = x
      BY <2>2, <2>4 DEF ProcInv, ListOK
    <3>2. proc[x].youngest_child \in S
      BY <2>2, <3>1
    <3>3. QED
      BY <1>1, <1>3, <2>2, <3>1, <3>2
  <2>5. QED
    BY <2>3, <2>4
<1> HIDE DEF Closed
<1>4. OnList = Listed
  BY <1>1, <1>2, <1>3
<1>5. QED
  BY <1>4 DEF Closed, CountOK, ListIsLive

(* No process is ever lost to the scheduler: the list a pass walks reaches every
   live process that has not taken itself off, and process_count, as a u16, is
   their number. *)
THEOREM NothingLost == Spec => []ListIsLive
<1>1. Init => ProcInv /\ CountOK
  <2>1. ASSUME Init
        PROVE  live = {} /\ Listed = {} /\ process_count = 0
    BY <2>1 DEF Init, Listed
  <2>2. QED
    BY <2>1, ProcInit, FS_EmptySet DEF CountOK, U16
<1>2. (ProcInv /\ CountOK) /\ [Next]_vars => (ProcInv /\ CountOK)'
  BY ProcStep, ProcStutter, CountStep
<1>3. ProcInv /\ CountOK => ListIsLive
  BY ListReachesAll
<1>4. QED
  BY <1>1, <1>2, <1>3, PTL DEF Spec
=============================================================================
