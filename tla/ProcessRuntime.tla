--------------------------- MODULE ProcessRuntime ---------------------------
(***************************************************************************)
(* The host side of the process system (src/game/process_api.cpp): one     *)
(* coroutine slot per game process, keyed by the address of its Process    *)
(* struct.  The scheduler resumes a slot and blocks until the coroutine    *)
(* yields; every check that fails ends the program (process_fatal).        *)
(*                                                                         *)
(* Each operator is one exported function.  A call of                      *)
(* recomp_process_resume spans two steps: the switch into the coroutine    *)
(* and, when the coroutine calls recomp_process_yield, the switch back.    *)
(* Nothing else runs in between, so each half is atomic.                   *)
(***************************************************************************)
EXTENDS Naturals

CONSTANTS
  Proc,    (* process keys: the addresses a Process struct can live at *)
  Entry,   (* entry functions a slot can be created for *)
  NULL     (* the null pointer, key 0 *)

ASSUME RuntimeAssumption == NULL \notin Proc

VARIABLES
  initialized,   (* recomp_process_init has been called *)
  slots,         (* ProcessRuntime::slots *)
  current_slot,  (* key of the slot whose coroutine runs, or NULL *)
  yield_reason,  (* what the last coroutine to leave said, or "none" *)
  fatal          (* process_fatal has been reached *)

rtVars == <<initialized, slots, current_slot, yield_reason, fatal>>

YieldReason == {"NORMAL", "STACKCHECK", "TERMINATE"}

(* A slot: its ProcessState, the state of its coroutine, and the metadata a
   later resume is checked against.  initial_sp and end_func never change
   between two resumes of one process, so entry_func stands for all three. *)
Slot == [state : {"Created", "Running", "Suspended", "Dead"},
         coro  : {"SUSPENDED", "RUNNING"},
         entry : Entry]

NoSlot == [state |-> "NoSlot"]

NewSlot(e) == [state |-> "Created", coro |-> "SUSPENDED", entry |-> e]

(* The slot in another state; its metadata never changes. *)
SlotAs(s, st, co) == [state |-> st, coro |-> co, entry |-> s.entry]

RTInit ==
  /\ initialized = FALSE
  /\ slots = [k \in Proc |-> NoSlot]
  /\ current_slot = NULL
  /\ yield_reason = "none"
  /\ fatal = FALSE

Fatal == /\ fatal' = TRUE
         /\ UNCHANGED <<initialized, slots, current_slot, yield_reason>>
-----------------------------------------------------------------------------
recomp_process_init ==
  IF current_slot # NULL
  THEN Fatal
  ELSE /\ slots' = [k \in Proc |-> NoSlot]
       /\ initialized' = TRUE
       /\ yield_reason' = "none"
       /\ UNCHANGED <<current_slot, fatal>>

(* The slot a resume works on: the one found, or a new one. *)
FoundOrCreated(k, e) == IF slots[k] = NoSlot THEN NewSlot(e) ELSE slots[k]

(* mco_resume accepts only a coroutine that is suspended. *)
MayResume(k, e) ==
  /\ initialized
  /\ current_slot = NULL
  /\ FoundOrCreated(k, e).state # "Dead"
  /\ FoundOrCreated(k, e).entry = e
  /\ FoundOrCreated(k, e).coro = "SUSPENDED"

(* The first resume enters process_coro_entry, a later one returns from
   recomp_process_yield; both mark the slot Running. *)
recomp_process_resume(k, e) ==
  IF MayResume(k, e)
  THEN /\ slots' = [slots EXCEPT ![k] = SlotAs(FoundOrCreated(k, e),
                                                 "Running", "RUNNING")]
       /\ current_slot' = k
       /\ yield_reason' = "none"
       /\ UNCHANGED <<initialized, fatal>>
  ELSE Fatal

(* Faulty variant. *)
yield_stays_current(reason) ==
  IF current_slot = NULL
  THEN Fatal
  ELSE /\ slots' = [slots EXCEPT ![current_slot] =
                      SlotAs(@, IF reason = "TERMINATE"
                                THEN "Dead" ELSE "Suspended", "SUSPENDED")]
       /\ yield_reason' = reason
       /\ UNCHANGED <<initialized, current_slot, fatal>>

(* Leaves the running coroutine and returns to the caller of resume, which
   clears current_slot. *)
recomp_process_yield(reason) ==
  IF current_slot = NULL
  THEN Fatal
  ELSE /\ slots' = [slots EXCEPT ![current_slot] =
                      SlotAs(@, IF reason = "TERMINATE"
                                THEN "Dead" ELSE "Suspended", "SUSPENDED")]
       /\ yield_reason' = reason
       /\ current_slot' = NULL
       /\ UNCHANGED <<initialized, fatal>>

recomp_process_destroy(k) ==
  IF slots[k] # NoSlot /\ k = current_slot
  THEN Fatal
  ELSE /\ slots' = [slots EXCEPT ![k] = NoSlot]
       /\ UNCHANGED <<initialized, current_slot, yield_reason, fatal>>

recomp_process_get_current_key == current_slot
-----------------------------------------------------------------------------
(***************************************************************************)
(* The runtime on its own, under a caller that may call anything in any    *)
(* order, from the scheduler or from inside a coroutine.                   *)
(***************************************************************************)
RTNext ==
  /\ ~fatal
  /\ \/ recomp_process_init
     \/ \E k \in Proc, e \in Entry : recomp_process_resume(k, e)
     \/ \E r \in YieldReason : recomp_process_yield(r)
     \/ \E k \in Proc : recomp_process_destroy(k)

RTSpec == RTInit /\ [][RTNext]_rtVars
-----------------------------------------------------------------------------
(* Every variable has its type. *)
RTTypeOK ==
  /\ initialized \in BOOLEAN
  /\ slots \in [Proc -> Slot \cup {NoSlot}]
  /\ current_slot \in Proc \cup {NULL}
  /\ yield_reason \in YieldReason \cup {"none"}
  /\ fatal \in BOOLEAN

(* The slot table and current_slot agree, whatever the caller does: the current
   slot exists, the coroutine that runs is its and no other, a slot that does
   not run is parked with a suspended coroutine, and no slot is left in the
   Created state (creation always ends in a switch). *)
OnlyCurrentRuns ==
  /\ current_slot # NULL => slots[current_slot] # NoSlot
  /\ \A k \in Proc : slots[k] # NoSlot =>
       /\ slots[k].state # "Created"
       /\ (slots[k].coro = "RUNNING") <=> (k = current_slot)
       /\ (slots[k].state = "Running") <=> (k = current_slot)

(* A slot that terminated is never run again: it stays Dead until it is
   destroyed, and a slot keeps the entry function it was created for, so a
   new process at a recycled address cannot continue an old coroutine. *)
TerminatedNeverRuns ==
  [][\A k \in Proc : slots[k] # NoSlot /\ slots'[k] # NoSlot =>
       /\ slots[k].state = "Dead" => slots'[k].state = "Dead"
       /\ slots'[k].entry = slots[k].entry]_rtVars
=============================================================================
