---------------------------- MODULE MCProcessPass ----------------------------
(***************************************************************************)
(* One pass of CallProcess against changes of the main list under its      *)
(* cursor: processes create, kill and end processes while it walks.  Two   *)
(* history variables record the pass.  Trees, sleeping and destructors     *)
(* play no part in the walk and are left to the other instances.           *)
(***************************************************************************)
EXTENDS Process, TLC

VARIABLES
  present,  (* processes on the list when the pass began, and since then *)
  seen      (* processes the cursor has been at in this pass *)

passHistory == <<present, seen>>

PassSymmetry == Permutations(Proc)

PassInit == Init /\ present = {} /\ seen = {}

(* A process whose heap is freed is forgotten: its address may come back. *)
Records ==
  IF pc = "idle" /\ pc' = "loop"
  THEN present' = live /\ seen' = {}
  ELSE IF pc' = "idle"
  THEN present' = {} /\ seen' = {}
  ELSE /\ present' = present \cap live'
       /\ seen' = (IF pc = "loop" THEN seen \cup {current_process} ELSE seen)
                    \cap live'

ListCalls ==
  \/ \E p \in Proc, prio \in Priorities : CreateProcess(p, prio)
  \/ \E p \in live : KillProcess(p)

PassNext ==
  /\ NoFatal
  /\ InitProcess \/ Scheduler \/ Leaves \/ ListCalls
  /\ Records

PassSpec == PassInit /\ [][PassNext]_<<vars, passHistory>>

(* A pass gives each process that was there when it began, and has not ended
   meanwhile, exactly one turn: the cursor never comes to a process twice and
   has missed none when the pass ends, whatever was created, killed or freed
   under it. *)
OneTurnEach ==
  pc = "loop" => IF current_process = NULL THEN present \subseteq seen
                 ELSE current_process \notin seen
=============================================================================
