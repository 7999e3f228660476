-------------------------- MODULE ProcessLifecycle --------------------------
(***************************************************************************)
(* What the process system promises its users, whatever the lists, slots   *)
(* and heaps underneath do.  A process is created at a free address, runs  *)
(* its body a stretch at a time, one process at a time, and is given up in *)
(* a fixed order: only the running process can exit, it is then reaped     *)
(* before anything else happens, and only then is its address free again.  *)
(* A killed process loses whatever it was in the middle of before it runs  *)
(* again, and then only runs the code that ends it.                        *)
(***************************************************************************)
CONSTANTS Proc, NULL

VARIABLES
  status,   (* of the process at each address *)
  code,     (* what the process there is in the middle of *)
  running   (* the process that has control, or NULL *)

lifeVars == <<status, code, running>>

LifeTypeOK ==
  /\ status \in [Proc -> {"free", "alive", "killed", "exited"}]
  /\ code \in [Proc -> {"none", "body", "end"}]
  /\ running \in Proc \cup {NULL}

LifeInit ==
  /\ status = [p \in Proc |-> "free"]
  /\ code = [p \in Proc |-> "none"]
  /\ running = NULL

NoneExited == \A p \in Proc : status[p] # "exited"

WithKilled(S) == [p \in Proc |-> IF p \in S THEN "killed" ELSE status[p]]

Alive == {p \in Proc : status[p] = "alive"}

Create(p) ==
  /\ NoneExited
  /\ status[p] = "free"
  /\ status' = [status EXCEPT ![p] = "alive"]
  /\ UNCHANGED <<code, running>>

(* By whoever has control, itself included. *)
Kill(S) ==
  /\ NoneExited
  /\ status' = WithKilled(S)
  /\ UNCHANGED <<code, running>>

(* The code a killed process was in the middle of is given up. *)
Drop(p) ==
  /\ running = NULL
  /\ NoneExited
  /\ status[p] = "killed"
  /\ code' = [code EXCEPT ![p] = "none"]
  /\ UNCHANGED <<status, running>>

Run(p) ==
  /\ running = NULL
  /\ NoneExited
  /\ status[p] \in {"alive", "killed"}
  /\ status[p] = "killed" => code[p] = "none"
  /\ code' = [code EXCEPT ![p] =
                CASE @ # "none" -> @
                  [] @ = "none" /\ status[p] = "alive" -> "body"
                  [] @ = "none" /\ status[p] = "killed" -> "end"]
  /\ running' = p
  /\ UNCHANGED status

(* A process that waits for children lives on, even if it was killed. *)
Pause ==
  /\ running # NULL
  /\ running' = NULL
  /\ status' \in {status, [status EXCEPT ![running] = "alive"]}
  /\ UNCHANGED code

(* The running process starts to end; it takes others with it. *)
BeginEnd(S) ==
  /\ running # NULL
  /\ code' = [code EXCEPT ![running] = "end"]
  /\ status' = WithKilled(S)
  /\ UNCHANGED running

Exit(S) ==
  /\ running # NULL
  /\ status' = [WithKilled(S) EXCEPT ![running] = "exited"]
  /\ running' = NULL
  /\ UNCHANGED code

Reap(p) ==
  /\ running = NULL
  /\ status[p] = "exited"
  /\ status' = [status EXCEPT ![p] = "free"]
  /\ code' = [code EXCEPT ![p] = "none"]
  /\ UNCHANGED running

LifeNext ==
  \/ \E p \in Proc : Create(p) \/ Drop(p) \/ Run(p) \/ Reap(p)
  \/ \E S \in SUBSET Alive : Kill(S) \/ BeginEnd(S) \/ Exit(S)
  \/ Pause

LifeSpec == LifeInit /\ [][LifeNext]_lifeVars
=============================================================================
