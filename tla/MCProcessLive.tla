---------------------------- MODULE MCProcessLive ----------------------------
(***************************************************************************)
(* Progress of the process system.  Calls that can put progress off for    *)
(* ever when made for ever (creations ahead of the cursor within one pass, *)
(* putting a sleeper to sleep again) are bounded in number.                *)
(***************************************************************************)
EXTENDS Process

CONSTANT MaxCalls   (* bound on creations and on sleep and wakeup calls *)

VARIABLE calls

LiveInit == Init /\ calls = 0

BudgetedCall ==
  /\ Creates \/ TimesOut
  /\ calls < MaxCalls
  /\ calls' = calls + 1

(* Callers link no process below itself or below one of its own children. *)
OtherCall ==
  /\ \/ InitProcess \/ Scheduler \/ Leaves \/ Kills
     \/ Relates /\ NoCircles'
  /\ UNCHANGED calls

LiveNext == NoFatal /\ (BudgetedCall \/ OtherCall)

LiveSpec == LiveInit /\ [][LiveNext]_<<vars, calls>> /\ Fairness
=============================================================================
