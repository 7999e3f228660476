------------------------------ MODULE MCProcess ------------------------------
(* Instances of the process system.  Addresses are interchangeable. *)
EXTENDS Process, TLC

Symmetry == Permutations(Proc)

(* Two frames, or paused until woken. *)
TimesAndPause == {2, -1}

(* Callers link no process below itself or below one of its own children. *)
UsualNext ==
  /\ NoFatal
  /\ \/ InitProcess \/ Scheduler \/ Leaves \/ Creates \/ Kills \/ TimesOut
     \/ Relates /\ NoCircles'

UsualSpec == Init /\ [][UsualNext]_vars
=============================================================================
