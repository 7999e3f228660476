------------------------------ MODULE MCFileExec ------------------------------
(* Overlays 1 and 2 are linked for the same address, 3 and 4 for another, as close
   as VirtualPageAssumption allows.  1 and 3 can be loaded; 3 is not in the switch
   of fexecLoadAddress, 2 is in no list, and the list of 4's block is too long. *)
EXTENDS FileExec

MCVirtualPage == [m \in Modules |-> IF m < 3 THEN 15 ELSE 26]
MCBlockOf == [m \in Modules |-> IF m = 1 THEN 1 ELSE IF m = 4 THEN 3 ELSE 2]
=============================================================================
