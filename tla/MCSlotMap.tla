------------------------------ MODULE MCSlotMap ------------------------------
(***************************************************************************)
(* Instances of the slot map, with a history variable that tells how long  *)
(* ago each slot was erased.                                               *)
(***************************************************************************)
EXTENDS SlotMap

VARIABLE erasures   (* elements erased since a slot's was, up to MinFree *)

MCInit == Init /\ erasures = [i \in Index |-> MinFree]

Counts ==
  erasures' =
    IF numSlots' = 0 THEN [i \in Index |-> MinFree]
    ELSE IF numItems' < numItems
    THEN [i \in Index |->
            IF meta'[i] # meta[i] THEN 0
            ELSE IF erasures[i] < MinFree THEN erasures[i] + 1 ELSE MinFree]
    ELSE erasures

MCNext == Next /\ Counts

MCSpec == MCInit /\ [][MCNext]_<<vars, erasures>>

(* A slot is left alone until MinFree others have been erased after it, clear
   and copies included: its versions last that many times longer. *)
ReuseDelayed ==
  [][\A i \in Index :
       i < numSlots /\ i < numSlots' /\ meta[i].tombstone /\ ~ meta'[i].tombstone
         => erasures[i] >= MinFree]_vars
=============================================================================
