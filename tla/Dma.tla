--------------------------------- MODULE Dma ---------------------------------
(***************************************************************************)
(* Transfers from and to the cartridge (the DMA functions of               *)
(* patches/src/required_patches.c).  All completions come to one queue     *)
(* with room for one message.  dmaRead and dmaWrite, which wait for theirs *)
(* there, are kept apart by a busy flag; the functions that only start a   *)
(* transfer do not look at it.  Nothing in the code keeps these from being *)
(* called while another is in use (Alone), nor these from being called     *)
(* while a transfer is under way that was only started (WithoutFlag):      *)
(* callers must not.                                                       *)
(*                                                                         *)
(* Game threads are switched between at OS calls only, of which there is   *)
(* none between the test of the flag and its setting.                      *)
(***************************************************************************)
EXTENDS Integers, Sequences, FiniteSets

CONSTANT Threads        (* the game's, all of one priority; at most 8 *)

VARIABLES
  D_80097D48,           (* the busy flag *)
  D_80097D68,           (* completions in the queue *)
  pi,                   (* transfers the PI manager has been asked for, in order *)
  dma,                  (* where a thread is: in which call, or between two *)
  arrived               (* threads whose transfer is done and not yet waited for *)

dmaVars == <<D_80097D48, D_80097D68, pi, dma, arrived>>

DmaInit ==
  /\ D_80097D48 = 0 /\ D_80097D68 = 0
  /\ pi = <<>> /\ dma = [t \in Threads |-> "idle"]
  /\ arrived = {}

UnderWay == {t \in Threads : dma[t] \notin {"idle", "spins"}}
WithoutFlag == {t \in Threads : dma[t] \in {"started", "waits"}}
Alone(t) == \A u \in Threads \ {t} : dma[u] = "idle"

osPiStartDma(t) == pi' = Append(pi, t) /\ arrived' = arrived \ {t}

(* Faulty variant. *)
flag_not_tested(t) ==
  /\ D_80097D48' = 1
  /\ osPiStartDma(t) /\ dma' = [dma EXCEPT ![t] = "reads"]
  /\ UNCHANGED D_80097D68

TakesFlag(t) ==
  /\ D_80097D48 = 0 /\ D_80097D48' = 1
  /\ osPiStartDma(t) /\ dma' = [dma EXCEPT ![t] = "reads"]
  /\ UNCHANGED D_80097D68

(* Yields, to test the flag again. *)
Yields(t) ==
  /\ D_80097D48 # 0
  /\ dma' = [dma EXCEPT ![t] = "spins"]
  /\ UNCHANGED <<D_80097D48, D_80097D68, pi, arrived>>

(* Callers do not read or write while a transfer is under way that did not take
   the flag. *)
dmaRead(t) == dma[t] = "idle" /\ WithoutFlag = {} /\ (TakesFlag(t) \/ Yields(t))

Retries(t) == dma[t] = "spins" /\ TakesFlag(t)

(* The message received is taken for the thread's own. *)
osRecvMesg(t) ==
  /\ D_80097D68 = 1 /\ D_80097D68' = 0
  /\ dma' = [dma EXCEPT ![t] = "idle"]
  /\ arrived' = arrived \ {t}
  /\ UNCHANGED pi

ReadReturns(t) == dma[t] = "reads" /\ osRecvMesg(t) /\ D_80097D48' = 0

(* dmaReadNonBlock, dmaWriteNonBlock, dmaStart *)
dmaStart(t) ==
  /\ dma[t] = "idle" /\ Alone(t)
  /\ osPiStartDma(t) /\ dma' = [dma EXCEPT ![t] = "started"]
  /\ UNCHANGED <<D_80097D48, D_80097D68>>

dmaWaitBlock(t) ==
  /\ dma[t] = "started"
  /\ dma' = [dma EXCEPT ![t] = "waits"]
  /\ UNCHANGED <<D_80097D48, D_80097D68, pi, arrived>>

WaitReturns(t) == dma[t] = "waits" /\ osRecvMesg(t) /\ UNCHANGED D_80097D48

(* Takes the message if it is there, and does not say whether it was. *)
dmaCheckTrans(t) ==
  /\ dma[t] = "started"
  /\ D_80097D68' = 0
  /\ dma' = [dma EXCEPT ![t] = IF D_80097D68 = 1 THEN "idle" ELSE @]
  /\ UNCHANGED <<D_80097D48, pi, arrived>>

(* The PI manager: a message that finds the queue full is lost. *)
PiCompletes ==
  /\ pi # <<>>
  /\ pi' = Tail(pi) /\ arrived' = arrived \cup {Head(pi)}
  /\ D_80097D68' = 1
  /\ UNCHANGED <<D_80097D48, dma>>

DmaStep(t) == Retries(t) \/ ReadReturns(t) \/ WaitReturns(t)
DmaCall(t) == dmaRead(t) \/ dmaStart(t) \/ dmaWaitBlock(t) \/ dmaCheckTrans(t)
-----------------------------------------------------------------------------
(* A thread that waits for a transfer waits for its own: the PI manager has been
   asked for it, or its data is there and the completion is in the queue, so that
   dmaRead, dmaWrite and dmaWaitBlock return, and return with the data.  The flag
   is set while a thread reads, and never left behind. *)
OwnCompletion ==
  /\ \A t \in Threads : dma[t] \in {"reads", "waits"} =>
       IF D_80097D68 = 1 THEN t \in arrived ELSE \E i \in DOMAIN pi : pi[i] = t
  /\ D_80097D48 = 1 <=> \E t \in Threads : dma[t] = "reads"
=============================================================================
