------------------------------- MODULE FileExec -------------------------------
(***************************************************************************)
(* Loading an overlay's file (fexec functions of required_patches.c): it   *)
(* is found in its file block, read by DMA, copied to where the TLB says   *)
(* the address leads, and its first function is called.  The block is a    *)
(* global that is changed for the load and then set to a fixed one.        *)
(* fexecLoad loads at 0x80250000, which is where the module pages begin.   *)
(*                                                                         *)
(* The module puts together the DMA functions, the TLB and the page table: *)
(* one thread, main, loads, maps and unloads overlays, others only use the *)
(* DMA functions.  File functions are the game's; each stands for one read.*)
(***************************************************************************)
EXTENDS Overlay, Dma

CONSTANTS
  main,            (* the thread that loads overlays *)
  Home,            (* the block set after a load, 0x2A0000 *)
  BlockOf,         (* the block of each overlay, from D_800EF250 *)
  Blocks,          (* blocks that callers of fexecChangeBlock ask for *)
  Listed,          (* overlays their blocks list *)
  TooLong,         (* blocks whose list has 0x202 bytes or more *)
  Recognised,      (* overlays in the switch of fexecLoadAddress *)
  MaxDepth         (* bound on loads within a load *)

ASSUME MainAssumption == main \in Threads
(* Blocks are ROM addresses, and the -1 of no block is none of them. *)
ASSUME BlocksAssumption ==
  NoModule \notin {Home} \cup Blocks /\ \A m \in Modules : BlockOf[m] # NoModule

VARIABLES
  D_800A0134,      (* the current block *)
  D_800A0138,      (* the overlay fexecLoad was last asked for, or NoModule *)
  D_800A013C,      (* whose function fexecCall calls *)
  ram,             (* what is in each module page *)
  funcs,           (* whose functions calls to the first module page run *)
  filled,          (* modules whose file was loaded since they were mapped *)
  exec             (* the calls of main, innermost last *)

fileVars == <<D_800A0134, D_800A0138, D_800A013C, ram, funcs, filled>>
allVars == <<vars, dmaVars, fileVars, exec>>

Nothing == [module |-> NoModule, page |-> 0]
Frame(kind, id) == [kind |-> kind, id |-> id, at |-> "info"]
Top == exec[Len(exec)]
Before == SubSeq(exec, 1, Len(exec) - 1)
Place == IF exec = <<>> THEN "game" ELSE Top.at
At(place) == Place = place
GoesTo(place) == exec' = [exec EXCEPT ![Len(exec)].at = place]

(* main runs the game's code or an overlay's first function. *)
MainFree == ~ stopped /\ dma[main] = "idle" /\ Place \in {"game", "entry"}

FileInit ==
  /\ Init /\ DmaInit
  /\ D_800A0134 = NoModule /\ D_800A0138 = NoModule /\ D_800A013C = NoModule
  /\ ram = [s \in Slots |-> Nothing] /\ funcs = NoModule
  /\ filled = {} /\ exec = <<>>

Calls(kind, id) ==
  /\ MainFree /\ Len(exec) < MaxDepth
  /\ exec' = Append(exec, Frame(kind, id))
  /\ dmaRead(main)
  /\ UNCHANGED <<vars, D_800A013C, ram, funcs, filled>>

fexecInit ==
  /\ D_800A0134' = NoModule /\ D_800A0138' = NoModule
  /\ Calls("init", NoModule)

(* Reads the list of the overlay's block. *)
OpensBlock(kind, id) ==
  /\ D_800A0134 # NoModule
  /\ D_800A0134' = BlockOf[id]
  /\ Calls(kind, id)

fexecLoadAddress(id) == OpensBlock("module", id) /\ UNCHANGED D_800A0138
fexecGetFileSize(id) == OpensBlock("size", id) /\ UNCHANGED D_800A0138

fexecLoad(id) ==
  /\ id # D_800A0138
  /\ D_800A0138' = id
  /\ OpensBlock("fixed", id)

fexecChangeBlock(block) ==
  /\ MainFree /\ D_800A0134 # NoModule
  /\ D_800A0134' = block
  /\ UNCHANGED <<vars, dmaVars, D_800A0138, D_800A013C, ram, funcs, filled, exec>>

InfoRead ==
  /\ At("info") /\ ReadReturns(main)
  /\ IF Top.kind = "init"
     THEN exec' = Before /\ D_800A0134' = Home
     ELSE GoesTo("search") /\ UNCHANGED D_800A0134
  /\ UNCHANGED <<vars, D_800A0138, D_800A013C, ram, funcs, filled>>

(* Where the file of the call goes: the page that the TLB leads to, or the first. *)
func(frame) == IF frame.kind = "fixed" THEN KSEG0 + RAM_BASE ELSE Virtual(frame.id)
load_addr(frame) == _tlb_lookup(func(frame))
FirstPage(frame) == (load_addr(frame) - KSEG0 - RAM_BASE) \div MODULE_UNITS

(* A list that is too long for its buffer, an overlay that is not in it, and an
   address that nothing is mapped at end the program. *)
Searches ==
  /\ At("search") /\ ~ stopped
  /\ IF \/ D_800A0134 \in TooLong
        \/ Top.id \notin Listed \/ D_800A0134 # BlockOf[Top.id]
        \/ /\ Top.kind # "size"
           /\ func(Top) < KSEG0 /\ load_addr(Top) = func(Top)
     THEN stopped' = TRUE /\ UNCHANGED <<dmaVars, exec>>
     ELSE dmaRead(main) /\ GoesTo("file") /\ UNCHANGED stopped
  /\ UNCHANGED <<D_800CA668, gTLBTable, overlayVars, fileVars>>

(* A file is as long as the pages that were got for it, one that has none as long
   as all, and is copied from the looked-up address on.  The functions at that
   address are set if the file is a known one. *)
Copied(frame) ==
  LET first == FirstPage(frame)
      count == IF frame.kind = "fixed" THEN MODULE_PAGE_COUNT
               ELSE Cardinality(OwnedBy(frame.id)) IN
  [s \in Slots |->
     IF s \in first .. first + count - 1
     THEN [module |-> IF main \in arrived THEN frame.id ELSE NoModule, page |-> s - first]
     ELSE ram[s]]

(* The end of fexecLoadAddress, up to the call of the overlay's first function,
   and of fexecGetFileSize. *)
FileRead ==
  /\ At("file") /\ ReadReturns(main)
  /\ D_800A0134' = Home
  /\ IF Top.kind = "size"
     THEN exec' = Before /\ UNCHANGED <<ram, funcs, filled>>
     ELSE /\ GoesTo("entry")
          /\ ram' = Copied(Top)
          /\ funcs' = (IF FirstPage(Top) = 0 /\ Top.id \in Recognised THEN Top.id ELSE funcs)
          /\ filled' = (IF Top.kind = "module" THEN filled \cup {Top.id} ELSE filled)
  /\ UNCHANGED <<vars, D_800A0138, D_800A013C>>

(* The first function returns what fexecCall is to call. *)
EntryReturns ==
  /\ MainFree /\ At("entry")
  /\ exec' = Before
  /\ D_800A013C' = (IF Top.kind = "fixed" THEN funcs ELSE D_800A013C)
  /\ UNCHANGED <<vars, dmaVars, D_800A0134, D_800A0138, ram, funcs, filled>>
-----------------------------------------------------------------------------
(* What callers must not do: load a file for an address where another module is
   mapped, call fexecLoad while modules have pages or in the first function of an
   overlay, or call fexecInit a second time.  The code tests none of these. *)
Tolerated(frame) ==
  /\ frame.kind = "init" => D_800A0134 = NoModule
  /\ frame.kind = "fixed" => Loaded = {} /\ exec = <<>>
  /\ frame.kind = "module" =>
       \A m \in Mapped : VirtualPage[m] = VirtualPage[frame.id] => m = frame.id

FileCall ==
  \/ Tolerated(Frame("init", NoModule)) /\ fexecInit
  \/ \E b \in Blocks : fexecChangeBlock(b)
  \/ \E id \in Modules :
       \/ Tolerated(Frame("module", id)) /\ fexecLoadAddress(id)
       \/ Tolerated(Frame("fixed", id)) /\ fexecLoad(id)
       \/ fexecGetFileSize(id)

FileStep == InfoRead \/ Searches \/ FileRead \/ EntryReturns

(* The game's own loading and unloading: it makes no transfer, so it is enough to
   take it while there is none.  What is in pages without an owner, which none of
   the properties asks for, is forgotten then. *)
ModuleCall ==
  /\ MainFree /\ exec = <<>>
  /\ UnderWay = {}
  /\ Next
  /\ filled' = {m \in filled : OwnedBy(m)' # {}}
  /\ ram' = [s \in Slots |->
               IF NoModule \in {D_800CA668[s].module_id, D_800CA668'[s].module_id}
               THEN Nothing ELSE ram[s]]
  /\ UNCHANGED <<dmaVars, D_800A0134, D_800A0138, D_800A013C, funcs, exec>>

DmaNext ==
  /\ PiCompletes \/ Retries(main)
       \/ \E t \in Threads \ {main} : DmaStep(t) \/ DmaCall(t)
  /\ UNCHANGED <<vars, fileVars, exec>>

FileNext == FileCall \/ FileStep \/ ModuleCall \/ DmaNext

FileSpec == FileInit /\ [][FileNext]_allVars
-----------------------------------------------------------------------------
(* The code an overlay finds at its own addresses is its file's, each page in its
   place, from its load to its unloading: the file was found in the right block,
   its data had arrived, it went where the TLB leads, and nothing was loaded
   over it. *)
CodeIsOwn ==
  ~ stopped => \A m \in filled : \A offset \in 0 .. SizeOf(m) - 1 :
    LET found == _tlb_lookup(Virtual(m) + offset) - KSEG0 - RAM_BASE IN
    /\ found % MODULE_UNITS = offset % MODULE_UNITS
    /\ ram[found \div MODULE_UNITS] = [module |-> m, page |-> offset \div MODULE_UNITS]

(* "TLB lookup failed for overlay address", "Can not find evfile number", "too long
   file size : evinfo": a load is refused exactly when the overlay is not mapped or
   not listed, or its own block's list is too long, whatever was mapped and which
   block was current before. *)
RefusedRightly ==
  [][Searches =>
       (stopped' <=> \/ Top.id \notin Listed
                     \/ BlockOf[Top.id] \in TooLong
                     \/ Top.kind = "module" /\ Top.id \notin Mapped)]_allVars
=============================================================================
