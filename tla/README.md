# A verification project for BM64 Recomp

BM64 Recomp runs a statically recompiled Nintendo 64 game on a PC.  Most of the
program is libraries and generated code; what is the project's own is a thin
layer in two places: *patches*, C code that replaces functions of the game and
is recompiled with it (`src/patches/`), and *host code*, C++ that the game and
mods call into (`src/src/`, `src/include/`), with one vendored container the
host code is built on (`src/lib/SlotMap/`).  This directory holds TLA+ models
of that layer, TLC configurations that check them on small instances, and
proofs checked by TLAPS.

Paths below are relative to the repository.  "Expected to hold" means that a
run checks it, "proved" that TLAPS proves it for every value of the constants.

## 1. The system

### Inventory

**Process runtime** (`src/game/process_api.cpp`, over the vendored
`minicoro.h`).  State: a map from a process's address to a slot (a coroutine,
its entry function, Ready/Running/Dead), the slot that is running, the reason
of the last yield, an initialised flag.  Operations: `recomp_process_init`,
`_resume`, `_yield`, `_destroy`, `_get_current_key`.  Called only by the
process system.  Any misuse (resuming while something runs, resuming a dead
slot, destroying the running one, a slot created with another entry function)
ends the program through `process_fatal`.  Correct when no caller can reach
`process_fatal`, when exactly the current slot is Running, and when a
terminated coroutine is never entered again.

**Process system** (`patches/src/process.c`).  The game's cooperative
scheduler.  State: process structs, each inside its own heap, linked into a
main list sorted by priority and into sibling lists below their parents; the
head of the list, the process that runs, a count, and a heap waiting to be
freed.  Operations: creating, killing (singly, by priority, with all
descendants), ending, sleeping and waking (own, of another process, by
priority), watching children, setting a destructor, and `CallProcess`, which
walks the list once per frame and switches into everything that is due.  Hard:
a process that is switched into may create, kill and end processes, itself
included, under the cursor of the walk; the struct of a process disappears
when the process ends; kills are delivered by starting a fresh coroutine at
`EndProcess`, wherever the killed one was parked; pointers to relatives can
outlive the relatives.  Correct when no process is lost or visited twice, the
lists stay linked and sorted, kills are final and get carried out, and nothing
is read or written after it is freed.

**SlotMap** (`lib/SlotMap/slot_map.h`).  A container that hands out keys of an
index and a version.  State: pages of slots with a version, a tombstone and an
inactive mark, a queue of free keys, an item count.  Operations: emplace,
erase, get, has_key, clear, reset, copy, iteration.  Hard: what happens at the
version limit, the delay before a slot is reused, pages that are given back.
Correct when a key is handed out once, finds its own element until that is
erased, and nothing afterwards.

**Mod data API** (`src/game/recomp_data_api.cpp`).  Hash maps, sets and slot
maps for mods, named by handles that are slot map keys.  Each table has a
mutex and each container has one.  Hard: a container is looked up under the
table's lock and used after it is released; a block is looked up, allocated or
freed, and inserted or erased in separate critical sections.  Correct when each
block has one owner, whoever calls what in between, and every call ends.

**Object extension API** (`src/game/recomp_extension_api.cpp`).  Extra data
for game objects, registered by mods before objects exist and allocated with
each object.  State per object type: sizes, registered extensions, a slot map
of the objects' data, a spawn counter, and one flag that closes registration.
Correct when the address handed out for an extension lies inside the object's
allocation and overlaps no other extension's.

**Module pages** (`patches/src/module_impl.c`).  A table of 64 physical pages
of 8 KiB from which an overlay gets a contiguous run, described in entries of
four pages or one.  Correct when runs are contiguous and disjoint and no run
leaves the table.

**TLB emulation** (`src/game/tlb.cpp`, `include/tlb.h`).  32 entries, looked
up in order for each access outside the direct-mapped segment.  Correct when
an address inside a mapping is translated by that mapping, at both ends of
its pages too.

**Overlay loading, DMA and other patches** (`patches/src/required_patches.c`,
`reloc.c`).  State: a busy flag, a message queue with one place, the current
file block, the overlay that `fexecLoad` loaded last and the function
`fexecCall` calls.  Operations: `dmaRead`, `dmaWrite` (which wait), the
functions that only start a transfer, `dmaWaitBlock` and `dmaCheckTrans`;
`fexecInit`, `fexecLoad`, `fexecLoadAddress`, `fexecGetFileSize`,
`fexecChangeBlock`.  Hard: completions of all threads arrive at one queue; a
load takes several reads, changes the current block and looks up one address
for the whole file; `fexecLoad` loads at a fixed address that is also the first
module page.  Correct when each waiter gets its own completion, and an
overlay's addresses lead to its own code from its load to its unloading.

**Audio output and host main** (`src/main/main.cpp`).  State: the two sample
rates, the frames kept from the last chunk, SDL's queue.  Operations:
`queue_samples`, `set_frequency`, `get_frames_remaining`, `reset_audio`.  Hard:
integer arithmetic on frames, samples and bytes at two rates, which may change
between two chunks.  Correct when chunks join, channels stay apart, the queue
stays short, and the game, which paces itself by it, is not told of frames that
are not there.  The rest of the file starts the window, input and renderer.

**Launcher animation** (`src/main/launcher_animation.cpp`).  Keyframe
interpolation for the start screen.

**Configuration and accessors** (`src/game/config.cpp`, `recomp_api.cpp`),
**ROM decompression** (`rom_decompression.cpp`), **registration and theme**
(`register_overlays.cpp`, `register_patches.cpp`, `theme.cpp`), **microcode
and relocation tables** (`rsp/n_aspMain.cpp`, `patches/inc/relocs.h`): tables,
one-line accessors, a one-shot copy, and generated code.  No state worth a
model.

### How they interact

The game's main loop calls `CallProcess` every frame; `CallProcess` calls the
runtime to switch into a process and gets control back when the process yields
or terminates.  All of that is one thread: nothing is preempted, and what
interleaves is control itself.  Overlay loading asks the module pages for
memory, the game maps them with `osMapTLB`, and every later access goes through
the TLB lookup.  Mods call the data and extension APIs, both built on SlotMap,
and may do so from several game threads.  Game threads wait for DMA and produce
audio chunks.

## 2. Plan

In the order of importance; all of it exists but the last row.

| # | module | models | composes |
|---|--------|--------|----------|
| 1 | `ProcessRuntime` | the host runtime, alone under an arbitrary caller; proved in `Process_proofs` | |
| 2 | `Process` | the process system | extends `ProcessRuntime`: every runtime call of the C code is the runtime's action |
| 3 | `ProcessLifecycle` | what users of processes rely on (abstract) | implemented by `Process` |
| 4 | `Process_proofs`, `ProcessLife_proofs`, `ProcessTree_proofs` | proofs: list and control; kills, lifecycle and passes; parents and children | each extends the one before |
| 5 | `SlotMap`, `SlotMap_proofs` | keys, versions, free queue, pages | |
| 6 | `ModulePages`, `Tlb`, `Overlay` | page table, lookup, and the mapping of pages | `Overlay` extends both |
| 7 | `OverlayMemory` | each loaded overlay in memory of its own (abstract) | implemented by `Overlay` and `FileExec` |
| 8 | `Dma`, `FileExec`, `FileExec_proofs` | transfers and their waiters; loading an overlay's file; the proofs are of all of 6 to 8 | `FileExec` extends `Overlay` and `Dma` |
| 9 | `ObjectExtension`, `ObjectExtension_proofs` | registration, layout, lookup | uses what slot map keys promise |
| 10 | `DataApi`, `DataApi_proofs` | maps of blocks under several threads | uses what slot map keys promise |
| 11 | `AudioQueue`, `AudioQueue_proofs` | queueing and frame accounting | |
| 12 | slot maps of blocks in `DataApi`; process heaps | | |

Every safety invariant, action property and refinement that a passing run checks is
now proved, too.  Worth stating next: an abstract map from keys to elements that
`SlotMap` implements, so that `DataApi` and `ObjectExtension` could use it in place
of what its keys promise; and processes, whose threads call `Dma` and `FileExec`,
in place of `Threads`.

## 3. Modules and code

### ProcessRuntime

`slots` is the map of `ProcessRuntime`, `current_slot`, `yield_reason` and
`initialized` its other members; a slot's `coro` field is the coroutine's
status as minicoro keeps it.  Each exported function is an action of the same
name.  `process_fatal` sets `fatal`, after which nothing happens.  Resume and
yield are the two halves of a switch: `recomp_process_resume` marks the slot
and gives control to the coroutine, `recomp_process_yield` gives it back.
`RTSpec` is the runtime under a caller that does anything in any order.
Allocation failures inside minicoro are left out.

### Process

`proc[p]` is the struct at address `p`, `live` the addresses that are
allocated; freeing resets `proc[p]`, and a later creation may use `p` again, so
stale pointers meet recycled addresses as they do in the program.  The list
functions (`LinkedProcess`, `UnlinkedProcess`, `LinkedChild`, ...) are operators
from memory to memory that write the same fields as the C functions.
`CallProcess` is split where control leaves it or where it decides on a mode:

| step | code |
|------|------|
| `CallProcess(t)`, `PassEnds` | the head and the exit of the loop |
| `VisitPaused`, `VisitSleeping`, `VisitWatching`, `VisitWatched`, `VisitDead`, `VisitDefault` | the cases of the switch |
| `RunProcess` | from label `run_process` to the resume |
| `ProcessTerminated`, `ProcessYielded` | after the resume returns |

What game code does between two switches is unknown: while a process runs, or
between two passes, any sequence of calls may be made, each call being one
step since nothing preempts it.  Two loops keep their own steps: the pass of
`CallProcess`, and `KillPrioProcess`, each of whose kills changes the tree the
next one reads.  `EndProcess` is one step up to the destructor, which is game
code again.

Assumed of callers (`MayLink`): a process is linked below one that is there, and
none is linked while it runs its destructor, when its `EndProcess` has unlinked it
already; otherwise the parent would keep a pointer to a process that is about to
be freed.  The code checks neither.  Which address a new process gets is the
allocator's choice, and no choice is left out: `relative` pointers that outlive
their parent lead to whatever lives there now, and a circle of parents may come of
it.  `KillChildProcess` recurses through such a circle for ever.  `KillEnds` says
from which process it does not; a kill, a sweep or an end that begins where it does
(`KillNeverEnds`) leaves the system as it is for ever, and a single kill that never
returns is not followed.  The runs `process_all`, `live` and `tree` leave out one
misuse, linking a process below itself or below its own child (in `tree`: below any
process it is above), to keep the states few; the proofs leave out none.

`malloc` is assumed to succeed
(`CreateProcess` stops the program when it does not), the heap a process
allocates from is left out, and so are the stack check and the magic numbers of
`validate_process_state`, which nothing modelled overwrites.  `CallProcess` is
called by the main loop, as in the game; it is not called by a process.

Definitions commented `Faulty variant.` are not part of any specification: each
is its neighbour with one plausible bug, and shows that a property would notice
it.

### ProcessLifecycle

An address goes free, alive, (killed,) exited, free.  Code runs at most at one
address; a killed process is dropped where it was parked and only ever runs its
end; a process that exits is not entered again before its address is freed.
`Process` implements it under the mapping `StatusOf`, `CodeOf`, `current_slot`.

### SlotMap

`meta` holds each slot's version and marks, `active` and `numInactiveSlots` the
pages, `freeIndices` the queue of free keys; `owner` is the key under which a
slot's element was inserted and `handed` the keys returned since the last reset,
both for the properties.  A key is a record of slot, version and tag; `make` stores the version modulo `VersionMod` as the bit field
does, which is the identity except at the last version of 32-bit keys.
`emplace`, `erase`, `reset` and copying are actions; `clear` erases slot by slot,
each of which queues a key, and has steps of its own.  What an element stores
is of no concern.  Left out: `pop` (an erase that also returns
the value), iteration (the same walk as `clear`), swap and move, statistics,
and running out of memory.

### ModulePages, Tlb, Overlay

`ModulePages` is the page table and `modulegetpages_impl`'s search; `Tlb` the
table and the lookup that every access of recompiled code goes through; `Overlay`
puts an overlay in pages and the pages in the TLB.  The game's own functions are
not in the repository.  `module_impl.c` keeps copies of two under `#if 0`
(`modulegetfreetlb`, `moduleMapTLB`), which are modelled; the unmapping of
everything at boot and the unloading of a module are modelled from what the
patches expect of them and marked external, unloading with the fields of freed
slots cleared, because nothing reads them.  Taking pages and mapping them are
two steps, as they are two calls of the game's loader; an `errstop` (no pages, no
TLB entries) ends the system, so deadlock is not checked.  Addresses are in
units of half a 4 KiB page, so that what lies between two pages is seen.
`VirtualPageAssumption` says that overlays are linked for the same address or
far apart: the `RELOC_SECTION` constants are 16 MiB apart and the whole table
is 512 KiB.  `zerojumpinit` maps the stub; its own read is left out, which is
made at boot, before there is any other.

`OverlayMemory` is the promise: each loaded overlay has memory of its own, which
nothing else changes, and two overlays linked for one address are never there
together.  `reached` maps the detailed state to it: the pages that looking up the
overlay's addresses, one by one, leads to.

### Dma, FileExec

`Dma` has one variable per global (the flag `D_80097D48`, the queue
`D_80097D68`), the PI manager's list of requests, and for each thread the call it
is in.  `dmaWrite` is the same code as `dmaRead`, so one action stands for both.
Game threads are switched between at OS calls only: testing the flag, setting it
and starting the transfer are one step, waiting for the message another.
`arrived` records whose data is there, for the property.

`FileExec` composes `Dma`, `Overlay` and the fexec functions.  `exec` is the call
stack of the thread that loads (an overlay's first function may load another
overlay); a call goes from reading the list of its block (`OpensBlock`,
`InfoRead`), over finding the file and the address (`Searches`) and reading and
copying the file (`FileRead`), to calling its first function (`EntryReturns`).
`ram` says whose page is in each module page, `funcs` whose functions
`recomp_load_overlays` has put at the first one, `filled` which modules' files
were loaded since they were mapped.  The game's file functions stand for one
read each; how a file is decoded and relocated is left out.

The code does not defend itself against several uses, which callers must avoid;
each is a named guard, so that one can read off what the properties rest on.
`Alone` and `WithoutFlag` (`Dma`): a transfer is only started while no other thread
is in a DMA function, and no read begins while one is under way that was only
started; a thread that waits for the flag tests nothing else.  `Tolerated`
(`FileExec`): a file is not loaded for an address at which another module is mapped,
`fexecLoad` is not called while modules have pages, nor from an overlay's first
function, and `fexecInit` is called once.  `ModuleCall`: modules are mapped and
unmapped by the loading thread, between two loads, while no transfer is under way.
Modules may be mapped and loaded after `fexecLoad`, over the overlay it loaded; no
property says that the fixed overlay stays, because nothing in the code keeps it
there (`required_patches.c:157`).

A load ends the program in three cases (`Searches`): the list of the current block
is too long for its buffer (`TooLong`), the overlay is not in it, or nothing is
mapped at its address.  `RefusedRightly` states when that is so.

### DataApi

`entries` are the maps, `heap` the blocks, `call[t]` where thread `t` is in a
call.  Every lock acquisition of the code is a step: the table's
(`FindsMap`, `ErasesMap`), the map's (`LooksUp`, `Inserts`, `Erases`,
`erase_first`, `FindsEmpty`), the heap's (`Allocates`, `Frees`), and the zeroing
between two of them.  A handle that finds no map ends the program (`exited`).
Handles are given out once, which is what `KeysFresh` says of the slot map behind
them.

`Spec` is the code: any thread calls anything with any handle that was given out, at
any time.  Only the use of a map that another thread has destroyed meanwhile, which
is undefined, is not followed (`WithMap`).  What the critical sections do not
protect (hazards at `recomp_data_api.cpp:117`, `:334`, `:384`) is left to callers,
and `CarefulSpec` is `Spec` with callers that see to it: a map is destroyed, and a
key erased, by a thread that is alone with it, and a key is created by one thread at
a time (`Excludes`).  The properties of `data_api` and the theorems are those of
careful callers.

### AudioQueue

A frame of sound is the time it is heard at, counted from the end of the input so
far in units of 1 / (2 * `OutputRate`) of an input frame; so positions
stay bounded and whether two chunks join is a statement about two numbers, `edge`
(the end of what was queued) and `Start` (the beginning of what is queued next).
`duplicated` holds the frames kept for the next chunk, `queue` the bytes in SDL's
queue.  `SDL_ConvertAudio` and the device are external: a conversion makes as many
frames as the ratio of the rates says, rounded down, and the device takes some
frames at a time.  The shift that gives the ratio of skipping is that of a 32-bit
`int`: by the factor modulo 32, as on the machines the program is built for
(larger shifts are undefined).  Volume, the exchange of channels that undoes the byte order,
and the values of samples are left out.  A chunk of four frames or fewer fails an
assertion in debug builds; the model goes on, as release builds do.

### ObjectExtension

The state of `ExtensionContext` for each type, and the memory that objects'
blocks are allocated from.  The slot map is used by what its keys promise.  A
step is an exported function, which changes state under one lock; the
registrations take none, and mods make them one after the other while the game
starts.  `late` is a history variable: generic data was registered after the first
object.  Sizes are assumed not to add up to 2^32.

### MC modules

`MCProcess` adds symmetry, times and callers that link no process below itself or
below its own child; `MCProcessTree` a history variable, `strays`: the processes
whose `relative` is not the parent they were linked below, because that one was
freed, or that were linked around in a circle (it restricts no step);
`MCProcessPass` two history variables that record which processes a pass has met;
`MCProcessLive` bounds the calls that can put progress off for ever; `MCSlotMap` a
history variable that counts how many elements were erased since each slot's was;
`MCFileExec` gives the modules addresses and file blocks; `MCObjectExtension` adds
symmetry.  `AudioQueue` and `DataApi` are run as they are.

## 4. Runs

| run | configuration | question | distinct states |
|-----|---------------|----------|-----------------|
| `process_all` | `MCProcess` | all calls, 2 processes: no check fires, list and cursor, slots, kills, and the lifecycle is implemented | 1,040,077 |
| `tree` | `MCProcessTree` | 3 processes, parents and children: sibling lists, when a kill ends, and which children a parent loses | 368,772 |
| `pass` | `MCProcessPass` | 4 processes: one turn each per pass | 37,481 |
| `live` | `MCProcessLive` | are the killed reaped, do sleeps and passes end | 80,246 |
| `freed` | `MCProcessFreed` | is freed memory left alone (it is not) | violated |
| `slotmap32` | `MCSlotMap` | keys, queue, pages and counts through every version | 118,284 |
| `slotmap32_held` | `MCSlotMapHeld` | is an element found until it is erased (not at the last version) | violated |
| `file` | `MCFileExec` | do an overlay's addresses lead to its own code, are loads refused exactly when they must be, does each waiter get its own completion | 726,466 |
| `objects` | `MCObjectExtension` | do extensions stay inside their object and apart, are blocks unshared | 641,829 |
| `data_api` | `MCDataApi` | careful callers: do blocks have one owner, and calls end, under two threads | 447,339 |
| `audio` | `MCAudioQueue` | do chunks join, does the queue stay short, is the game told the truth | 458,838 |
| `audio_channels` | `MCAudioQueueChannels` | do chunks begin with the first channel (not at every rate) | violated |

The runtime under an arbitrary caller is not run: `RTInvariant` proves it, and
`process_all` exercises it under the caller it has.

Bounds, and why they are enough.

Processes: two show every pair of a running process and a target, with either or
both recycled; three are needed for a parent with two children (an older and a
newer sibling) and for a stale pointer to a recycled third; four for a list with
both a process before and one after the cursor while another ends and one is
created.  Two priorities give insertion before, between and behind.  Times 2 and
-1 against a tick of 1 give a sleep of two passes and a pause; a wakeup makes 0.
No state is cut off: all state spaces are finite without a constraint, except
that `MCProcessLive` counts creations, sleeps and wakeups up to `MaxCalls` = 3,
which is enough to create two processes and put one to sleep, or to sleep, wake
and sleep again.  Processes that are created, end and come back at the same
addresses for ever are in all the other runs.

Slot map: pages of two slots and up to four slots, so that one page can be given
back while another is used; a queue that is used above one free key; versions
to 4 with two version bits, the proportion of the program's 0x400 and ten bits,
so that every slot goes through its last version; two tags.

Overlays: nine pages, so that runs aligned to four have a remainder and the table
fragments; sizes of one page and of five, so that a module has entries of either
kind and of both, and two modules of five fill the table but cannot both be placed:
pages run out.  Four modules for two addresses, as near to each other as overlays are
ever linked: one of them is unknown to the switch of `fexecLoadAddress`, one is not
listed in its block, and one is in a block whose list is too long.  Four TLB entries,
two of which overlays can use, while a module of five pages needs two and a single
page one: entries run out before and during a mapping.  Two threads, one that loads
and one that only uses the DMA functions; loads nest two deep.

Data API: two threads, maps and keys, and as many blocks as there are entries; a
handle is used before, during and after its map is there, and a block is given
out again while the erase that freed it is under way.

Audio: output at 480 and input at 480, 320 and 200 (numbers a hundredth of the
program's, with ratios of 1, 1.5 and 2.4), chunks of 3 frames, fewer than the four
that are kept, and of 60, and a device that takes 25 at a time: the queue passes
several tenths of a second, at which every ratio of skipping that the invariant
allows occurs.  At these rates the shift stays in range.  `audio_channels` has the
program's own numbers.

Objects: two types, subtypes, keys and blocks, two extensions and two creations
per type: a block passes from one type to another, extensions of one class
follow each other and the two classes meet.  17 bytes round up to 32.

Fairness (`live`).  `SF(Scheduler)`: the game's main loop comes to `CallProcess`
every frame and nothing preempts the scheduler.  `SF(Leaves)`: a process that
has control gets to a switch or an end, however many calls it makes on the way
(code between two switches is finite).  `WF` of the kill sweep: it is a loop.
Nothing is assumed of the calls themselves.  In `data_api`, `WF(Step(t))`: a call
that was begun goes on, as the locks it takes are held for one operation.  Without the bound on creations a
pass need not end: two processes that end and each create the other behind the
cursor keep one pass going for ever.  The code has no guard against this; it is
listed among the hazards.

What the properties leave open, because the code does:

- A process that is killed while it runs may still call `WatchChildProcess`, which
  overwrites `DEAD` (`KillSticks` and `KilledIsReaped` name the exception).
- A destructor that sleeps in a killed process is dropped at the next visit and
  `EndProcess` starts again, destructor included, every frame: the process is never
  freed (`process.c:172`, `:376`).  `KilledIsReaped` names this exception, too;
  destructors that sleep are in `live` and `process_all`.
- `WakeupProcess` on a sleeper sets its time to zero without waking it, and a timer of
  zero is never woken by the pass (`TimedSleepWakes` speaks of positive times only).
- A parent that kills its children and goes on forgets them; when the newest of them
  ends, its unlink (`process.c:279`) sets the parent's pointer to the next older of
  the forgotten ones, and children linked meanwhile are lost to kills and watches.
  `ChildrenKept` names this exception (`NewestForgotten`); its cases include a
  process that got the address of a freed parent and with it the parent's children.
- A kill may recurse for ever.  `r`, the older, and `n` are killed children of a
  process that is freed before them; a new process gets its address and is linked
  below `r`; `n` ends, and its unlink makes `r` the new process's child, which is a
  child of `r`.  `tree` reaches this circle, and takes the kill that does not end in
  it.  `KillTerminates` says which processes every endless kill must come to:
  children that a freed parent has left behind (or that were linked in a circle by
  their callers).
- Generic extensions that are registered after objects exist: `can_register`, which
  the registration of others insists on (`recomp_extension_api.cpp:84`), is not looked
  at (`:106`), and the data of objects that exist is then found where their blocks are
  too small for it.  `DataInsideUnlessLate` names the exception.
- Two threads that create one key of a map: `u32_memory_hashmap_create` checks for the
  key "to prevent inserting it twice" and inserts it under two separate locks
  (`recomp_data_api.cpp:334`, `:349`); both find it missing, and the first one's block
  is lost.  `CarefulSpec` leaves this out, and what a thread does with a map that
  another one has destroyed.
- The audio queue after a drop of the frequency.  What keeps it short is a shift by the
  tenths of a second queued, which `main.cpp:267` computes at the frequency the game
  has set now, whatever was set when the sound was queued.  When it is 32 or more (a
  second queued at 48000 Hz, then `set_frequency(15000)`), the ratio is 1 again, and
  chunks are queued whole when the queue is longest.  The rates of `audio` are closer
  to each other; `ShiftsFit` is the hypothesis of the theorem.
- What becomes of the overlay at `fexecLoad`'s address.

Finding (`freed`).  `KillChildProcess` leaves the children's `relative` alone.
If the parent ends first, its struct is freed with its heap, and the child's
`EndProcess` then writes `relative->oldest_child` (`process.c:278`) into freed
memory or into the process that took the address.

Finding (`slotmap32_held`).  A slot lives up to `kMaxVersion` = 0x400, but a
32-bit key stores ten bits of version (`slot_map.h:236`, `:249`): the key of the
element inserted at that version says 0, so it can neither be found nor erased.
With 64-bit keys, which the program does not use, the last version fits and the
opposite happens: an element erased at the last version keeps that version, and
`has_key` and `get`, which do not look at the tombstone, still find it.

Finding (`audio_channels`).  `main.cpp:269` skips half of the discarded frames'
samples; when their number is odd (5 of them at 32006 Hz on a 48000 Hz device)
the chunk begins with a sample of the second channel, and its channels are
exchanged.

What the code leaves to callers and no run refutes, because no document promises
otherwise or one call shows it, is under the hazards: the first address after a
mapping is translated (`tlb.h:61`); `fexecLoad`'s address is the first module page; the
slot maps of the data API go on after a missing key (`recomp_data_api.cpp:516`,
`:534`, `:551`) and lose their blocks' addresses (`:631`, `:667`).

## 5. Proofs

Eight modules hold the theorems; each says of its component, for every value of the
constants, what a run shows on a small instance.  Where an invariant needed a
strengthening, it was checked with TLC before it was proved.

### Processes: `Process_proofs`

`RTInvariant`, `RTTerminated`: the runtime's
invariants and that a terminated slot never runs, from the type and the
agreement of slot state, coroutine and current slot.

`ProcessInvariant`: in every reachable state the types,
`NoFatal`, `ControlOK`, `CursorLive`, `SlotsMatchProcesses` and `ListOK`, for any
set of addresses, priorities and times.  The inductive invariant `ProcInv` is
their conjunction with the runtime's; no conjunct is inductive without the
others.  The resume that `NoFatal` is about reads the slot that
`SlotsMatchProcesses` describes, at the cursor that `CursorLive` keeps valid,
which moves along the list of `ListOK`, and what is on the list depends on the
heap that `ControlOK` says is pending.  `ListOK` contains `NoCycle`: the local
link conditions alone would also hold of a list with a detached ring, and
inserting and removing would preserve them.  The argument has three kinds of
step: those that change neither list nor control (`Quiet`: all tree operations,
sleeping, waking, killing), insertions (`Inserted`), and the removal at a
termination; the module's first part shows field by field what the operators of
each kind change.

`NothingLost`: following `next` from `top_process` reaches
every listed process, from `ListOK` (`NoCycle` gives any unreached set a first
element, which would have to be the head), and `process_count` counts them
modulo 2^16.

### Kills, lifecycle and passes: `ProcessLife_proofs`

`KillsAreFinal`: a process marked dead stays so until it is freed, but for its own
`WatchChildProcess`.  Every step either marks more processes dead and changes no
other mode of a dead one (`MoreDead`), or is a visit of the scheduler, which
`ProcInv` shows to be to a process in the mode it tests, or ends with the process
freed.

`LifecycleImplemented`: `Process` implements `ProcessLifecycle`.  Each action is
mapped to one of the abstract actions or to a stutter.  `LifeInv` adds to `ProcInv`
what the mapping needs of `cont` (`LifeMore`): a killed process that is switched to
has been dropped where it was parked and will run its end, one that has not run yet
will run its body, and a heap is pending only for a coroutine that has ended.

`OneTurnForEach`: a pass of `CallProcess` comes to no process twice and, when it
ends, to each that was on the list all along.  `OneTurnEach` speaks of the end of
a pass only, so `PassInv` adds what holds in the middle of one (`PassMore`): what is
still ahead of the cursor is a suffix of the list (`Suffix`), closed under `next`,
that no process met so far belongs to, and everything that has to be met is in it
or was met.  While a process runs there are two such suffixes, one from its own
`next` and one from the `next_proc` saved before the switch, because which of them
the cursor goes on from depends on how the process comes back.

### Parents and children: `ProcessTree_proofs`

`SiblingsStayValid`: sibling pointers lead to live processes of the same parent and
come back.  `TreeInv` is `ProcInv` with `Families`: siblings point to each other
(`Siblings`), and any set of them has an oldest and a newest (`OlderEnds`,
`NewerEnds`); as for the list, the local conditions would hold of a detached ring as
well.  It also needs `Detached`: a process that runs its destructor, or is about to
be freed, has no parent, or freeing it would leave a sibling pointer behind.  This is
what the guard `MayLink` is for.  Nothing is assumed of addresses or of who is linked
below whom.

`RecursionEnds`: a kill that comes to no stray ends, for callers who may link
anything below anything and an allocator that may choose any address.  `StrayInv` adds
to `TreeInv` that the parents of the others hold (`ParentsHold`): they are live, and
any set of processes without strays has one that is no parent within it.  That a
circle of child and sibling pointers is one of parents then follows from the order of
the siblings (`FamiliesEnd`).

`ParentsKeepChildren`: as long as a child is attached to the same parent and not
killed, no step takes it out of the parent's reach but the one that `NewestForgotten`
names.  Every change of the tree is a kill, which only takes pointers away from
parents whose children it kills, a link, which adds one child, or an unlink, which
leaves out one (`KillKeepsChildren`, `LinkKeepsChildren`, `UnlinkKeepsChildren`);
when the one left out is its family's newest and its parent does not reach it, the
exception applies.

### Slot map: `SlotMap_proofs`

`StructureHolds`, `KeysAreFresh`, `ErasedKeysFindNothing`, `HeldKeysFind`,
`HeldKeysFindAlways`, for any page size, threshold, limits and
tags.  `SMInv` is the types with `FreeOK`, `PagesOK` and `CountsOK`; each needs
the others, as a queued key must refer to a page that was not given back, and the
page counts the slots that may still be queued.  For the keys it is strengthened
by `KeysOK`, which relates every key handed out since the reset to the version
of its slot: a new key is new because versions only grow, by more than any key
handed out before.  `HeldKeysFindAlways` and `ErasedKeysFindNothing` have the two
relations of version limit and width as their hypotheses.

`ReuseIsDelayed`: an erased slot is used again only after `MinFree` other erasures.
`ReuseDelayed` speaks of the head of the queue when it is taken; `Waited` says the
same, with a smaller number, of every place the head came through: as many elements
were erased since as keys stand behind it.

### Pages, memory and files: `FileExec_proofs`

`PagesInvariant`, `PagesKept` (of `Overlay`): `PagesInv` is the types with
`EntriesOK` (entries cover each page of a module once, groups of four are
aligned) and `InStep` (physical pages follow each other as virtual ones do), for
any table and sizes.  The search returns runs that are free, which is all the
other modules' entries need.

`LoadsKeepPages`: the same for the composed system.  Of the
page table, a step of `FileExec` is one of `Overlay`'s or a refused load, which
only sets `stopped`; so `PagesInv` is inductive there as well.

`CompletionsAreOwn`, for any threads, overlays and files.
`DmaInv` says that at most one transfer is under way, that it is either asked for
or complete, and that the queues are empty without one; it is needed because
`OwnCompletion` speaks of waiting threads only, and a thread that has started a
transfer waits later.  Every step of the composed system is a step of one thread
of `Dma`, a completion, or leaves its variables alone (`StepsOfDma`).

`MemoryImplemented`: loading keeps the promise of `OverlayMemory`.  `TlbInv` says
that the pages of a module are one run, in the order of its addresses (`RunsOK`),
that no two loaded modules are linked for one address (`Apart`), that a TLB entry
in use maps an entry of the page table of the module it is booked for (`Mine`), that
none of these has two (`Once`) and, unless the program stopped, that each of a
mapped module has one (`Whole`).
From these, the first entry that `Tlb`'s search accepts for an address is the
module's own, and the translated address is that of the page: the arithmetic of
masks and page sizes is proved for both sizes of entry, not enumerated.

`OverlaysFindTheirCode`, `RefusalsAreRight`: with files, `FileInv` adds `MainInv`:
which calls of main can be within which (`Stack`), that the block of the innermost is
current while its file is looked for and read (`BlocksOK`), that no module has pages
while the overlay at the fixed address is loaded (`FixedOK`), and that filled pages
hold their module's file (`RamOK`).  `DmaInv` is needed for the last two: the file has
arrived when the wait for it ends.

### Objects, maps and audio

`ExtensionsInside`, `BlocksOwned` (`ObjectExtension_proofs`), for any types, sizes and
callers.  `ExtInv` strengthens `BlocksUnshared` by the layout of each class of
extensions (`LayoutOK`: they end where the next begins, below the total), by
`ClosedOK` (while specific data can be registered there are no objects) and by
`BlocksFit` (a block is as large as what is registered).

`BlocksHaveOneOwner`, `GetsAreWhole` (`DataApi_proofs`), for any threads and however
the calls of careful callers interleave (`CarefulSpec`).  `CallInv` says where a call
can be and what it has by then, and that the map and the entry it found are still as
they were (`Stays`), which is where `Apart` is needed; `OwnersOK`, that every block is
answered for by one entry or one call, and no free block by any.  A block between
`alloc` and `insert`, or between `destroy`'s walk and its `free`, is in nobody's
entry: `Holds` names the call that has it.

`JoinsAreClose`, `NeverToldTooMany`, `QueueStaysShort` (`AudioQueue_proofs`), for any
rates, chunks and device.  For the joins the
invariant says what `duplicated` holds (the last four frames, whatever the chunks'
lengths), that `discarded_output_frames` is the one for the current rate, and that
`edge` is within a frame of where the kept frames' first half ends; the rest is
the arithmetic of the rounded divisions.  What the game is told of the queue is at
most what is there.  The queue is short for *some* chunk and rates it may have been
queued at (`Short`): a chunk of the slowest rate may be heard at the fastest, and a
full queue lets through less, as the ratio doubles with every tenth of a second, as
long as the shift by which it doubles stays in range (`ShiftInRange`).

### Assumptions

Those the modules declare.

- Processes: the two entry functions are distinct, priorities are naturals, times
  integers, NULL is no process.
- Slot maps: sizes and limits are naturals, tag 0 is a tag.
- Pages: the table and modules are not empty; modules are linked for the same
  address or farther apart than the table is long (`VirtualPageAssumption`), and
  zerojump, the modules' addresses and the table's memory follow each other below
  KSEG0 (`AddressAssumption`: 0x10000000, from 0x42000000 on, and 0x250000 to
  0x2D0000).  Block -1 is no file's block (`BlocksAssumption` of `FileExec`): the
  blocks are ROM addresses.
- `DataApi`: None is no map, key or block; a block can always be allocated
  (`BlocksAssumption`: there are as many as entries), as the code takes for granted.
- Objects: sizes are naturals, NULL is no block.
- Audio: rates, chunks and the device's frames are positive and there is a chunk.
  `QueueStaysShort` has two hypotheses of its own.  `ChunksFit`: the bytes of a
  converted chunk fit the `int` in which SDL counts them.  `ShiftsFit`: the rates are
  so close to each other that a queue as short as the bound counts as less than 32
  tenths of a second at each, as with chunks of a sixtieth of a second and rates from
  24000 to 48000.  Nothing in the code checks this.

What callers must not do (`MayLink`, `Alone`, `WithoutFlag`, `Tolerated`, and
`Excludes` in `CarefulSpec`) are guards of the specifications, as above; `ChunksFit`,
`ShiftsFit` and the version limits are the only hypotheses of theorems.

### Only model-checked

Liveness: `KilledIsReaped`, `TimedSleepWakes` and `PassesEnd` (`live`), `CallsEnd`
(`data_api`); fairness and ENABLED are outside the prover's reach.  And the three
runs that expect a violation, whose counterexamples are TLC's.  The types of the slot
map, of objects and of the page table are not checked by a run: they are conjuncts
of the proved invariants.

## 6. Not modelled

- The launcher animation: interpolation of a few decorations in floating point, on
  one thread; what it computes is layout.
- Configuration and accessors, registration, the theme: tables, and functions that
  read or set one option of a library.
- ROM decompression: a one-shot copy whose algorithm is a library's.
- `reloc.c`: one pass over a generated table.  `decode` is under `#if 0`.
- The heaps processes allocate from, stack checks and magic numbers (`process.c`).
- Of the data API, maps and sets of values, which allocate nothing, and the slot
  maps of values and blocks: what is wrong with these shows in a single call.
- Iteration, swap and move of slot maps; `func_80008F90`, four assignments.

Most of the lines of the repository's implementation files are not its own logic:
the relocation tables (`relocs.h`, 9111 lines) and the audio microcode
(`n_aspMain.cpp`, 2272) are generated, `minicoro.h` (2033) and `promptfont.h` (872)
are vendored, and `main.cpp`, apart from the audio functions, starts libraries.
What a model can say something about is a few thousand lines, and of the files
that hold it, the modules above cover the functions that change shared state.
