--------------------------------- MODULE Tlb ---------------------------------
(***************************************************************************)
(* The host's TLB (src/game/tlb.cpp, include/tlb.h).  Entries are searched *)
(* in order.  An entry maps one page or a pair of pages of its size.       *)
(* Addresses are numbers of units; a unit is any divisor of 4 KiB, and     *)
(* everything from KSEG0 on is RDRAM as the program sees it.               *)
(***************************************************************************)
EXTENDS Integers

CONSTANTS
  TLB_ENTRY_COUNT,
  Unmapped,          (* the address 0xFFFFFFFF, above all others *)
  KSEG0              (* 0x80000000 *)

ASSUME TlbAssumption ==
  TLB_ENTRY_COUNT \in Nat /\ KSEG0 \in Nat /\ Unmapped \in Nat /\ Unmapped > KSEG0

VARIABLE gTLBTable

Indices == 0 .. TLB_ENTRY_COUNT - 1
ZeroEntry == [pagesize |-> 0, vaddr |-> 0, evenpaddr |-> 0, oddpaddr |-> 0]

TlbInit == gTLBTable = [t \in Indices |-> ZeroEntry]

Mapping(pagesize, vaddr, evenpaddr, oddpaddr) ==
  [pagesize |-> pagesize, vaddr |-> vaddr, evenpaddr |-> evenpaddr, oddpaddr |-> oddpaddr]

osMapTLB(t, pagesize, vaddr, evenpaddr, oddpaddr) ==
  gTLBTable' = [gTLBTable EXCEPT ![t] = Mapping(pagesize, vaddr, evenpaddr, oddpaddr)]

osUnmapTLB(indices) ==
  gTLBTable' = [t \in Indices |-> IF t \in indices THEN ZeroEntry ELSE gTLBTable[t]]

osUnmapTLBAll == osUnmapTLB(Indices)

tlb_count(e) ==
  (IF e.evenpaddr # Unmapped THEN 1 ELSE 0) + (IF e.oddpaddr # Unmapped THEN 1 ELSE 0)

Lower(e) == IF e.oddpaddr < e.evenpaddr THEN e.oddpaddr ELSE e.evenpaddr
Higher(e) == IF e.oddpaddr > e.evenpaddr THEN e.oddpaddr ELSE e.evenpaddr

(* Faulty variant: one page only. *)
MatchesOnce(e, addr) ==
  tlb_count(e) > 0 /\ addr >= e.vaddr /\ addr <= e.vaddr + e.pagesize

Matches(e, addr) ==
  /\ tlb_count(e) > 0
  /\ addr >= e.vaddr
  /\ addr <= e.vaddr + tlb_count(e) * e.pagesize

(* Faulty variant. *)
OffsetKept(e, addr) ==
  LET offset == addr - e.vaddr IN
  KSEG0 + offset + (IF offset > e.pagesize THEN Higher(e) ELSE Lower(e))

Translation(e, addr) ==
  LET offset == addr - e.vaddr IN
  KSEG0 + (IF offset > e.pagesize THEN Higher(e) + offset - e.pagesize
           ELSE Lower(e) + offset)

(* Entries that would answer; the first one does. *)
Hits(addr) == {t \in Indices : Matches(gTLBTable[t], addr)}

_tlb_lookup(addr) ==
  LET hits == Hits(addr) IN
  IF addr >= KSEG0 \/ hits = {} THEN addr
  ELSE Translation(gTLBTable[CHOOSE t \in hits : \A u \in hits : t <= u], addr)
=============================================================================
