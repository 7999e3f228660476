------------------------------- MODULE SlotMap -------------------------------
(***************************************************************************)
(* dod::slot_map (lib/SlotMap/slot_map.h): the container behind every      *)
(* handle the host hands to mods.  Elements live in numbered slots, pages  *)
(* of PageSize of them; a key is a slot's index and its version, which     *)
(* grows when the slot's element is erased.  Erased slots queue for reuse, *)
(* and are only reused while more than MinFree of them wait.  A slot that  *)
(* reaches MaxVersion is never used again, and a page of such slots is     *)
(* given back.                                                             *)
(*                                                                         *)
(* A key stores its version in a field of VersionMod values.  The program  *)
(* uses slot_map32, where kMaxVersion is 0x400 and the field has 10 bits:  *)
(* MaxVersion = VersionMod.  In slot_map64 MaxVersion = VersionMod - 1.    *)
(***************************************************************************)
EXTENDS Integers, Sequences, FiniteSets

CONSTANTS
  PageSize,     (* kPageSize *)
  MinFree,      (* kMinFreeIndices *)
  MaxVersion,   (* kMaxVersion *)
  VersionMod,   (* number of versions a key can tell apart *)
  MaxSlots,     (* slots that are ever used, at most kMaxIndex + 1 *)
  Tags          (* what callers may store in the tag of a key *)

ASSUME PagesAssumption == PageSize \in Nat \ {0} /\ MinFree \in Nat
ASSUME VersionsAssumption ==
  MaxVersion \in Nat \ {0} /\ VersionMod \in Nat \ {0} /\ MaxVersion <= VersionMod
ASSUME SlotsAssumption == MaxSlots \in Nat \ {0}
ASSUME TagsAssumption == Tags \subseteq Nat /\ 0 \in Tags

VARIABLES
  meta,              (* version and marks of each slot *)
  numSlots,          (* slots in use: every page but the last is full *)
  numInactiveSlots,  (* by page *)
  active,            (* pages that have memory *)
  freeIndices,       (* queue of keys to reuse *)
  numItems,
  maxValidIndex,
  clearing,          (* clear: index its loop is at, or Idle *)
  handed,            (* keys returned since the last reset *)
  owner              (* key under which a slot's element was inserted *)

pageVars == <<numSlots, numInactiveSlots, active, maxValidIndex>>
vars == <<meta, pageVars, freeIndices, numItems, clearing, handed, owner>>

Index == 0 .. MaxSlots - 1
PageOf(i) == i \div PageSize
Pages == 0 .. PageOf(MaxSlots - 1)
InPage(p) == {i \in Index : PageOf(i) = p}
kMinVersion == 1
Meta == [version : 1 .. MaxVersion, tombstone : BOOLEAN, inactive : BOOLEAN]
Key == [version : 0 .. VersionMod - 1, index : Index, tag : Tags]
NoKey == [version |-> 0, index |-> -1, tag |-> 0]
Idle == -1

NewMeta == [version |-> kMinVersion, tombstone |-> FALSE, inactive |-> FALSE]

(* key::make.  The version is cut to its field. *)
make(version, i) == [version |-> version % VersionMod, index |-> i, tag |-> 0]

(* Faulty variant. *)
updatedKeepsTag(k, version) == [k EXCEPT !.version = version % VersionMod]

(* Faulty variant. *)
updatedKeepsVersion(k, version) == [k EXCEPT !.tag = 0]

clearTagAndUpdateVersion(k, version) ==
  [k EXCEPT !.version = version % VersionMod, !.tag = 0]

(* getImpl and has_key: neither looks at the tombstone. *)
has_key(k) ==
  /\ k.index <= maxValidIndex
  /\ active[PageOf(k.index)]
  /\ meta[k.index].version = k.version

(* What erase looks for. *)
erasable(k) == has_key(k) /\ ~ meta[k.index].tombstone /\ k.version # 0
-----------------------------------------------------------------------------
Init ==
  /\ meta = [i \in Index |-> NewMeta]
  /\ numSlots = 0
  /\ numInactiveSlots = [p \in Pages |-> 0]
  /\ active = [p \in Pages |-> FALSE]
  /\ freeIndices = <<>>
  /\ numItems = 0
  /\ maxValidIndex = 0
  /\ clearing = Idle
  /\ handed = {}
  /\ owner = [i \in Index |-> NoKey]

(* Faulty variant. *)
ReusesAtOnce == Len(freeIndices) > 0

Reuses == Len(freeIndices) > MinFree

Returns(k) ==
  /\ numItems' = numItems + 1
  /\ handed' = handed \cup {k}
  /\ owner' = [owner EXCEPT ![k.index] = k]

(* emplace of a recycled slot. *)
emplaceRecycled ==
  /\ clearing = Idle
  /\ Reuses
  /\ freeIndices' = Tail(freeIndices)
  /\ meta' = [meta EXCEPT ![Head(freeIndices).index].tombstone = FALSE]
  /\ Returns(Head(freeIndices))
  /\ UNCHANGED <<pageVars, clearing>>

(* emplace of a new slot: appendElement takes a new page when the last is full. *)
emplaceAppended ==
  LET i == numSlots IN
  /\ clearing = Idle
  /\ ~ Reuses
  /\ i < MaxSlots
  /\ numSlots' = i + 1
  /\ IF i % PageSize = 0
     THEN /\ active' = [active EXCEPT ![PageOf(i)] = TRUE]
          /\ numInactiveSlots' = [numInactiveSlots EXCEPT ![PageOf(i)] = 0]
     ELSE UNCHANGED <<active, numInactiveSlots>>
  /\ meta' = [meta EXCEPT ![i] = NewMeta]
  /\ maxValidIndex' = IF i > maxValidIndex THEN i ELSE maxValidIndex
  /\ Returns(make(kMinVersion, i))
  /\ UNCHANGED <<freeIndices, clearing>>

(* The version would overflow: the slot is given up. *)
Spent(i) == meta[i].version = MaxVersion

(* Faulty variant. *)
PageSpentEarly(p) == numInactiveSlots[p] + 2 >= PageSize

PageSpent(p) == numInactiveSlots[p] + 1 = PageSize

(* Faulty variant. *)
ErasedSameVersion(i) == [meta[i] EXCEPT !.tombstone = TRUE]

Erased(i) ==
  IF Spent(i) THEN [meta[i] EXCEPT !.tombstone = TRUE, !.inactive = TRUE]
  ELSE [meta[i] EXCEPT !.tombstone = TRUE, !.version = @ + 1]

(* eraseImpl, when there is an element. *)
eraseImpl(k) ==
  LET i == k.index  p == PageOf(k.index) IN
  /\ meta' = [meta EXCEPT ![i] = Erased(i)]
  /\ numItems' = numItems - 1
  /\ owner' = [owner EXCEPT ![i] = NoKey]
  /\ IF Spent(i)
     THEN /\ numInactiveSlots' = [numInactiveSlots EXCEPT ![p] = @ + 1]
          /\ active' = [active EXCEPT ![p] = @ /\ ~ PageSpent(p)]
          /\ UNCHANGED freeIndices
     ELSE /\ freeIndices' = Append(freeIndices,
                clearTagAndUpdateVersion(k, meta[i].version + 1))
          /\ UNCHANGED <<numInactiveSlots, active>>
  /\ UNCHANGED <<numSlots, maxValidIndex, handed>>

(* A caller may have set the tag of a key it was given. *)
erase(k) ==
  /\ clearing = Idle
  /\ erasable(k)
  /\ eraseImpl(k)
  /\ UNCHANGED clearing

(* clear erases every element, slot by slot. *)
clear ==
  /\ clearing = Idle
  /\ clearing' = 0
  /\ UNCHANGED <<meta, pageVars, freeIndices, numItems, handed, owner>>

NextPage(i) == (PageOf(i) + 1) * PageSize

ClearSkips ==
  /\ clearing \in 0 .. numSlots - 1
  /\ \/ /\ ~ active[PageOf(clearing)]
        /\ clearing' = NextPage(clearing)
     \/ /\ active[PageOf(clearing)]
        /\ meta[clearing].tombstone
        /\ clearing' = clearing + 1
  /\ UNCHANGED <<meta, pageVars, freeIndices, numItems, handed, owner>>

ClearErases ==
  /\ clearing \in 0 .. numSlots - 1
  /\ active[PageOf(clearing)]
  /\ ~ meta[clearing].tombstone
  /\ eraseImpl(make(kMinVersion, clearing))
  /\ clearing' = IF Spent(clearing) /\ PageSpent(PageOf(clearing))
                 THEN NextPage(clearing) ELSE clearing + 1

ClearReturns ==
  /\ clearing >= numSlots
  /\ clearing' = Idle
  /\ UNCHANGED <<meta, pageVars, freeIndices, numItems, handed, owner>>

(* Faulty variant. *)
resetKeepsCount ==
  /\ clearing = Idle
  /\ meta' = [i \in Index |-> NewMeta]
  /\ numSlots' = 0
  /\ numInactiveSlots' = [p \in Pages |-> 0]
  /\ active' = [p \in Pages |-> FALSE]
  /\ freeIndices' = <<>>
  /\ maxValidIndex' = 0
  /\ handed' = {}
  /\ owner' = [i \in Index |-> NoKey]
  /\ UNCHANGED <<numItems, clearing>>

(* "You must guarantee that no handles are in use": handed starts over. *)
reset ==
  /\ clearing = Idle
  /\ meta' = [i \in Index |-> NewMeta]
  /\ numSlots' = 0
  /\ numInactiveSlots' = [p \in Pages |-> 0]
  /\ active' = [p \in Pages |-> FALSE]
  /\ freeIndices' = <<>>
  /\ numItems' = 0
  /\ maxValidIndex' = 0
  /\ handed' = {}
  /\ owner' = [i \in Index |-> NoKey]
  /\ UNCHANGED clearing

(* A copy takes the place of the original: all but the queue is copied. *)
copyFrom ==
  /\ clearing = Idle
  /\ freeIndices' = <<>>
  /\ UNCHANGED <<meta, pageVars, numItems, clearing, handed, owner>>

Next ==
  \/ emplaceRecycled \/ emplaceAppended
  \/ \E k \in handed, t \in Tags : erase([k EXCEPT !.tag = t])
  \/ clear \/ ClearSkips \/ ClearErases \/ ClearReturns
  \/ reset \/ copyFrom

Spec == Init /\ [][Next]_vars
-----------------------------------------------------------------------------
TypeOK ==
  /\ meta \in [Index -> Meta]
  /\ numSlots \in 0 .. MaxSlots
  /\ numInactiveSlots \in [Pages -> Nat]
  /\ active \in [Pages -> BOOLEAN]
  /\ freeIndices \in Seq(Key)
  /\ numItems \in Nat
  /\ maxValidIndex \in Index
  /\ clearing \in Nat \cup {Idle}
  /\ handed \subseteq Key
  /\ owner \in [Index -> Key \cup {NoKey}]

(* Slots that hold an element. *)
Holding == {i \in 0 .. numSlots - 1 : ~ meta[i].tombstone}

(* Every queued key can be reused as emplace does, without looking: its slot
   exists in a page that has memory, holds nothing, is not spent and has the
   version the key says, no other queued key has the slot, and the tag is clear. *)
FreeOK ==
  /\ \A n \in DOMAIN freeIndices :
       LET k == freeIndices[n] IN
       /\ k.index < numSlots
       /\ active[PageOf(k.index)]
       /\ meta[k.index].tombstone /\ ~ meta[k.index].inactive
       /\ k = make(meta[k.index].version, k.index)
  /\ \A m, n \in DOMAIN freeIndices :
       m # n => freeIndices[m].index # freeIndices[n].index

(* Only spent pages are given back: a page in use has memory exactly as long as
   one of its slots can still be used, whichever of its slots are spent first. *)
PagesOK ==
  \A p \in Pages :
    LET spent == {i \in InPage(p) : i < numSlots /\ meta[i].inactive} IN
    /\ p * PageSize < numSlots => numInactiveSlots[p] = Cardinality(spent)
    /\ active[p] <=> p * PageSize < numSlots /\ Cardinality(spent) # PageSize

(* numItems counts the slots that hold an element, and elements are where they
   were inserted. *)
CountsOK ==
  /\ numItems = Cardinality(Holding)
  /\ \A i \in Index : owner[i] # NoKey <=> i \in Holding
  /\ maxValidIndex = IF numSlots = 0 THEN 0 ELSE numSlots - 1

(* A key is handed out once: "the slot map generates and returns the key ... A
   key is always unique". *)
KeysFresh ==
  [][\A i \in Index :
       owner'[i] # owner[i] /\ owner'[i] # NoKey => owner'[i] \notin handed]_vars

(* A key whose element was erased finds nothing, whatever took its slot. *)
ErasedGone == \A k \in handed : has_key(k) => owner[k.index] = k

(* The key of an element that was not erased finds it. *)
HeldFound == \A i \in Index : owner[i] # NoKey => has_key(owner[i])

(* The same as long as the slot's version fits the key. *)
HeldFoundInWidth ==
  \A i \in Index :
    owner[i] # NoKey /\ meta[i].version < VersionMod => has_key(owner[i])
=============================================================================
