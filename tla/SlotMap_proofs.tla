---------------------------- MODULE SlotMap_proofs ----------------------------
(***************************************************************************)
(* Proofs about the slot map, for any page size, threshold, version limit  *)
(* and number of slots: keys are handed out once, the queue of free keys   *)
(* is always fit for use, which keys find their element, and how long an   *)
(* erased slot waits.                                                      *)
(***************************************************************************)
EXTENDS MCSlotMap, FiniteSetTheorems, TLAPS

(* A key returned at version VersionMod stores 0; no other key does. *)
VersionOf(k) == IF k.version = 0 THEN VersionMod ELSE k.version

SpentIn(p) == {i \in InPage(p) : i < numSlots /\ meta[i].inactive}

(* What ties keys to slots.  A key never runs ahead of its slot, and one that is
   level with it is the key of the element there, unless the slot is spent. *)
KeysOK ==
  /\ \A i \in Index : meta[i].inactive => meta[i].tombstone /\ Spent(i)
  /\ \A i \in Index :
       owner[i] # NoKey => owner[i] = make(meta[i].version, i)
  /\ \A k \in handed :
       /\ k.tag = 0 /\ k.index < numSlots
       /\ VersionOf(k) <= meta[k.index].version
       /\ VersionOf(k) = meta[k.index].version =>
            meta[k.index].inactive \/ owner[k.index] = k

SMInv == TypeOK /\ FreeOK /\ PagesOK /\ CountsOK /\ KeysOK

(* Pages and indices. *)
LEMMA PageFacts ==
  ASSUME NEW i \in Index
  PROVE  /\ PageOf(i) \in Pages /\ i \in InPage(PageOf(i))
         /\ PageOf(i) * PageSize <= i /\ i < (PageOf(i) + 1) * PageSize
         /\ i % PageSize = 0 <=> i = PageOf(i) * PageSize
<1>1. PageSize \in Nat /\ PageSize > 0 /\ MaxSlots \in Nat /\ MaxSlots > 0
  BY PagesAssumption, SlotsAssumption
<1> DEFINE d(j) == j \div PageSize
<1>2. ASSUME NEW j \in Nat
      PROVE  /\ d(j) \in Nat /\ j = PageSize * d(j) + (j % PageSize)
             /\ 0 <= j % PageSize /\ j % PageSize < PageSize
  BY <1>1
<1>3. i \in Nat /\ MaxSlots - 1 \in Nat /\ i <= MaxSlots - 1
  BY <1>1 DEF Index
<1>4. d(i) \in Nat /\ i = PageSize * d(i) + (i % PageSize)
      /\ 0 <= i % PageSize /\ i % PageSize < PageSize
  BY <1>2, <1>3
<1>5. d(MaxSlots - 1) \in Nat
      /\ MaxSlots - 1 = PageSize * d(MaxSlots - 1) + ((MaxSlots - 1) % PageSize)
      /\ (MaxSlots - 1) % PageSize < PageSize
  BY <1>2, <1>3
<1> HIDE DEF d
<1>6. d(i) <= d(MaxSlots - 1)
  <2>1. SUFFICES ASSUME d(i) >= d(MaxSlots - 1) + 1 PROVE FALSE
    BY <1>4, <1>5
  <2>2. PageSize * d(i) >= PageSize * (d(MaxSlots - 1) + 1)
    BY <1>1, <1>4, <1>5, <2>1
  <2>3. PageSize * (d(MaxSlots - 1) + 1) = PageSize * d(MaxSlots - 1) + PageSize
    BY <1>1, <1>5
  <2>4. QED
    BY <1>1, <1>3, <1>4, <1>5, <2>2, <2>3
<1>7. PageOf(i) = d(i) /\ PageOf(MaxSlots - 1) = d(MaxSlots - 1)
  BY DEF PageOf, d
<1>8. d(i) * PageSize = PageSize * d(i)
      /\ (d(i) + 1) * PageSize = PageSize * d(i) + PageSize
  BY <1>1, <1>4
<1>9. QED
  BY <1>1, <1>3, <1>4, <1>5, <1>6, <1>7, <1>8 DEF Pages, InPage

(* A page has at most PageSize slots: if one is not in S, S is smaller. *)
LEMMA NotWhole ==
  ASSUME NEW p \in Pages, NEW S \in SUBSET InPage(p), NEW i \in InPage(p), i \notin S
  PROVE  IsFiniteSet(S) /\ Cardinality(S) \in Nat /\ Cardinality(S) < PageSize
<1> DEFINE I == p * PageSize .. p * PageSize + PageSize - 1
<1>1. PageSize \in Nat /\ PageSize > 0 /\ p \in Int
  BY PagesAssumption DEF Pages
<1>2. p * PageSize \in Int /\ (p + 1) * PageSize = p * PageSize + PageSize
  BY <1>1
<1>3. InPage(p) \subseteq I
  <2>1. SUFFICES ASSUME NEW j \in InPage(p) PROVE j \in I
    OBVIOUS
  <2>2. j \in Index /\ PageOf(j) = p /\ j \in Int
    BY SlotsAssumption DEF InPage, Index
  <2>3. p * PageSize <= j /\ j < (p + 1) * PageSize
    BY <2>2, PageFacts
  <2>4. QED
    BY <1>1, <1>2, <2>2, <2>3
<1>4. IsFiniteSet(I) /\ Cardinality(I) = PageSize
  BY <1>1, <1>2, FS_Interval
<1> HIDE DEF I
<1>5. IsFiniteSet(S) /\ Cardinality(S) \in Nat
  BY <1>3, <1>4, FS_Subset, FS_CardinalityType
<1>6. S \cup {i} \subseteq I
  BY <1>3
<1>7. Cardinality(S \cup {i}) = Cardinality(S) + 1
  BY <1>5, FS_AddElement
<1>8. Cardinality(S \cup {i}) <= PageSize
  BY <1>4, <1>6, FS_Subset
<1>9. QED
  BY <1>1, <1>5, <1>7, <1>8

(* A slot in use that is not spent has a page with memory. *)
LEMMA UsableActive ==
  ASSUME TypeOK, PagesOK, NEW i \in Index, i < numSlots, ~ meta[i].inactive
  PROVE  active[PageOf(i)]
<1>1. PageOf(i) \in Pages /\ i \in InPage(PageOf(i)) /\ PageOf(i) * PageSize <= i
  BY PageFacts
<1>2. Cardinality(SpentIn(PageOf(i))) < PageSize
      /\ Cardinality(SpentIn(PageOf(i))) \in Nat
  BY <1>1, NotWhole DEF SpentIn
<1>3. PageOf(i) * PageSize < numSlots
  BY <1>1, PagesAssumption, SlotsAssumption DEF TypeOK, Pages, Index
<1>4. Cardinality(SpentIn(PageOf(i))) # PageSize
  BY <1>2, PagesAssumption
<1>5. QED
  BY <1>1, <1>3, <1>4 DEF PagesOK, SpentIn

LEMMA UsableActivePrime ==
  ASSUME TypeOK', PagesOK', NEW i \in Index, i < numSlots', ~ meta'[i].inactive
  PROVE  active'[PageOf(i)]
<1>1. PageOf(i) \in Pages /\ i \in InPage(PageOf(i)) /\ PageOf(i) * PageSize <= i
  BY PageFacts
<1>2. Cardinality(SpentIn(PageOf(i))') < PageSize
      /\ Cardinality(SpentIn(PageOf(i))') \in Nat
  BY <1>1, NotWhole DEF SpentIn
<1>3. PageOf(i) * PageSize < numSlots'
  BY <1>1, PagesAssumption, SlotsAssumption DEF TypeOK, Pages, Index
<1>4. Cardinality(SpentIn(PageOf(i))') # PageSize
  BY <1>2, PagesAssumption
<1>5. QED
  BY <1>1, <1>3, <1>4 DEF PagesOK, SpentIn

LEMMA MakeKey ==
  ASSUME NEW v \in 1 .. MaxVersion, NEW i \in Index
  PROVE  /\ make(v, i) \in Key /\ make(v, i) # NoKey
         /\ make(v, i).index = i /\ make(v, i).tag = 0
         /\ VersionOf(make(v, i)) = v
<1>1. v \in Nat /\ v >= 1 /\ v <= VersionMod /\ VersionMod \in Nat /\ VersionMod > 0
  BY VersionsAssumption
<1>2. v % VersionMod = IF v = VersionMod THEN 0 ELSE v
  <2>1. CASE v = VersionMod
    <3>1. VersionMod % VersionMod = 0
      BY <1>1
    <3>2. QED
      BY <2>1, <3>1
  <2>2. CASE v # VersionMod
    BY <1>1, <2>2
  <2>3. QED
    BY <2>1, <2>2
<1>3. v % VersionMod \in 0 .. VersionMod - 1
  BY <1>1, <1>2
<1>4. QED
  BY <1>1, <1>2, <1>3, TagsAssumption, SlotsAssumption
     DEF make, Key, NoKey, VersionOf, Index

LEMMA NoKeyIsNone == NoKey \notin Key
BY SlotsAssumption DEF NoKey, Key, Index

LEMMA HoldingFinite ==
  ASSUME TypeOK
  PROVE  IsFiniteSet(Holding) /\ Cardinality(Holding) \in Nat /\ Holding \subseteq Index
<1>1. numSlots \in Nat /\ numSlots <= MaxSlots
  BY SlotsAssumption DEF TypeOK
<1>2. IsFiniteSet(0 .. numSlots - 1)
  BY <1>1, FS_Interval
<1>3. Holding \subseteq 0 .. numSlots - 1
  BY DEF Holding
<1>4. IsFiniteSet(Holding) /\ Cardinality(Holding) \in Nat
  BY <1>2, <1>3, FS_Subset, FS_CardinalityType
<1>5. 0 .. numSlots - 1 \subseteq Index
  BY <1>1, SlotsAssumption DEF Index
<1>6. QED
  BY <1>3, <1>4, <1>5

(* A queued key has not been handed out. *)
LEMMA QueuedFresh ==
  ASSUME SMInv, NEW n \in DOMAIN freeIndices
  PROVE  /\ freeIndices[n] \in Key /\ freeIndices[n].index \in Index
         /\ freeIndices[n].index \notin Holding
         /\ freeIndices[n] \notin handed
<1> DEFINE k == freeIndices[n]
<1>1. k \in Key /\ k.index \in Index
  <2>1. freeIndices \in Seq(Key) /\ n \in 1 .. Len(freeIndices)
    BY DEF SMInv, TypeOK
  <2>2. k \in Key
    BY <2>1
  <2>3. QED
    BY <2>2 DEF Key
<1>2. k.index < numSlots /\ meta[k.index].tombstone /\ ~ meta[k.index].inactive
      /\ k = make(meta[k.index].version, k.index)
  BY DEF SMInv, FreeOK
<1>3. k.index \notin Holding
  BY <1>2 DEF Holding
<1>4. meta[k.index].version \in 1 .. MaxVersion
  BY <1>1 DEF SMInv, TypeOK, Meta
<1>5. VersionOf(k) = meta[k.index].version
  BY <1>1, <1>2, <1>4, MakeKey
<1>6. owner[k.index] = NoKey
  BY <1>1, <1>3 DEF SMInv, CountsOK
<1>7. k \notin handed
  BY <1>1, <1>2, <1>5, <1>6, NoKeyIsNone DEF SMInv, KeysOK
<1>8. QED
  BY <1>1, <1>3, <1>7
-----------------------------------------------------------------------------
(***************************************************************************)
(* One lemma for each way the map changes.                                 *)
(***************************************************************************)
LEMMA RecycledKeeps ==
  ASSUME SMInv, emplaceRecycled
  PROVE  SMInv'
<1> DEFINE k == Head(freeIndices)
           i == k.index
<1>1. freeIndices \in Seq(Key) /\ Len(freeIndices) > 0 /\ 1 \in DOMAIN freeIndices
      /\ k = freeIndices[1]
  BY PagesAssumption DEF emplaceRecycled, Reuses, SMInv, TypeOK
<1>2. k \in Key /\ i \in Index /\ i \notin Holding /\ k \notin handed
  BY <1>1, QueuedFresh
<1>3. i < numSlots /\ meta[i].tombstone /\ ~ meta[i].inactive
      /\ k = make(meta[i].version, i)
  BY <1>1 DEF SMInv, FreeOK
<1>4. /\ freeIndices' = Tail(freeIndices)
      /\ meta' = [meta EXCEPT ![i].tombstone = FALSE]
      /\ numItems' = numItems + 1 /\ handed' = handed \cup {k}
      /\ owner' = [owner EXCEPT ![i] = k]
      /\ UNCHANGED <<numSlots, numInactiveSlots, active, maxValidIndex, clearing>>
  BY DEF emplaceRecycled, Returns, pageVars
<1>5. TypeOK'
  <2>1. meta[i] \in Meta /\ [meta[i] EXCEPT !.tombstone = FALSE] \in Meta
    BY <1>2 DEF SMInv, TypeOK, Meta
  <2>2. meta' \in [Index -> Meta]
    BY <1>2, <1>4, <2>1 DEF SMInv, TypeOK
  <2>3. QED
    BY <1>1, <1>2, <1>4, <2>2 DEF SMInv, TypeOK
<1> HIDE DEF k, i
<1>6. /\ \A j \in Index : j # i => meta'[j] = meta[j]
      /\ meta'[i].version = meta[i].version /\ ~ meta'[i].tombstone
      /\ meta'[i].inactive = meta[i].inactive
  BY <1>2, <1>4 DEF SMInv, TypeOK, Meta
<1>7. FreeOK'
  <2>1. \A n \in DOMAIN freeIndices' : n + 1 \in DOMAIN freeIndices
          /\ freeIndices'[n] = freeIndices[n + 1] /\ n \in Nat
    BY <1>1, <1>4
  <2>2. \A n \in DOMAIN freeIndices' :
          freeIndices'[n].index # i /\ freeIndices'[n].index \in Index
    <3>1. SUFFICES ASSUME NEW n \in DOMAIN freeIndices'
                   PROVE  freeIndices'[n].index # i /\ freeIndices'[n].index \in Index
      OBVIOUS
    <3>2. n + 1 \in DOMAIN freeIndices /\ freeIndices'[n] = freeIndices[n + 1]
          /\ n + 1 # 1
      BY <1>1, <1>4, <2>1
    <3>3. QED
      BY <1>1, <3>2, QueuedFresh DEF SMInv, FreeOK, k, i
  <2>3. ASSUME NEW n \in DOMAIN freeIndices'
        PROVE  LET q == freeIndices'[n] IN
               /\ q.index < numSlots /\ active[PageOf(q.index)]
               /\ meta'[q.index].tombstone /\ ~ meta'[q.index].inactive
               /\ q = make(meta'[q.index].version, q.index)
    BY <1>6, <2>1, <2>2 DEF SMInv, FreeOK
  <2>4. \A m, n \in DOMAIN freeIndices' :
          m # n => freeIndices'[m].index # freeIndices'[n].index
    <3>1. SUFFICES ASSUME NEW m \in DOMAIN freeIndices', NEW n \in DOMAIN freeIndices',
                          m # n
                   PROVE  freeIndices'[m].index # freeIndices'[n].index
      OBVIOUS
    <3>2. m + 1 \in DOMAIN freeIndices /\ n + 1 \in DOMAIN freeIndices
          /\ m + 1 # n + 1
      BY <2>1, <3>1
    <3>3. QED
      BY <2>1, <3>2 DEF SMInv, FreeOK
  <2>5. QED
    BY <1>4, <2>3, <2>4 DEF FreeOK
<1>8. PagesOK'
  <2>1. \A p \in Pages : SpentIn(p)' = SpentIn(p)
    BY <1>4, <1>6 DEF SpentIn, InPage
  <2>2. QED
    BY <1>4, <2>1 DEF SMInv, PagesOK, SpentIn
<1>9. CountsOK'
  <2>1. Holding' = Holding \cup {i}
    BY <1>2, <1>3, <1>4, <1>6, SlotsAssumption DEF Holding, Index, SMInv, TypeOK
  <2>2. Cardinality(Holding') = Cardinality(Holding) + 1
    BY <1>2, <2>1, HoldingFinite, FS_AddElement DEF SMInv
  <2>3. \A j \in Index : owner'[j] # NoKey <=> j \in Holding'
    BY <1>2, <1>4, <2>1, NoKeyIsNone DEF SMInv, TypeOK, CountsOK
  <2>4. QED
    BY <1>4, <2>2, <2>3 DEF SMInv, CountsOK
<1>10. KeysOK'
  <2>1. meta[i].version \in 1 .. MaxVersion
    BY <1>2 DEF SMInv, TypeOK, Meta
  <2>2. VersionOf(k) = meta[i].version /\ k.index = i /\ k.tag = 0
    BY <1>2, <1>3, <2>1, MakeKey
  <2>3. \A j \in Index : meta'[j].inactive => meta'[j].tombstone /\ Spent(j)'
    BY <1>3, <1>6 DEF SMInv, KeysOK, Spent
  <2>4. \A j \in Index :
          owner'[j] # NoKey => owner'[j] = make(meta'[j].version, j)
    BY <1>2, <1>3, <1>4, <1>6 DEF SMInv, KeysOK, TypeOK
  <2>5. ASSUME NEW h \in handed'
        PROVE  /\ h.tag = 0 /\ h.index < numSlots'
               /\ VersionOf(h) <= meta'[h.index].version
               /\ VersionOf(h) = meta'[h.index].version =>
                    meta'[h.index].inactive \/ owner'[h.index] = h
    <3>1. CASE h = k
      BY <1>2, <1>3, <1>4, <1>6, <2>1, <2>2, <3>1 DEF SMInv, TypeOK
    <3>2. CASE h \in handed
      <4>1. h.index \in Index /\ h \in Key
        BY <3>2 DEF SMInv, TypeOK, Key
      <4>2. meta'[h.index].version = meta[h.index].version
            /\ meta'[h.index].inactive = meta[h.index].inactive
        BY <1>6, <4>1
      <4>3. CASE h.index # i
        BY <1>2, <1>4, <3>2, <4>1, <4>2, <4>3 DEF SMInv, KeysOK, TypeOK
      <4>4. CASE h.index = i
        <5>1. owner[i] = NoKey /\ ~ meta[i].inactive
          BY <1>2, <1>3 DEF SMInv, CountsOK
        <5>2. QED
          BY <1>4, <3>2, <4>1, <4>2, <4>4, <5>1, NoKeyIsNone DEF SMInv, KeysOK
      <4>5. QED
        BY <4>3, <4>4
    <3>3. QED
      BY <1>4, <3>1, <3>2
  <2>6. QED
    BY <2>3, <2>4, <2>5 DEF KeysOK
<1>11. QED
  BY <1>5, <1>7, <1>8, <1>9, <1>10 DEF SMInv

LEMMA AppendedKeeps ==
  ASSUME SMInv, emplaceAppended
  PROVE  SMInv'
<1> DEFINE i == numSlots
           k == make(kMinVersion, numSlots)
           P == PageOf(numSlots)
<1>1. i \in Index /\ i \in Nat /\ i < MaxSlots
  BY SlotsAssumption DEF emplaceAppended, SMInv, TypeOK, Index
<1>2. kMinVersion \in 1 .. MaxVersion
  BY VersionsAssumption DEF kMinVersion
<1>3. k \in Key /\ k # NoKey /\ k.index = i /\ k.tag = 0 /\ VersionOf(k) = kMinVersion
  BY <1>1, <1>2, MakeKey
<1>4. /\ numSlots' = i + 1 /\ meta' = [meta EXCEPT ![i] = NewMeta]
      /\ numItems' = numItems + 1 /\ handed' = handed \cup {k}
      /\ owner' = [owner EXCEPT ![i] = k]
      /\ maxValidIndex' = IF i > maxValidIndex THEN i ELSE maxValidIndex
      /\ UNCHANGED <<freeIndices, clearing>>
  BY <1>3 DEF emplaceAppended, Returns
<1>5. /\ active' = IF i % PageSize = 0 THEN [active EXCEPT ![P] = TRUE] ELSE active
      /\ numInactiveSlots' = IF i % PageSize = 0
                             THEN [numInactiveSlots EXCEPT ![P] = 0]
                             ELSE numInactiveSlots
  BY DEF emplaceAppended
<1>6. P \in Pages /\ i \in InPage(P) /\ P * PageSize <= i
      /\ i < (P + 1) * PageSize /\ (i % PageSize = 0 <=> i = P * PageSize)
  BY <1>1, PageFacts
<1>7. NewMeta \in Meta /\ NewMeta.version = kMinVersion
      /\ ~ NewMeta.tombstone /\ ~ NewMeta.inactive
  BY <1>2 DEF NewMeta, Meta
<1>8. TypeOK'
  <2>1. meta' \in [Index -> Meta] /\ owner' \in [Index -> Key \cup {NoKey}]
    BY <1>1, <1>3, <1>4, <1>7 DEF SMInv, TypeOK
  <2>2. active' \in [Pages -> BOOLEAN] /\ numInactiveSlots' \in [Pages -> Nat]
    BY <1>5, <1>6 DEF SMInv, TypeOK
  <2>3. numSlots' \in 0 .. MaxSlots /\ maxValidIndex' \in Index /\ numItems' \in Nat
    BY <1>1, <1>4, SlotsAssumption DEF SMInv, TypeOK
  <2>4. handed' \subseteq Key
    BY <1>3, <1>4 DEF SMInv, TypeOK
  <2>5. QED
    BY <1>4, <2>1, <2>2, <2>3, <2>4 DEF SMInv, TypeOK
<1> HIDE DEF k
<1>9. /\ meta'[i] = NewMeta
      /\ \A j \in Index : j # i => meta'[j] = meta[j]
      /\ \A j \in Index : j # i => owner'[j] = owner[j]
      /\ owner'[i] = k
  BY <1>1, <1>4 DEF SMInv, TypeOK
<1>10. PageSize \in Nat /\ PageSize > 0 /\ Pages \subseteq Nat
  BY PagesAssumption DEF Pages
<1>11. \A p \in Pages : SpentIn(p)' = SpentIn(p)
  <2>1. SUFFICES ASSUME NEW p \in Pages, NEW j \in Index
                 PROVE  j < numSlots' /\ meta'[j].inactive
                          <=> j < numSlots /\ meta[j].inactive
    BY DEF SpentIn, InPage
  <2>2. j \in Int
    BY <2>1, SlotsAssumption DEF Index
  <2>3. CASE j = i
    BY <1>1, <1>7, <1>9, <2>3
  <2>4. CASE j # i
    BY <1>1, <1>4, <1>9, <2>1, <2>2, <2>4
  <2>5. QED
    BY <2>3, <2>4
<1>12. PagesOK'
  <2>1. SUFFICES ASSUME NEW p \in Pages
                 PROVE  /\ p * PageSize < numSlots' =>
                             numInactiveSlots'[p] = Cardinality(SpentIn(p))
                        /\ active'[p] <=> p * PageSize < numSlots'
                                          /\ Cardinality(SpentIn(p)) # PageSize
    BY <1>11 DEF PagesOK, SpentIn
  <2>2. /\ p * PageSize < numSlots => numInactiveSlots[p] = Cardinality(SpentIn(p))
        /\ active[p] <=> p * PageSize < numSlots
                         /\ Cardinality(SpentIn(p)) # PageSize
    BY <2>1 DEF SMInv, PagesOK, SpentIn
  <2>3. p * PageSize \in Nat /\ P * PageSize \in Nat
    <3>1. p \in Nat /\ P \in Nat
      BY <1>6, <1>10, <2>1
    <3> HIDE DEF P
    <3>2. QED
      BY <1>10, <3>1
  <2>4. CASE p = P /\ i % PageSize = 0
    <3>1. SpentIn(p) = {}
      <4>1. SUFFICES ASSUME NEW j \in InPage(p), j < numSlots PROVE FALSE
        BY DEF SpentIn
      <4>2. j \in Index /\ PageOf(j) = p /\ j \in Int
        BY SlotsAssumption DEF InPage, Index
      <4>3. p * PageSize <= j
        BY <4>2, PageFacts
      <4>4. QED
        BY <1>1, <1>6, <2>3, <2>4, <4>1, <4>2, <4>3
    <3>2. Cardinality(SpentIn(p)) = 0
      BY <3>1, FS_EmptySet
    <3>3. numInactiveSlots'[p] = 0 /\ active'[p]
      BY <1>5, <2>4 DEF SMInv, TypeOK
    <3>4. p * PageSize < numSlots'
      BY <1>1, <1>4, <1>6, <2>3, <2>4
    <3>5. QED
      BY <1>10, <3>2, <3>3, <3>4
  <2>5. CASE p # P \/ i % PageSize # 0
    <3>1. p * PageSize # i
      <4>1. CASE p = P
        BY <1>6, <2>5, <4>1
      <4>2. CASE p # P
        <5>1. SUFFICES ASSUME p * PageSize = i PROVE FALSE
          OBVIOUS
        <5>2. p \in Nat /\ P \in Nat /\ p * PageSize < (P + 1) * PageSize
              /\ P * PageSize <= p * PageSize
          BY <1>6, <1>10, <5>1
        <5>3. (P + 1) * PageSize = P * PageSize + PageSize
              /\ (p + 1) * PageSize = p * PageSize + PageSize
          BY <1>10, <5>2
        <5>4. CASE p > P
          <6>1. p >= P + 1
            BY <5>2, <5>4
          <6>2. p * PageSize >= (P + 1) * PageSize
            BY <1>10, <5>2, <6>1
          <6>3. QED
            BY <1>10, <2>3, <5>2, <5>3, <6>2
        <5>5. CASE p < P
          <6>1. P >= p + 1
            BY <5>2, <5>5
          <6>2. P * PageSize >= (p + 1) * PageSize
            BY <1>10, <5>2, <6>1
          <6>3. QED
            BY <1>10, <2>3, <5>2, <5>3, <6>2
        <5>6. QED
          BY <4>2, <5>2, <5>4, <5>5
      <4>3. QED
        BY <4>1, <4>2
    <3>2. p * PageSize < numSlots' <=> p * PageSize < numSlots
      BY <1>1, <1>4, <2>3, <3>1
    <3>3. active'[p] = active[p] /\ numInactiveSlots'[p] = numInactiveSlots[p]
      BY <1>5, <1>6, <2>1, <2>5 DEF SMInv, TypeOK
    <3>4. QED
      BY <2>2, <3>2, <3>3
  <2>6. QED
    BY <2>4, <2>5
<1>13. FreeOK'
  <2>1. ASSUME NEW n \in DOMAIN freeIndices
        PROVE  LET q == freeIndices[n] IN
               /\ q.index < numSlots' /\ active'[PageOf(q.index)]
               /\ meta'[q.index].tombstone /\ ~ meta'[q.index].inactive
               /\ q = make(meta'[q.index].version, q.index)
    <3> DEFINE q == freeIndices[n]
    <3>1. q.index \in Index /\ q.index \in Int
      BY QueuedFresh, SlotsAssumption DEF Index
    <3>2. /\ q.index < numSlots
          /\ meta[q.index].tombstone /\ ~ meta[q.index].inactive
          /\ q = make(meta[q.index].version, q.index)
      BY DEF SMInv, FreeOK
    <3> HIDE DEF q
    <3>3. q.index # i /\ meta'[q.index] = meta[q.index] /\ q.index < numSlots'
      BY <1>1, <1>4, <1>9, <3>1, <3>2
    <3>4. active'[PageOf(q.index)]
      BY <1>8, <1>12, <3>1, <3>2, <3>3, UsableActivePrime
    <3>5. QED
      BY <3>2, <3>3, <3>4 DEF q
  <2>2. QED
    BY <1>4, <2>1 DEF SMInv, FreeOK
<1>14. CountsOK'
  <2>1. Holding' = Holding \cup {i} /\ i \notin Holding
    BY <1>1, <1>4, <1>7, <1>9, SlotsAssumption DEF Holding, Index
  <2>2. Cardinality(Holding') = Cardinality(Holding) + 1
    BY <2>1, HoldingFinite, FS_AddElement DEF SMInv
  <2>3. \A j \in Index : owner'[j] # NoKey <=> j \in Holding'
    BY <1>1, <1>3, <1>9, <2>1 DEF SMInv, CountsOK
  <2>4. maxValidIndex' = IF numSlots' = 0 THEN 0 ELSE numSlots' - 1
    BY <1>1, <1>4 DEF SMInv, CountsOK
  <2>5. QED
    BY <1>4, <2>2, <2>3, <2>4 DEF SMInv, CountsOK
<1>15. KeysOK'
  <2>1. \A j \in Index : meta'[j].inactive => meta'[j].tombstone /\ Spent(j)'
    BY <1>7, <1>9 DEF SMInv, KeysOK, Spent
  <2>2. \A j \in Index :
          owner'[j] # NoKey => owner'[j] = make(meta'[j].version, j)
    BY <1>7, <1>9 DEF SMInv, KeysOK, k
  <2>3. ASSUME NEW h \in handed'
        PROVE  /\ h.tag = 0 /\ h.index < numSlots'
               /\ VersionOf(h) <= meta'[h.index].version
               /\ VersionOf(h) = meta'[h.index].version =>
                    meta'[h.index].inactive \/ owner'[h.index] = h
    <3>1. CASE h = k
      BY <1>1, <1>2, <1>3, <1>4, <1>7, <1>9, <3>1
    <3>2. CASE h \in handed
      <4>1. h.index \in Index /\ h.index \in Int
        BY <3>2, SlotsAssumption DEF SMInv, TypeOK, Key, Index
      <4>2. h.index < numSlots
        BY <3>2 DEF SMInv, KeysOK
      <4>3. h.index # i /\ h.index < numSlots'
        BY <1>1, <1>4, <4>1, <4>2
      <4>4. QED
        BY <1>9, <3>2, <4>1, <4>3 DEF SMInv, KeysOK
    <3>3. QED
      BY <1>4, <3>1, <3>2
  <2>4. QED
    BY <2>1, <2>2, <2>3 DEF KeysOK
<1>16. QED
  BY <1>8, <1>12, <1>13, <1>14, <1>15 DEF SMInv

LEMMA EraseKeeps ==
  ASSUME SMInv, NEW k \in Key, k.index \in Holding, eraseImpl(k),
         clearing' \in Nat \cup {Idle}
  PROVE  SMInv'
<1> DEFINE i == k.index
           P == PageOf(i)
           v == meta[i].version
           q == make(v + 1, i)
<1>1. i \in Index /\ i \in Nat /\ i < numSlots
      /\ ~ meta[i].tombstone /\ ~ meta[i].inactive
  <2>1. i \in Index /\ i \in Nat
    BY SlotsAssumption DEF Key, Index
  <2>2. i < numSlots /\ ~ meta[i].tombstone
    BY <2>1, SlotsAssumption DEF Holding, SMInv, TypeOK
  <2>3. QED
    BY <2>1, <2>2 DEF SMInv, KeysOK
<1>2. P \in Pages /\ i \in InPage(P) /\ active[P]
  BY <1>1, PageFacts, UsableActive DEF SMInv
<1>3. meta[i] \in Meta /\ v \in 1 .. MaxVersion /\ v \in Nat /\ MaxVersion \in Nat
  BY <1>1, VersionsAssumption DEF SMInv, TypeOK, Meta
<1>4. /\ meta' = [meta EXCEPT ![i] = Erased(i)]
      /\ numItems' = numItems - 1
      /\ owner' = [owner EXCEPT ![i] = NoKey]
      /\ UNCHANGED <<numSlots, maxValidIndex, handed>>
  BY DEF eraseImpl
<1>5. ASSUME Spent(i)
      PROVE  /\ numInactiveSlots' = [numInactiveSlots EXCEPT ![P] = @ + 1]
             /\ active' = [active EXCEPT ![P] = @ /\ ~ PageSpent(P)]
             /\ freeIndices' = freeIndices
  BY <1>5 DEF eraseImpl
<1>6. ASSUME ~ Spent(i)
      PROVE  /\ freeIndices' = Append(freeIndices, q) /\ q \in Key /\ q.index = i
             /\ UNCHANGED <<numInactiveSlots, active>>
  <2>1. v + 1 \in 1 .. MaxVersion
    BY <1>3, <1>6 DEF Spent
  <2>2. q \in Key /\ q.index = i
    BY <1>1, <2>1, MakeKey
  <2>3. clearTagAndUpdateVersion(k, v + 1) = q
    <3> DEFINE w == (v + 1) % VersionMod
    <3>1. clearTagAndUpdateVersion(k, v + 1) = [k EXCEPT !.version = w, !.tag = 0]
          /\ q = [version |-> w, index |-> k.index, tag |-> 0]
      BY DEF clearTagAndUpdateVersion, make
    <3> HIDE DEF w, q
    <3>2. QED
      BY <3>1 DEF Key
  <2>4. QED
    BY <1>6, <2>2, <2>3 DEF eraseImpl
<1>7. /\ \A j \in Index : j # i => meta'[j] = meta[j]
      /\ \A j \in Index : j # i => owner'[j] = owner[j]
      /\ owner'[i] = NoKey /\ meta'[i] \in Meta /\ meta'[i].tombstone
      /\ Spent(i) => meta'[i].version = v /\ meta'[i].inactive
      /\ ~ Spent(i) => meta'[i].version = v + 1 /\ ~ meta'[i].inactive
  <2>1. Erased(i) \in Meta /\ Erased(i).tombstone
        /\ (Spent(i) => Erased(i).version = v /\ Erased(i).inactive)
        /\ (~ Spent(i) => Erased(i).version = v + 1 /\ ~ Erased(i).inactive)
    <3>1. CASE Spent(i)
      BY <1>1, <1>3, <3>1 DEF Erased, Meta
    <3>2. CASE ~ Spent(i)
      <4>1. v + 1 \in 1 .. MaxVersion
        BY <1>3, <3>2 DEF Spent
      <4>2. QED
        BY <1>1, <1>3, <3>2, <4>1 DEF Erased, Meta
    <3>3. QED
      BY <3>1, <3>2
  <2>2. QED
    BY <1>1, <1>4, <2>1 DEF SMInv, TypeOK
<1> HIDE DEF i, P, v, q
<1>8. CountsOK' /\ numItems' \in Nat
  <2>1. Holding' = Holding \ {i} /\ i \in Holding
    BY <1>1, <1>4, <1>7, SlotsAssumption DEF Holding, Index, SMInv, TypeOK, i
  <2>2. Cardinality(Holding') = Cardinality(Holding) - 1 /\ Cardinality(Holding') \in Nat
    BY <2>1, HoldingFinite, FS_RemoveElement, FS_CardinalityType DEF SMInv
  <2>3. \A j \in Index : owner'[j] # NoKey <=> j \in Holding'
    BY <1>1, <1>7, <2>1 DEF SMInv, CountsOK
  <2>4. QED
    BY <1>4, <2>2, <2>3 DEF SMInv, CountsOK
<1>9. TypeOK'
  <2>1. meta' \in [Index -> Meta] /\ owner' \in [Index -> Key \cup {NoKey}]
    BY <1>1, <1>4, <1>7 DEF SMInv, TypeOK
  <2>2. active' \in [Pages -> BOOLEAN] /\ numInactiveSlots' \in [Pages -> Nat]
    <3>1. CASE Spent(i)
      <4>1. numInactiveSlots[P] + 1 \in Nat
        BY <1>2 DEF SMInv, TypeOK
      <4>2. (active[P] /\ ~ PageSpent(P)) \in BOOLEAN
        OBVIOUS
      <4>3. numInactiveSlots' \in [Pages -> Nat]
        BY <1>5, <3>1, <4>1 DEF SMInv, TypeOK
      <4>4. active' \in [Pages -> BOOLEAN]
        BY <1>5, <3>1, <4>2 DEF SMInv, TypeOK
      <4>5. QED
        BY <4>3, <4>4
    <3>2. QED
      BY <1>6, <3>1 DEF SMInv, TypeOK
  <2>3. freeIndices' \in Seq(Key)
    BY <1>5, <1>6 DEF SMInv, TypeOK
  <2>4. QED
    BY <1>4, <1>8, <2>1, <2>2, <2>3 DEF SMInv, TypeOK
<1>10. PagesOK'
  <2>1. SUFFICES ASSUME NEW p \in Pages
                 PROVE  /\ p * PageSize < numSlots =>
                             numInactiveSlots'[p] = Cardinality(SpentIn(p)')
                        /\ active'[p] <=> p * PageSize < numSlots
                                          /\ Cardinality(SpentIn(p)') # PageSize
    BY <1>4 DEF PagesOK, SpentIn
  <2>2. /\ p * PageSize < numSlots => numInactiveSlots[p] = Cardinality(SpentIn(p))
        /\ active[p] <=> p * PageSize < numSlots
                         /\ Cardinality(SpentIn(p)) # PageSize
    BY <2>1 DEF SMInv, PagesOK, SpentIn
  <2>3. CASE Spent(i) /\ p = P
    <3>1. SpentIn(p)' = SpentIn(p) \cup {i} /\ i \notin SpentIn(p)
      BY <1>1, <1>2, <1>4, <1>7, <2>3 DEF SpentIn, InPage
    <3>2. IsFiniteSet(SpentIn(p)) /\ Cardinality(SpentIn(p)) \in Nat
      BY <1>2, <2>3, <3>1, NotWhole DEF SpentIn
    <3>3. Cardinality(SpentIn(p)') = Cardinality(SpentIn(p)) + 1
      BY <3>1, <3>2, FS_AddElement
    <3>4. p * PageSize < numSlots /\ numInactiveSlots[p] = Cardinality(SpentIn(p))
      BY <1>2, <2>2, <2>3
    <3>5. numInactiveSlots'[p] = numInactiveSlots[p] + 1
          /\ active'[p] = ~ (numInactiveSlots[p] + 1 = PageSize)
      BY <1>2, <1>5, <2>3 DEF PageSpent, SMInv, TypeOK
    <3>6. QED
      BY <3>3, <3>4, <3>5
  <2>4. CASE ~ (Spent(i) /\ p = P)
    <3>1. SpentIn(p)' = SpentIn(p)
      BY <1>1, <1>2, <1>4, <1>7, <2>4 DEF SpentIn, InPage
    <3>2. active'[p] = active[p] /\ numInactiveSlots'[p] = numInactiveSlots[p]
      BY <1>2, <1>5, <1>6, <2>1, <2>4 DEF SMInv, TypeOK
    <3>3. QED
      BY <2>2, <3>1, <3>2
  <2>5. QED
    BY <2>3, <2>4
<1>11. FreeOK'
  <2> DEFINE Fit(h) == /\ h.index < numSlots' /\ active'[PageOf(h.index)]
                       /\ meta'[h.index].tombstone /\ ~ meta'[h.index].inactive
                       /\ h = make(meta'[h.index].version, h.index)
  <2>1. ASSUME NEW n \in DOMAIN freeIndices
        PROVE  Fit(freeIndices[n]) /\ freeIndices[n].index # i
    <3> DEFINE h == freeIndices[n]
    <3>1. h.index \in Index /\ h.index # i
      BY QueuedFresh DEF i
    <3>2. /\ h.index < numSlots
          /\ meta[h.index].tombstone /\ ~ meta[h.index].inactive
          /\ h = make(meta[h.index].version, h.index)
      BY DEF SMInv, FreeOK
    <3> HIDE DEF h
    <3>3. active'[PageOf(h.index)]
      BY <1>4, <1>7, <1>9, <1>10, <3>1, <3>2, UsableActivePrime
    <3>4. QED
      BY <1>4, <1>7, <3>1, <3>2, <3>3 DEF h
  <2>2. CASE Spent(i)
    BY <1>5, <2>1, <2>2 DEF SMInv, FreeOK
  <2>3. CASE ~ Spent(i)
    <3>1. Fit(q)
      <4>1. active'[PageOf(i)]
        BY <1>1, <1>4, <1>7, <1>9, <1>10, <2>3, UsableActivePrime
      <4>2. QED
        BY <1>1, <1>4, <1>6, <1>7, <2>3, <4>1 DEF q
    <3>2. freeIndices \in Seq(Key)
      BY DEF SMInv, TypeOK
    <3> HIDE DEF Fit
    <3>3. ASSUME NEW n \in DOMAIN freeIndices'
          PROVE  \/ n \in DOMAIN freeIndices /\ freeIndices'[n] = freeIndices[n]
                 \/ n = Len(freeIndices) + 1 /\ freeIndices'[n] = q
      BY <1>6, <2>3, <3>2
    <3>4. \A n \in DOMAIN freeIndices' : Fit(freeIndices'[n])
      BY <2>1, <3>1, <3>3
    <3>5. \A m, n \in DOMAIN freeIndices' :
            m # n => freeIndices'[m].index # freeIndices'[n].index
      BY <1>6, <2>1, <2>3, <3>3 DEF SMInv, FreeOK
    <3>6. QED
      BY <3>4, <3>5 DEF FreeOK, Fit
  <2>4. QED
    BY <2>2, <2>3
<1>12. KeysOK'
  <2>1. \A j \in Index : meta'[j].inactive => meta'[j].tombstone /\ Spent(j)'
    BY <1>7 DEF SMInv, KeysOK, Spent, v
  <2>2. \A j \in Index :
          owner'[j] # NoKey => owner'[j] = make(meta'[j].version, j)
    BY <1>7 DEF SMInv, KeysOK
  <2>3. ASSUME NEW h \in handed
        PROVE  /\ h.tag = 0 /\ h.index < numSlots'
               /\ VersionOf(h) <= meta'[h.index].version
               /\ VersionOf(h) = meta'[h.index].version =>
                    meta'[h.index].inactive \/ owner'[h.index] = h
    <3>1. h.index \in Index /\ VersionOf(h) \in Int
      BY VersionsAssumption DEF SMInv, TypeOK, Key, VersionOf
    <3>2. CASE h.index # i
      BY <1>4, <1>7, <3>1, <3>2 DEF SMInv, KeysOK
    <3>3. CASE h.index = i
      <4>1. h.tag = 0 /\ h.index < numSlots' /\ VersionOf(h) <= v
        BY <1>4, <3>3 DEF SMInv, KeysOK, v
      <4>2. QED
        BY <1>3, <1>7, <3>1, <3>3, <4>1
    <3>4. QED
      BY <3>2, <3>3
  <2>4. QED
    BY <1>4, <2>1, <2>2, <2>3 DEF KeysOK
<1>13. QED
  BY <1>8, <1>9, <1>10, <1>11, <1>12 DEF SMInv

LEMMA InitHolds == Init => SMInv
<1> SUFFICES ASSUME Init PROVE SMInv
  OBVIOUS
<1>2. NewMeta \in Meta /\ ~ NewMeta.tombstone /\ ~ NewMeta.inactive
  BY VersionsAssumption DEF NewMeta, Meta, kMinVersion
<1>3. TypeOK
  BY <1>2, SlotsAssumption DEF Init, TypeOK, Index
<1>4. FreeOK
  BY DEF Init, FreeOK
<1>5. PagesOK
  <2>1. SUFFICES ASSUME NEW p \in Pages PROVE ~ (p * PageSize < numSlots) /\ ~ active[p]
    BY DEF PagesOK
  <2>2. p \in Nat /\ PageSize \in Nat /\ numSlots = 0 /\ ~ active[p]
    BY PagesAssumption DEF Init, Pages
  <2>3. p * PageSize \in Nat
    BY <2>2
  <2>4. QED
    BY <2>2, <2>3
<1>6. CountsOK
  <2>1. Holding = {}
    BY DEF Init, Holding
  <2>2. Cardinality(Holding) = 0
    BY <2>1, FS_EmptySet
  <2>3. QED
    BY <2>1, <2>2 DEF Init, CountsOK
<1>7. KeysOK
  BY <1>2 DEF Init, KeysOK
<1>8. QED
  BY <1>3, <1>4, <1>5, <1>6, <1>7 DEF SMInv

LEMMA ResetKeeps ==
  ASSUME reset
  PROVE  SMInv'
<1>1. Init'
  BY DEF reset, Init
<1>2. Init' => SMInv'
  BY InitHolds, PTL
<1>3. QED
  BY <1>1, <1>2

(* The steps of clear's loop that erase nothing, and a copy. *)
LEMMA SameElementsKeep ==
  ASSUME SMInv, UNCHANGED <<meta, pageVars, numItems, handed, owner>>,
         freeIndices' = freeIndices \/ freeIndices' = <<>>,
         clearing' \in Nat \cup {Idle}
  PROVE  SMInv'
<1>1. TypeOK'
  <2>1. freeIndices \in Seq(Key) /\ <<>> \in Seq(Key)
    BY DEF SMInv, TypeOK
  <2>2. freeIndices' \in Seq(Key)
    BY ONLY <2>1, freeIndices' = freeIndices \/ freeIndices' = <<>>
  <2>3. QED
    BY <2>2 DEF SMInv, TypeOK, pageVars
<1>2. FreeOK'
  <2>1. CASE freeIndices' = freeIndices
    BY <2>1 DEF SMInv, FreeOK, pageVars
  <2>2. CASE freeIndices' = <<>>
    BY <2>2 DEF FreeOK
  <2>3. QED
    BY <2>1, <2>2
<1>3. PagesOK'
  BY DEF SMInv, PagesOK, pageVars
<1>4. Holding' = Holding
  BY DEF Holding, pageVars
<1>5. CountsOK'
  BY <1>4 DEF SMInv, CountsOK, pageVars
<1>6. KeysOK'
  BY DEF SMInv, KeysOK, Spent, pageVars
<1>7. QED
  BY <1>1, <1>2, <1>3, <1>5, <1>6 DEF SMInv

LEMMA CursorType ==
  ASSUME NEW i \in Nat
  PROVE  NextPage(i) \in Nat
<1>1. PageSize \in Nat /\ PageSize > 0
  BY PagesAssumption
<1>2. PageOf(i) \in Nat
  BY <1>1 DEF PageOf
<1> DEFINE p == PageOf(i)
<1> HIDE DEF p
<1>3. \A x \in Nat : (x + 1) * PageSize \in Nat
  BY <1>1
<1>4. QED
  BY <1>2, <1>3 DEF NextPage

LEMMA StepKeeps ==
  ASSUME SMInv, [Next]_vars
  PROVE  SMInv'
<1>1. CASE emplaceRecycled
  BY <1>1, RecycledKeeps
<1>2. CASE emplaceAppended
  BY <1>2, AppendedKeeps
<1>3. ASSUME NEW k \in handed, NEW t \in Tags, erase([k EXCEPT !.tag = t])
      PROVE  SMInv'
  <2> DEFINE h == [k EXCEPT !.tag = t]
  <2>1. k \in Key /\ h \in Key /\ h.index = k.index
    BY DEF SMInv, TypeOK, Key
  <2>2. k.index < numSlots /\ k.index \in Index
    BY <2>1 DEF SMInv, KeysOK, Key
  <2>3. eraseImpl(h) /\ ~ meta[h.index].tombstone /\ clearing' = clearing
    BY <1>3 DEF erase, erasable
  <2> HIDE DEF h
  <2>4. h.index \in Holding
    BY <2>1, <2>2, <2>3, SlotsAssumption DEF Holding, Index, SMInv, TypeOK
  <2>5. clearing' \in Nat \cup {Idle}
    BY <2>3 DEF SMInv, TypeOK
  <2>6. QED
    BY <2>1, <2>3, <2>4, <2>5, EraseKeeps
<1>4. CASE clear
  <2>1. clearing' \in Nat \cup {Idle}
    BY <1>4 DEF clear
  <2>2. QED
    BY <1>4, <2>1, SameElementsKeep DEF clear
<1>5. CASE ClearSkips
  <2>1. clearing \in Nat
    BY <1>5, SlotsAssumption DEF ClearSkips, SMInv, TypeOK
  <2>2. clearing' \in Nat \cup {Idle}
    BY <1>5, <2>1, CursorType DEF ClearSkips
  <2>3. QED
    BY <1>5, <2>2, SameElementsKeep DEF ClearSkips
<1>6. CASE ClearErases
  <2>1. clearing \in Holding /\ clearing \in Index /\ clearing \in Nat
    BY <1>6, SlotsAssumption DEF ClearErases, Holding, Index, SMInv, TypeOK
  <2>2. clearing' \in Nat \cup {Idle}
    BY <1>6, <2>1, CursorType DEF ClearErases
  <2>3. kMinVersion \in 1 .. MaxVersion
    BY VersionsAssumption DEF kMinVersion
  <2>4. make(kMinVersion, clearing) \in Key
        /\ make(kMinVersion, clearing).index = clearing
    BY <2>1, <2>3, MakeKey
  <2>5. eraseImpl(make(kMinVersion, clearing))
    BY <1>6 DEF ClearErases
  <2>6. QED
    BY <2>1, <2>2, <2>4, <2>5, EraseKeeps
<1>7. CASE ClearReturns
  <2>1. clearing' \in Nat \cup {Idle}
    BY <1>7 DEF ClearReturns
  <2>2. QED
    BY <1>7, <2>1, SameElementsKeep DEF ClearReturns
<1>8. CASE reset
  BY <1>8, ResetKeeps
<1>9. CASE copyFrom
  <2>1. clearing' \in Nat \cup {Idle}
    BY <1>9 DEF copyFrom, SMInv, TypeOK
  <2>2. QED
    BY <1>9, <2>1, SameElementsKeep DEF copyFrom
<1>10. CASE UNCHANGED vars
  <2>1. clearing' \in Nat \cup {Idle}
    BY <1>10 DEF vars, SMInv, TypeOK
  <2>2. QED
    BY <1>10, <2>1, SameElementsKeep DEF vars
<1>11. QED
  BY <1>1, <1>2, <1>3, <1>4, <1>5, <1>6, <1>7, <1>8, <1>9, <1>10 DEF Next

LEMMA SMInvHolds == Spec => []SMInv
BY InitHolds, StepKeeps, PTL DEF Spec
-----------------------------------------------------------------------------
(* Types, the queue of keys to reuse, the pages and the counts are right in
   every reachable state: what emplace assumes of a queued key without looking,
   eraseImpl's "don't deallocate the page until" rule, and size. *)
THEOREM StructureHolds == Spec => [](TypeOK /\ FreeOK /\ PagesOK /\ CountsOK)
<1>1. SMInv => TypeOK /\ FreeOK /\ PagesOK /\ CountsOK
  BY DEF SMInv
<1>2. QED
  BY <1>1, SMInvHolds, PTL

(* emplace never returns a key it returned before, until a reset. *)
THEOREM KeysAreFresh == Spec => KeysFresh
<1> DEFINE Fresh == \A i \in Index :
       owner'[i] # owner[i] /\ owner'[i] # NoKey => owner'[i] \notin handed
<1>1. ASSUME SMInv, [Next]_vars PROVE [Fresh]_vars
  <2>1. SUFFICES ASSUME NEW i \in Index, owner'[i] # owner[i], owner'[i] # NoKey
                 PROVE  owner'[i] \notin handed
    OBVIOUS
  <2>2. CASE emplaceRecycled
    <3> DEFINE k == Head(freeIndices)
    <3>1. 1 \in DOMAIN freeIndices /\ k = freeIndices[1]
      BY <2>2, PagesAssumption DEF emplaceRecycled, Reuses, SMInv, TypeOK
    <3>2. k \notin handed
      BY <1>1, <3>1, QueuedFresh
    <3>3. owner' = [owner EXCEPT ![k.index] = k]
      BY <2>2 DEF emplaceRecycled, Returns
    <3>4. QED
      BY <1>1, <2>1, <3>2, <3>3 DEF SMInv, TypeOK
  <2>3. CASE emplaceAppended
    <3> DEFINE k == make(kMinVersion, numSlots)
    <3>1. k.index = numSlots /\ owner' = [owner EXCEPT ![k.index] = k]
      BY <2>3 DEF emplaceAppended, Returns, make
    <3>2. k \notin handed
      BY <1>1, <3>1 DEF SMInv, KeysOK, TypeOK
    <3>3. QED
      BY <1>1, <2>1, <3>1, <3>2 DEF SMInv, TypeOK
  <2>4. ASSUME NEW k, eraseImpl(k) PROVE FALSE
    BY <1>1, <2>1, <2>4 DEF eraseImpl, SMInv, TypeOK
  <2>5. QED
    BY <1>1, <2>1, <2>2, <2>3, <2>4
       DEF Next, vars, erase, clear, ClearSkips, ClearErases, ClearReturns,
           reset, copyFrom
<1>2. QED
  BY <1>1, SMInvHolds, PTL DEF Spec, KeysFresh

(* slot_map32 (kMaxVersion one more than a key's version field can hold): the
   key of an erased element finds nothing for ever, although a spent slot keeps
   its version, because that version reads 0 in a key. *)
THEOREM ErasedKeysFindNothing ==
  ASSUME MaxVersion = VersionMod
  PROVE  Spec => []ErasedGone
<1>1. ASSUME SMInv PROVE ErasedGone
  <2>1. SUFFICES ASSUME NEW k \in handed, has_key(k) PROVE owner[k.index] = k
    BY DEF ErasedGone
  <2>2. k \in Key /\ k.index \in Index
    BY <1>1 DEF SMInv, TypeOK, Key
  <2>3. meta[k.index].version \in 1 .. MaxVersion
    BY <1>1, <2>2 DEF SMInv, TypeOK, Meta
  <2>4. k.version = meta[k.index].version /\ k.version < VersionMod /\ k.version # 0
    BY <2>1, <2>2, <2>3, VersionsAssumption DEF has_key, Key
  <2>5. VersionOf(k) = meta[k.index].version
    BY <2>4 DEF VersionOf
  <2>6. ~ meta[k.index].inactive
    BY <1>1, <2>2, <2>3, <2>4 DEF SMInv, KeysOK, Spent
  <2>7. QED
    BY <1>1, <2>5, <2>6 DEF SMInv, KeysOK
<1>2. QED
  BY <1>1, SMInvHolds, PTL

(* The key of an element finds it until the element is erased, at every version
   that fits a key. *)
THEOREM HeldKeysFind == Spec => []HeldFoundInWidth
<1>1. ASSUME SMInv PROVE HeldFoundInWidth
  <2>1. SUFFICES ASSUME NEW i \in Index, owner[i] # NoKey,
                        meta[i].version < VersionMod
                 PROVE  has_key(owner[i])
    BY DEF HeldFoundInWidth
  <2>2. i \in Holding
    BY <1>1, <2>1 DEF SMInv, CountsOK
  <2>3. i < numSlots /\ ~ meta[i].tombstone /\ i \in Int
    BY <1>1, <2>2, SlotsAssumption DEF Holding, SMInv, TypeOK
  <2>4. active[PageOf(i)]
    BY <1>1, <2>3, UsableActive DEF SMInv, KeysOK
  <2>5. i <= maxValidIndex
    BY <1>1, <2>3, SlotsAssumption DEF SMInv, CountsOK, TypeOK, Index
  <2>6. owner[i] = make(meta[i].version, i)
    BY <1>1, <2>1 DEF SMInv, KeysOK
  <2>7. meta[i].version \in 1 .. MaxVersion
    BY <1>1 DEF SMInv, TypeOK, Meta
  <2>8. meta[i].version % VersionMod = meta[i].version
    BY <1>1, <2>1, <2>7, VersionsAssumption
  <2>9. QED
    BY <2>4, <2>5, <2>6, <2>8 DEF has_key, make
<1>2. QED
  BY <1>1, SMInvHolds, PTL

(* Where the last version fits the key (slot_map64) no element is ever lost. *)
THEOREM HeldKeysFindAlways ==
  ASSUME MaxVersion < VersionMod
  PROVE  Spec => []HeldFound
<1>1. ASSUME SMInv, HeldFoundInWidth PROVE HeldFound
  <2>1. \A i \in Index : meta[i].version \in 1 .. MaxVersion
    BY <1>1 DEF SMInv, TypeOK, Meta
  <2>2. \A i \in Index : meta[i].version < VersionMod
    BY <2>1, VersionsAssumption
  <2>3. QED
    BY <1>1, <2>2 DEF HeldFound, HeldFoundInWidth
<1>2. QED
  BY <1>1, SMInvHolds, HeldKeysFind, PTL

-----------------------------------------------------------------------------
(***************************************************************************)
(* How long an erased slot waits.                                          *)
(***************************************************************************)
(* ReuseDelayed is not inductive: what it says of the head of the queue has been
   true, with a smaller number, at every place the head came through.  At each
   place as many have been erased since as keys stand behind it. *)
Waited ==
  /\ erasures \in [Index -> Nat]
  /\ \A n \in DOMAIN freeIndices :
       \/ erasures[freeIndices[n].index] >= MinFree
       \/ erasures[freeIndices[n].index] >= Len(freeIndices) - n

DelayInv == SMInv /\ Waited

(* What a step does to the queue. *)
Erases ==
  \E k \in Key : /\ k.index \in Holding
                 /\ eraseImpl(k)

SameQueue == numItems' >= numItems /\ freeIndices' \in {freeIndices, <<>>}

LEMMA StepKinds ==
  ASSUME SMInv, [Next]_vars
  PROVE  \/ numSlots' = 0 \/ Erases
         \/ numItems' >= numItems /\ emplaceRecycled
         \/ SameQueue
<1>1. numItems \in Nat /\ numItems >= numItems /\ numItems + 1 >= numItems
  BY DEF SMInv, TypeOK
<1>2. CASE emplaceRecycled
  BY <1>1, <1>2 DEF emplaceRecycled, Returns
<1>3. CASE emplaceAppended
  BY <1>1, <1>3 DEF emplaceAppended, Returns, SameQueue
<1>4. ASSUME NEW k \in handed, NEW t \in Tags, erase([k EXCEPT !.tag = t])
      PROVE  Erases
  <2> DEFINE h == [k EXCEPT !.tag = t]
  <2>1. k \in Key /\ h \in Key /\ h.index = k.index
    BY DEF SMInv, TypeOK, Key
  <2>2. k.index < numSlots /\ k.index \in Index
    BY <2>1 DEF SMInv, KeysOK, Key
  <2>3. eraseImpl(h) /\ ~ meta[h.index].tombstone
    BY <1>4 DEF erase, erasable
  <2> HIDE DEF h
  <2>4. h.index \in Holding
    BY <2>1, <2>2, <2>3, SlotsAssumption DEF Holding, Index, SMInv, TypeOK
  <2>5. QED
    BY <2>1, <2>3, <2>4 DEF Erases
<1>5. CASE ClearErases
  <2>1. clearing \in Holding /\ clearing \in Index
    BY <1>5, SlotsAssumption DEF ClearErases, Holding, Index, SMInv, TypeOK
  <2>2. kMinVersion \in 1 .. MaxVersion
    BY VersionsAssumption DEF kMinVersion
  <2>3. make(kMinVersion, clearing) \in Key
        /\ make(kMinVersion, clearing).index = clearing
    BY <2>1, <2>2, MakeKey
  <2>4. eraseImpl(make(kMinVersion, clearing))
    BY <1>5 DEF ClearErases
  <2>5. QED
    BY <2>1, <2>3, <2>4 DEF Erases
<1>6. CASE reset
  BY <1>6 DEF reset
<1>7. CASE clear \/ ClearSkips \/ ClearReturns \/ copyFrom \/ UNCHANGED vars
  BY <1>1, <1>7 DEF clear, ClearSkips, ClearReturns, copyFrom, vars, SameQueue
<1> QED BY <1>2, <1>3, <1>4, <1>5, <1>6, <1>7 DEF Next

LEMMA QueuedIndex ==
  ASSUME SMInv
  PROVE  /\ \A n \in DOMAIN freeIndices : freeIndices[n].index \in Index
         /\ freeIndices \in Seq(Key) /\ Len(freeIndices) \in Nat
         /\ DOMAIN freeIndices = 1 .. Len(freeIndices)
         /\ MinFree \in Nat
BY QueuedFresh, PagesAssumption DEF SMInv, TypeOK

Queued ==
  /\ \A n \in DOMAIN freeIndices : freeIndices[n].index \in Index
  /\ DOMAIN freeIndices = 1 .. Len(freeIndices)

LEMMA QueuedIndexNext == SMInv' => Queued'
<1>1. SMInv => Queued
  BY QueuedIndex DEF Queued
<1> QED BY <1>1, PTL

(* An erasure puts one key behind every other and counts for each of them. *)
LEMMA ErasesKeepWaited ==
  ASSUME DelayInv, SMInv', Erases, Counts, numSlots' # 0
  PROVE  Waited'
<1>1. PICK k \in Key : k.index \in Holding /\ eraseImpl(k)
  BY DEF Erases
<1> DEFINE i == k.index
<1>2. i \in Index /\ ~ meta[i].tombstone /\ numItems \in Nat
  BY <1>1, SlotsAssumption DEF Holding, Key, DelayInv, SMInv, TypeOK
<1>3. /\ meta' = [meta EXCEPT ![i] = Erased(i)]
      /\ numItems' = numItems - 1
      /\ freeIndices' = freeIndices
         \/ \E q : freeIndices' = Append(freeIndices, q) /\ q.index = i /\ q \in Key
  <2>1. eraseImpl(k) /\ meta[i] \in Meta /\ meta[i].version \in 1 .. MaxVersion
    BY <1>1, <1>2 DEF DelayInv, SMInv, TypeOK, Meta
  <2>2. ASSUME ~ Spent(i)
        PROVE  \E q : freeIndices' = Append(freeIndices, q) /\ q.index = i /\ q \in Key
    <3> DEFINE q == clearTagAndUpdateVersion(k, meta[i].version + 1)
               w == (meta[i].version + 1) % VersionMod
    <3>1. w \in 0 .. VersionMod - 1
      <4>1. meta[i].version + 1 \in Nat /\ VersionMod \in Nat /\ VersionMod > 0
        BY <2>1, VersionsAssumption
      <4>2. QED
        BY <4>1
    <3>2. q = [k EXCEPT !.version = w, !.tag = 0]
      BY DEF clearTagAndUpdateVersion
    <3> HIDE DEF w, q
    <3>3. q \in Key /\ q.index = i
      BY <3>1, <3>2, TagsAssumption DEF Key
    <3>4. freeIndices' = Append(freeIndices, q)
      BY <2>1, <2>2 DEF eraseImpl, q
    <3>5. QED
      BY <3>3, <3>4
  <2>3. QED
    BY <2>1, <2>2 DEF eraseImpl
<1>4. \A j \in Index : meta'[j] # meta[j] <=> j = i
  <2>1. Erased(i) # meta[i]
    BY <1>2 DEF Erased, DelayInv, SMInv, TypeOK, Meta
  <2>2. QED
    BY <1>2, <1>3, <2>1 DEF DelayInv, SMInv, TypeOK
<1> HIDE DEF i
<1>5. /\ erasures' \in [Index -> Nat]
      /\ \A j \in Index : erasures'[j] = IF j = i THEN 0
                          ELSE IF erasures[j] < MinFree THEN erasures[j] + 1
                          ELSE MinFree
  <2>1. erasures' = [j \in Index |-> IF meta'[j] # meta[j] THEN 0
                       ELSE IF erasures[j] < MinFree THEN erasures[j] + 1
                       ELSE MinFree]
    BY <1>2, <1>3 DEF Counts
  <2>2. \A j \in Index : erasures[j] \in Nat
    BY DEF DelayInv, Waited
  <2>3. QED
    BY <1>4, <2>1, <2>2, PagesAssumption
<1>6. /\ freeIndices \in Seq(Key) /\ Len(freeIndices) \in Nat
      /\ DOMAIN freeIndices = 1 .. Len(freeIndices) /\ MinFree \in Nat
      /\ \A n \in DOMAIN freeIndices :
           /\ freeIndices[n].index \in Index
           /\ freeIndices[n].index # i
           /\ erasures[freeIndices[n].index] \in Nat
           /\ \/ erasures[freeIndices[n].index] >= MinFree
              \/ erasures[freeIndices[n].index] >= Len(freeIndices) - n
  BY <1>2, QueuedIndex DEF DelayInv, Waited, SMInv, FreeOK
<1> DEFINE l == Len(freeIndices)
<1>7. ASSUME NEW n \in 1 .. l
      PROVE  \/ erasures'[freeIndices[n].index] >= MinFree
             \/ erasures'[freeIndices[n].index] >= l + 1 - n
  <2> DEFINE e == erasures[freeIndices[n].index]
  <2>1. /\ e \in Nat /\ l \in Nat /\ n \in Nat /\ (e >= MinFree \/ e >= l - n)
        /\ erasures'[freeIndices[n].index] =
             IF e < MinFree THEN e + 1 ELSE MinFree
    BY <1>5, <1>6
  <2> HIDE DEF e, l
  <2>2. QED
    BY <1>6, <2>1
<1>8. CASE freeIndices' = freeIndices
  <2>1. ASSUME NEW n \in 1 .. l
        PROVE  \/ erasures'[freeIndices[n].index] >= MinFree
               \/ erasures'[freeIndices[n].index] >= l - n
    <3>1. erasures'[freeIndices[n].index] \in Nat
      BY <1>5, <1>6
    <3> HIDE DEF l
    <3>2. l \in Nat
      BY <1>6 DEF l
    <3>3. QED
      BY <1>7, <3>1, <3>2
  <2>2. QED
    BY <1>5, <1>6, <1>8, <2>1 DEF Waited
<1>9. ASSUME NEW q \in Key, freeIndices' = Append(freeIndices, q), q.index = i
      PROVE  Waited'
  <2>1. /\ Len(freeIndices') = l + 1 /\ DOMAIN freeIndices' = 1 .. l + 1
        /\ \A n \in 1 .. l : freeIndices'[n] = freeIndices[n]
        /\ freeIndices'[l + 1] = q
    BY <1>6, <1>9
  <2>2. erasures'[q.index] = 0 /\ l + 1 - (l + 1) = 0 /\ l \in Nat
    BY <1>2, <1>5, <1>6, <1>9 DEF i
  <2> HIDE DEF l
  <2>3. ASSUME NEW n \in 1 .. l + 1
        PROVE  \/ erasures'[freeIndices'[n].index] >= MinFree
               \/ erasures'[freeIndices'[n].index] >= Len(freeIndices') - n
    <3>1. CASE n \in 1 .. l
      BY <1>7, <2>1, <2>2, <3>1
    <3>2. CASE n = l + 1
      BY <2>1, <2>2, <3>2
    <3>3. QED
      BY <2>2, <3>1, <3>2
  <2>4. QED
    BY <1>5, <2>1, <2>3 DEF Waited
<1> QED BY <1>3, <1>8, <1>9

(* A reuse takes the head, and everyone moves up. *)
LEMMA RecycledKeepsWaited ==
  ASSUME DelayInv, emplaceRecycled, erasures' = erasures
  PROVE  Waited'
<1>1. freeIndices \in Seq(Key) /\ freeIndices # <<>> /\ freeIndices' = Tail(freeIndices)
  BY QueuedIndex DEF emplaceRecycled, Reuses, DelayInv
<1>2. /\ Len(freeIndices') = Len(freeIndices) - 1 /\ Len(freeIndices) \in Nat
      /\ DOMAIN freeIndices' = 1 .. Len(freeIndices) - 1
      /\ \A n \in 1 .. Len(freeIndices) - 1 :
           /\ freeIndices'[n] = freeIndices[n + 1]
           /\ n + 1 \in DOMAIN freeIndices
           /\ Len(freeIndices') - n = Len(freeIndices) - (n + 1)
  BY <1>1
<1> QED BY <1>2 DEF DelayInv, Waited

LEMMA DelayStep ==
  ASSUME DelayInv, [MCNext]_<<vars, erasures>>
  PROVE  DelayInv'
<1>1. [Next]_vars /\ SMInv /\ SMInv'
  BY StepKeeps DEF MCNext, DelayInv
<1>2. CASE UNCHANGED <<vars, erasures>>
  BY <1>1, <1>2 DEF vars, DelayInv, Waited
<1>3. CASE Counts
  <2>1. CASE numSlots' = 0
    <3>1. erasures' = [j \in Index |-> MinFree]
      BY <1>3, <2>1 DEF Counts
    <3>2. \A n \in DOMAIN freeIndices' : erasures'[freeIndices'[n].index] = MinFree
      BY <1>1, <3>1, QueuedIndexNext DEF Queued
    <3>3. QED
      BY <1>1, <3>1, <3>2, PagesAssumption DEF DelayInv, Waited
  <2>2. CASE numSlots' # 0 /\ Erases
    BY <1>1, <1>3, <2>2, ErasesKeepWaited DEF DelayInv
  <2>3. CASE numSlots' # 0 /\ numItems' >= numItems
    <3>1. numItems \in Nat /\ numItems' \in Nat
      BY <1>1 DEF SMInv, TypeOK
    <3>2. erasures' = erasures
      BY <1>3, <2>3, <3>1 DEF Counts
    <3>3. CASE emplaceRecycled
      BY <1>1, <3>2, <3>3, RecycledKeepsWaited DEF DelayInv
    <3>4. CASE SameQueue
      BY <1>1, <3>2, <3>4 DEF SameQueue, DelayInv, Waited
    <3>5. QED
      BY <1>1, <2>2, <2>3, <3>3, <3>4, StepKinds
  <2>4. QED
    BY <1>1, <2>1, <2>2, <2>3, StepKinds DEF SameQueue
<1> QED BY <1>2, <1>3 DEF MCNext

(* The slot at the head of the queue has waited for MinFree erasures, and only
   that one is used again. *)
LEMMA ReusesLate ==
  ASSUME DelayInv, [Next]_vars, NEW i \in Index, i < numSlots, i < numSlots',
         meta[i].tombstone, ~ meta'[i].tombstone
  PROVE  erasures[i] >= MinFree
<1>1. SMInv /\ meta \in [Index -> Meta] /\ i \in Nat
  BY SlotsAssumption DEF DelayInv, SMInv, TypeOK, Index
<1>2. CASE emplaceRecycled
  <2>1. /\ MinFree \in Nat /\ Len(freeIndices) \in Nat /\ Len(freeIndices) > MinFree
        /\ freeIndices \in Seq(Key)
    BY <1>1, <1>2, QueuedIndex DEF emplaceRecycled, Reuses
  <2>2. 1 \in DOMAIN freeIndices /\ Head(freeIndices) = freeIndices[1]
    BY <2>1
  <2>3. /\ erasures[freeIndices[1].index] \in Nat
        /\ \/ erasures[freeIndices[1].index] >= MinFree
           \/ erasures[freeIndices[1].index] >= Len(freeIndices) - 1
    BY <1>1, <2>2, QueuedIndex DEF DelayInv, Waited
  <2>4. meta' = [meta EXCEPT ![freeIndices[1].index].tombstone = FALSE]
    BY <1>2, <2>2 DEF emplaceRecycled
  <2>5. i = freeIndices[1].index
    BY <1>1, <2>4
  <2>6. QED
    BY <2>1, <2>3, <2>5
<1>3. CASE emplaceAppended
  <2>1. meta' = [meta EXCEPT ![numSlots] = NewMeta] /\ i # numSlots
    BY <1>1, <1>3 DEF emplaceAppended, SMInv, TypeOK
  <2>2. QED
    BY <1>1, <2>1
<1>4. CASE reset
  BY <1>1, <1>4 DEF reset
<1>5. ASSUME NEW k, eraseImpl(k) PROVE FALSE
  <2>1. meta' = [meta EXCEPT ![k.index] = Erased(k.index)]
    BY <1>5 DEF eraseImpl
  <2>2. k.index \in Index => Erased(k.index).tombstone
    BY <1>1 DEF Erased, Meta
  <2>3. QED
    BY <1>1, <2>1, <2>2
<1> QED
  BY <1>2, <1>3, <1>4, <1>5
     DEF Next, vars, erase, clear, ClearSkips, ClearErases, ClearReturns, copyFrom

(* ReuseDelayed, for any page size, threshold and version limit: an erased slot is
   used again only after MinFree other erasures, so the keys that were handed out
   for it stay distinct that many times longer; clear and copies, which fill and
   empty the queue, do not shorten the wait. *)
THEOREM ReuseIsDelayed == MCSpec => ReuseDelayed
<1> DEFINE Late == \A i \in Index :
             i < numSlots /\ i < numSlots' /\ meta[i].tombstone /\ ~ meta'[i].tombstone
               => erasures[i] >= MinFree
<1>1. ASSUME MCInit PROVE DelayInv
  <2>1. SMInv
    BY <1>1, InitHolds DEF MCInit
  <2>2. Waited
    BY <1>1, PagesAssumption DEF MCInit, Init, Waited
  <2>3. QED
    BY <2>1, <2>2 DEF DelayInv
<1>2. ASSUME DelayInv, [MCNext]_<<vars, erasures>> PROVE [Late]_vars
  <2>1. [Next]_vars
    BY <1>2 DEF MCNext
  <2>2. QED
    BY <1>2, <2>1, ReusesLate
<1>3. QED
  BY <1>1, <1>2, DelayStep, PTL DEF MCSpec, ReuseDelayed
=============================================================================
