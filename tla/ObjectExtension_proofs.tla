----------------------- MODULE ObjectExtension_proofs -----------------------
(***************************************************************************)
(* What objects' extensions are given is inside the object's block, and    *)
(* apart from each other.                                                  *)
(***************************************************************************)
EXTENDS ObjectExtension, TLAPS

Classes == Subtypes \cup {GENERIC}

(* What has been given away in each class of a type. *)
Totals(t) ==
  [k \in Classes |-> IF k = GENERIC THEN generic_data_size[t] ELSE data_sizes[t][k]]

End(x) == x.data_offset + x.size

Apart(x, y) == End(x) <= y.data_offset \/ End(y) <= x.data_offset

(* Within a class extensions follow one another. *)
LaidOut(s, total) ==
  \A e \in DOMAIN s :
    /\ End(s[e]) <= total[s[e].subtype_index]
    /\ \A f \in DOMAIN s :
         f # e /\ s[f].subtype_index = s[e].subtype_index => Apart(s[e], s[f])

LayoutOK == \A t \in Types : LaidOut(extensions[t], Totals(t))

(* There are no objects while specific data can be registered. *)
ClosedOK == can_register => \A t \in Types : ~ late[t] /\ Live(t) = {}

(* A block is as large as what is registered, which can only grow late. *)
Fits(t, o) ==
  IF o.data_addr = NULL THEN AllocSize(t, o.subtype) = 0
  ELSE heap[o.data_addr] = AllocSize(t, o.subtype)

BlocksFit ==
  \A t \in Types : ~ late[t] => \A h \in Live(t) : Fits(t, extension_data[t][h])

ExtInv == TypeOK /\ LayoutOK /\ ClosedOK /\ BlocksFit /\ BlocksUnshared
-----------------------------------------------------------------------------
LEMMA RoundsUp ==
  ASSUME NEW n \in Nat
  PROVE  round_up_16(n) \in Nat /\ n <= round_up_16(n)
BY DEF round_up_16

LEMMA InfoTypes ==
  ASSUME NEW s \in Seq(ExtensionInfo), NEW e \in DOMAIN s
  PROVE  /\ s[e].subtype_index \in Classes
         /\ s[e].data_offset \in Nat /\ s[e].size \in Nat
<1>1. s[e] \in ExtensionInfo
  OBVIOUS
<1>2. QED
  BY <1>1 DEF ExtensionInfo, Classes

(* A registration takes the place after all others of its class. *)
LEMMA AppendLaidOut ==
  ASSUME NEW s \in Seq(ExtensionInfo), NEW total \in [Classes -> Nat],
         NEW k \in Classes, NEW size \in Nat, LaidOut(s, total),
         NEW x, x = [subtype_index |-> k, data_offset |-> total[k], size |-> size]
  PROVE  /\ Append(s, x) \in Seq(ExtensionInfo)
         /\ LaidOut(Append(s, x), [total EXCEPT ![k] = @ + round_up_16(size)])
<1> DEFINE r == Append(s, x)
           n == Len(s) + 1
           more == [total EXCEPT ![k] = @ + round_up_16(size)]
<1>1. x \in ExtensionInfo
  BY DEF ExtensionInfo, Classes
<1>2. r \in Seq(ExtensionInfo) /\ DOMAIN r = DOMAIN s \cup {n} /\ n \notin DOMAIN s
  BY <1>1
<1>3. r[n] = x /\ \A e \in DOMAIN s : r[e] = s[e]
  BY <1>1
<1>4. round_up_16(size) \in Nat /\ size <= round_up_16(size)
  BY RoundsUp
<1>5. /\ \A j \in Classes : more[j] \in Nat /\ total[j] <= more[j]
      /\ End(x) <= more[k]
  BY <1>4 DEF End
<1>6. ASSUME NEW e \in DOMAIN s
      PROVE  /\ End(s[e]) <= more[s[e].subtype_index]
             /\ s[e].subtype_index = k => Apart(s[e], x) /\ Apart(x, s[e])
  <2>1. End(s[e]) <= total[s[e].subtype_index]
    BY DEF LaidOut
  <2>2. s[e].subtype_index \in Classes /\ End(s[e]) \in Int
    BY InfoTypes DEF End
  <2>3. End(s[e]) <= more[s[e].subtype_index]
    <3>1. PICK j \in Classes : j = s[e].subtype_index
      BY <2>2
    <3>2. total[j] \in Nat /\ more[j] \in Nat /\ total[j] <= more[j]
      BY <1>5
    <3>3. QED
      BY <2>1, <2>2, <3>1, <3>2
  <2>4. QED
    BY <2>1, <2>3 DEF Apart
<1>7. ASSUME NEW e \in DOMAIN r
      PROVE  /\ End(r[e]) <= more[r[e].subtype_index]
             /\ \A f \in DOMAIN r :
                  f # e /\ r[f].subtype_index = r[e].subtype_index => Apart(r[e], r[f])
  <2>1. CASE e = n
    <3>1. r[e] = x /\ x.subtype_index = k
      BY <1>3, <2>1
    <3>2. \A f \in DOMAIN r : f # e => f \in DOMAIN s /\ r[f] = s[f]
      BY <1>2, <1>3, <2>1
    <3>3. QED
      BY <3>1, <3>2, <1>5, <1>6
  <2>2. CASE e \in DOMAIN s
    <3>1. \A f \in DOMAIN s :
            f # e /\ s[f].subtype_index = s[e].subtype_index => Apart(s[e], s[f])
      BY <2>2 DEF LaidOut
    <3>2. x.subtype_index = k
      OBVIOUS
    <3>3. QED
      BY <3>1, <3>2, <2>2, <1>2, <1>3, <1>6
  <2>3. QED
    BY <1>2, <2>1, <2>2
<1>8. LaidOut(r, more)
  BY <1>7 DEF LaidOut
<1>9. QED
  BY <1>2, <1>8

(* What a registration does to the layout of every type. *)
LEMMA ExtendsLaidOut ==
  ASSUME TypeOK, LayoutOK, NEW t \in Types, NEW k \in Classes, NEW size \in Sizes,
         Extends(t, k, Totals(t)[k], size),
         \A u \in Types : Totals(u)' =
           IF u = t THEN [Totals(t) EXCEPT ![k] = @ + round_up_16(size)] ELSE Totals(u)
  PROVE  LayoutOK' /\ extensions' \in [Types -> Seq(ExtensionInfo)]
<1> DEFINE x == [subtype_index |-> k, data_offset |-> Totals(t)[k], size |-> size]
<1>1. Totals(t) \in [Classes -> Nat] /\ size \in Nat
  BY SizesAssumption DEF Totals, TypeOK, Classes
<1>2. extensions[t] \in Seq(ExtensionInfo) /\ LaidOut(extensions[t], Totals(t))
  BY DEF TypeOK, LayoutOK
<1>3. /\ Append(extensions[t], x) \in Seq(ExtensionInfo)
      /\ LaidOut(Append(extensions[t], x),
                 [Totals(t) EXCEPT ![k] = @ + round_up_16(size)])
  BY <1>1, <1>2, AppendLaidOut
<1>4. extensions' = [extensions EXCEPT ![t] = Append(@, x)]
  BY DEF Extends
<1>5. \A u \in Types :
        extensions'[u] = IF u = t THEN Append(extensions[t], x) ELSE extensions[u]
  BY <1>4 DEF TypeOK
<1>6. extensions' \in [Types -> Seq(ExtensionInfo)]
  BY <1>3, <1>4 DEF TypeOK
<1>7. ASSUME NEW u \in Types PROVE LaidOut(extensions'[u], Totals(u)')
  BY <1>3, <1>5 DEF LayoutOK
<1>8. QED
  BY <1>6, <1>7 DEF LayoutOK

(* Steps that leave the registry alone. *)
LEMMA RegistrySame ==
  ASSUME LayoutOK, UNCHANGED registry
  PROVE  LayoutOK' /\ \A t \in Types, s \in Subtypes : AllocSize(t, s)' = AllocSize(t, s)
<1>1. \A t \in Types : Totals(t)' = Totals(t)
  BY DEF registry, Totals
<1>2. QED
  BY <1>1 DEF LayoutOK, registry, AllocSize

(* Steps that leave the objects alone. *)
LEMMA ObjectsSame ==
  ASSUME BlocksUnshared, UNCHANGED <<extension_data, heap>>
  PROVE  BlocksUnshared' /\ \A t \in Types : Live(t)' = Live(t)
BY DEF BlocksUnshared, Live
-----------------------------------------------------------------------------
LEMMA SpecificKeeps ==
  ASSUME ExtInv, NEW t \in Types, NEW s \in Subtypes, NEW size \in Sizes,
         recomp_register_object_extension(t, s, size)
  PROVE  ExtInv'
<1>1. /\ UNCHANGED <<can_register, generic_data_size, extension_data, counters,
                     handed, heap, late>>
  BY DEF recomp_register_object_extension
<1>2. TypeOK /\ LayoutOK /\ ClosedOK /\ BlocksFit /\ BlocksUnshared
  BY DEF ExtInv
<1>3. BlocksUnshared' /\ \A u \in Types : Live(u)' = Live(u)
  BY <1>1, <1>2, ObjectsSame
<1>4. ClosedOK'
  BY <1>1, <1>2, <1>3 DEF ClosedOK
<1>5. CASE ~ can_register
  <2>1. UNCHANGED registry /\ quit' = TRUE
    BY <1>1, <1>5 DEF recomp_register_object_extension, registry
  <2>2. LayoutOK'
    BY <1>2, <2>1, RegistrySame
  <2>3. BlocksFit'
    BY <1>1, <1>2, <1>3, <2>1 DEF BlocksFit, Fits, AllocSize, registry
  <2>4. TypeOK'
    BY <1>1, <1>2, <2>1 DEF TypeOK, registry, counters
  <2>5. QED
    BY <1>3, <1>4, <2>2, <2>3, <2>4 DEF ExtInv
<1>6. CASE can_register
  <2>1. /\ Extends(t, s, data_sizes[t][s], size)
        /\ data_sizes' = [data_sizes EXCEPT ![t][s] = @ + round_up_16(size)]
        /\ UNCHANGED quit
    BY <1>6 DEF recomp_register_object_extension
  <2>2. s \in Classes /\ s # GENERIC /\ size \in Nat
    BY SubtypesAssumption, SizesAssumption DEF Classes, GENERIC
  <2>3. Totals(t)[s] = data_sizes[t][s]
    BY <2>2 DEF Totals
  <2>4. data_sizes \in [Types -> [Subtypes -> Nat]]
    BY <1>2 DEF TypeOK
  <2>5. \A u \in Types, j \in Subtypes :
          data_sizes'[u][j] = IF u = t /\ j = s
                              THEN data_sizes[t][s] + round_up_16(size)
                              ELSE data_sizes[u][j]
    BY <2>1, <2>4
  <2>6. ASSUME NEW u \in Types
        PROVE  Totals(u)' = IF u = t
                            THEN [Totals(t) EXCEPT ![s] = @ + round_up_16(size)]
                            ELSE Totals(u)
    <3>1. CASE u # t
      <4>1. data_sizes'[u] = data_sizes[u]
        BY <2>1, <2>4, <3>1
      <4>2. QED
        BY <1>1, <3>1, <4>1 DEF Totals
    <3>2. CASE u = t
      <4>1. Totals(t)' = [j \in Classes |-> IF j = GENERIC THEN generic_data_size[t]
                                            ELSE data_sizes'[t][j]]
        BY <1>1 DEF Totals
      <4>2. \A j \in Classes : Totals(t)'[j] =
              IF j = s THEN Totals(t)[s] + round_up_16(size) ELSE Totals(t)[j]
        BY <2>2, <2>5, <4>1 DEF Totals, Classes
      <4>3. QED
        BY <2>2, <3>2, <4>1, <4>2 DEF Totals
    <3>3. QED
      BY <3>1, <3>2
  <2>7. LayoutOK' /\ extensions' \in [Types -> Seq(ExtensionInfo)]
    BY <1>2, <2>1, <2>2, <2>3, <2>6, ExtendsLaidOut
  <2>8. data_sizes' \in [Types -> [Subtypes -> Nat]]
    BY <2>1, <2>2, <2>4, RoundsUp
  <2>9. TypeOK'
    BY <1>1, <1>2, <2>1, <2>7, <2>8 DEF TypeOK, counters
  <2>10. BlocksFit'
    BY <1>2, <1>3, <1>6 DEF BlocksFit, ClosedOK
  <2>11. QED
    BY <1>3, <1>4, <2>7, <2>9, <2>10 DEF ExtInv
<1>7. QED
  BY <1>2, <1>5, <1>6 DEF TypeOK

LEMMA GenericKeeps ==
  ASSUME ExtInv, NEW t \in Types, NEW size \in Sizes,
         recomp_register_object_extension_generic(t, size)
  PROVE  ExtInv'
<1>1. /\ Extends(t, GENERIC, generic_data_size[t], size)
      /\ generic_data_size' = [generic_data_size EXCEPT ![t] = @ + round_up_16(size)]
      /\ late' = [late EXCEPT ![t] = @ \/ ~ can_register]
      /\ UNCHANGED <<can_register, data_sizes, extension_data, counters, handed,
                     heap, quit>>
  BY DEF recomp_register_object_extension_generic
<1>2. TypeOK /\ LayoutOK /\ ClosedOK /\ BlocksFit /\ BlocksUnshared
  BY DEF ExtInv
<1>3. BlocksUnshared' /\ \A u \in Types : Live(u)' = Live(u)
  BY <1>1, <1>2, ObjectsSame
<1>4. \A u \in Types : late'[u] = IF u = t THEN late[t] \/ ~ can_register ELSE late[u]
  BY <1>1, <1>2 DEF TypeOK
<1>5. late' \in [Types -> BOOLEAN]
  BY <1>1, <1>2, Zenon DEF TypeOK
<1>6. ClosedOK'
  BY <1>1, <1>2, <1>3, <1>4 DEF ClosedOK
<1>7. \A u \in Types :
        generic_data_size'[u] = IF u = t THEN generic_data_size[t] + round_up_16(size)
                                ELSE generic_data_size[u]
  BY <1>1, <1>2 DEF TypeOK
<1>8. ASSUME NEW u \in Types
      PROVE  Totals(u)' = IF u = t
                          THEN [Totals(t) EXCEPT ![GENERIC] = @ + round_up_16(size)]
                          ELSE Totals(u)
  BY <1>1, <1>7 DEF Totals, Classes
<1>9. GENERIC \in Classes /\ Totals(t)[GENERIC] = generic_data_size[t]
  BY DEF Totals, Classes
<1>10. LayoutOK' /\ extensions' \in [Types -> Seq(ExtensionInfo)]
  BY <1>1, <1>2, <1>8, <1>9, ExtendsLaidOut
<1>11. generic_data_size' \in [Types -> Nat]
  <2>1. size \in Nat
    BY SizesAssumption
  <2>2. round_up_16(size) \in Nat
    BY <2>1, RoundsUp
  <2>3. QED
    BY <1>1, <1>2, <2>2 DEF TypeOK
<1>12. TypeOK'
  BY <1>1, <1>2, <1>5, <1>10, <1>11 DEF TypeOK, counters
<1>13. BlocksFit'
  <2> SUFFICES ASSUME NEW u \in Types, ~ late'[u], NEW h \in Live(u)
               PROVE  Fits(u, extension_data[u][h])'
    BY <1>3 DEF BlocksFit
  <2>1. ~ late[u] /\ u # t
    BY <1>2, <1>4 DEF ClosedOK
  <2>2. generic_data_size'[u] = generic_data_size[u] /\ data_sizes' = data_sizes
    BY <1>1, <1>7, <2>1
  <2>3. Fits(u, extension_data[u][h])
    BY <1>2, <2>1 DEF BlocksFit
  <2>4. QED
    BY <1>1, <2>2, <2>3 DEF Fits, AllocSize
<1>14. QED
  BY <1>3, <1>6, <1>10, <1>12, <1>13 DEF ExtInv

(* The owner of a block is the only one to have it. *)
LEMMA CreationKeeps ==
  ASSUME ExtInv, NEW t \in Types, NEW s \in Subtypes, recomp_create_object_data(t, s)
  PROVE  ExtInv'
<1>1. PICK b \in Blocks \cup {NULL}, h \in Handles \ handed[t] :
        /\ Allocates(t, AllocSize(t, s), b)
        /\ extension_data' = [extension_data EXCEPT ![t][h] =
             [object_spawn_index |-> spawn_count[t], data_addr |-> b, subtype |-> s]]
        /\ handed' = [handed EXCEPT ![t] = @ \cup {h}]
  BY DEF recomp_create_object_data
<1>2. /\ can_register' = FALSE
      /\ spawn_count' = [spawn_count EXCEPT ![t] = @ + 1]
      /\ UNCHANGED <<registry, free_count, quit, late>>
  BY DEF recomp_create_object_data
<1>3. TypeOK /\ LayoutOK /\ BlocksFit /\ BlocksUnshared
  BY DEF ExtInv
<1> DEFINE o == [object_spawn_index |-> spawn_count[t], data_addr |-> b, subtype |-> s]
           size == AllocSize(t, s)
<1>4. o \in ExtensionData /\ o # NoData /\ size \in Nat
  <2>1. o \in ExtensionData
    BY <1>3 DEF ExtensionData, TypeOK
  <2>2. "subtype" \in DOMAIN o /\ "subtype" \notin DOMAIN NoData
    BY DEF NoData
  <2>3. size \in Nat
    BY <1>3 DEF TypeOK, AllocSize
  <2>4. QED
    BY <2>1, <2>2, <2>3
<1>5. \A u \in Types, g \in Handles :
        extension_data'[u][g] = IF u = t /\ g = h THEN o ELSE extension_data[u][g]
  BY <1>1, <1>3 DEF TypeOK
<1>6. \A u \in Types : \A g \in Live(u)' :
        ~ (u = t /\ g = h) => g \in Live(u) /\ extension_data'[u][g] = extension_data[u][g]
  BY <1>5 DEF Live
<1>7. IF size = 0 THEN b = NULL /\ UNCHANGED <<heap, alloc_count>>
      ELSE /\ b \in Blocks /\ b # NULL /\ heap[b] = 0
           /\ heap' = [heap EXCEPT ![b] = size]
           /\ alloc_count' = [alloc_count EXCEPT ![t] = @ + 1]
  BY <1>1, NullAssumption DEF Allocates
<1>8. \A u \in Types : \A g \in Live(u) :
        LET c == extension_data[u][g].data_addr IN
        c # NULL => c \in Blocks /\ heap[c] > 0 /\ c # b /\ heap'[c] = heap[c]
  <2> SUFFICES ASSUME NEW u \in Types, NEW g \in Live(u),
                      extension_data[u][g].data_addr # NULL
               PROVE  LET c == extension_data[u][g].data_addr IN
                      c \in Blocks /\ heap[c] > 0 /\ c # b /\ heap'[c] = heap[c]
    OBVIOUS
  <2>1. extension_data[u][g] \in ExtensionData
    BY <1>3 DEF TypeOK, Live
  <2>2. extension_data[u][g].data_addr \in Blocks
    BY <2>1 DEF ExtensionData
  <2>3. heap[extension_data[u][g].data_addr] > 0
    BY <1>3 DEF BlocksUnshared
  <2>4. QED
    BY <1>3, <1>7, <2>2, <2>3 DEF TypeOK
<1>9. TypeOK'
  <2>1. extension_data' \in [Types -> [Handles -> ExtensionData \cup {NoData}]]
    BY <1>1, <1>3, <1>4 DEF TypeOK
  <2>2. heap' \in [Blocks -> Nat] /\ alloc_count' \in [Types -> Nat]
    <3>1. CASE size = 0
      BY <1>3, <1>7, <3>1 DEF TypeOK
    <3>2. CASE size # 0
      <4>1. heap' = [heap EXCEPT ![b] = size] /\ b \in Blocks
        BY <1>7, <3>2
      <4>2. alloc_count' = [alloc_count EXCEPT ![t] = @ + 1]
        BY <1>7, <3>2
      <4>3. QED
        BY <1>3, <1>4, <4>1, <4>2 DEF TypeOK
    <3>3. QED
      BY <3>1, <3>2
  <2>3. handed' \in [Types -> SUBSET Handles] /\ spawn_count' \in [Types -> Nat]
    BY <1>1, <1>2, <1>3 DEF TypeOK
  <2>4. QED
    BY <1>2, <1>3, <2>1, <2>2, <2>3 DEF TypeOK, registry
<1>10. LayoutOK' /\ \A u \in Types, j \in Subtypes : AllocSize(u, j)' = AllocSize(u, j)
  BY <1>2, <1>3, RegistrySame
<1>11. ClosedOK'
  BY <1>2 DEF ClosedOK
<1>12. BlocksFit'
  <2> SUFFICES ASSUME NEW u \in Types, ~ late[u], NEW g \in Live(u)'
               PROVE  Fits(u, extension_data[u][g])'
    BY <1>2 DEF BlocksFit
  <2>1. CASE u = t /\ g = h
    <3>1. extension_data'[u][g] = o
      BY <1>5, <2>1 DEF Live
    <3>2. IF b = NULL THEN size = 0 ELSE heap'[b] = size
      BY <1>3, <1>7 DEF TypeOK
    <3>3. AllocSize(t, s)' = size
      BY <1>10
    <3>4. QED
      BY <2>1, <3>1, <3>2, <3>3 DEF Fits, AllocSize
  <2>2. CASE ~ (u = t /\ g = h)
    <3>1. g \in Live(u) /\ extension_data'[u][g] = extension_data[u][g]
      BY <1>6, <2>2
    <3>2. Fits(u, extension_data[u][g])
      BY <1>3, <3>1 DEF BlocksFit
    <3>3. QED
      BY <1>2, <1>8, <3>1, <3>2 DEF Fits, AllocSize, registry
  <2>3. QED
    BY <2>1, <2>2
<1>13. BlocksUnshared'
  <2> SUFFICES ASSUME NEW u \in Types, NEW v \in Types,
                      NEW g \in Live(u)', NEW k \in Live(v)',
                      extension_data'[u][g].data_addr # NULL
               PROVE  /\ heap'[extension_data'[u][g].data_addr] > 0
                      /\ extension_data'[v][k].data_addr = extension_data'[u][g].data_addr
                           => <<u, g>> = <<v, k>>
    BY DEF BlocksUnshared
  <2>1. CASE u = t /\ g = h
    <3>1. extension_data'[u][g] = o /\ b # NULL /\ heap'[b] > 0
      BY <1>3, <1>4, <1>5, <1>7, <2>1 DEF Live, TypeOK
    <3>2. QED
      BY <1>6, <1>8, <2>1, <3>1
  <2>2. CASE ~ (u = t /\ g = h) /\ v = t /\ k = h
    <3>1. extension_data'[v][k] = o
      BY <1>5, <2>2 DEF Live
    <3>2. QED
      BY <1>6, <1>8, <2>2, <3>1
  <2>3. CASE ~ (u = t /\ g = h) /\ ~ (v = t /\ k = h)
    BY <1>3, <1>6, <1>8, <2>3 DEF BlocksUnshared
  <2>4. QED
    BY <2>1, <2>2, <2>3
<1>14. QED
  BY <1>9, <1>10, <1>11, <1>12, <1>13 DEF ExtInv

LEMMA DestructionKeeps ==
  ASSUME ExtInv, NEW t \in Types, NEW h \in Handles, recomp_destroy_object_data(t, h)
  PROVE  ExtInv'
<1> DEFINE b == extension_data[t][h].data_addr
<1>1. /\ h \in Live(t)
      /\ heap' = [c \in Blocks |-> IF c = b THEN 0 ELSE heap[c]]
      /\ free_count' = [free_count EXCEPT ![t] = @ + (IF b = NULL THEN 0 ELSE 1)]
      /\ extension_data' = [extension_data EXCEPT ![t][h] = NoData]
      /\ UNCHANGED <<can_register, registry, spawn_count, alloc_count, handed, quit,
                     late>>
  BY DEF recomp_destroy_object_data
<1>2. TypeOK /\ LayoutOK /\ ClosedOK /\ BlocksFit /\ BlocksUnshared
  BY DEF ExtInv
<1>3. \A u \in Types, g \in Handles :
        extension_data'[u][g] = IF u = t /\ g = h THEN NoData ELSE extension_data[u][g]
  BY <1>1, <1>2 DEF TypeOK
<1>4. \A u \in Types : \A g \in Live(u)' :
        /\ g \in Live(u) /\ <<u, g>> # <<t, h>>
        /\ extension_data'[u][g] = extension_data[u][g]
  BY <1>3 DEF Live
<1>5. ASSUME NEW u \in Types, NEW g \in Live(u)', extension_data[u][g].data_addr # NULL
      PROVE  LET c == extension_data[u][g].data_addr IN c \in Blocks /\ heap'[c] = heap[c]
  <2>1. g \in Live(u) /\ <<u, g>> # <<t, h>>
    BY <1>4
  <2>2. extension_data[u][g].data_addr \in Blocks
    <3>1. extension_data[u][g] \in ExtensionData
      BY <1>2, <2>1 DEF TypeOK, Live
    <3>2. QED
      BY <1>5, <3>1 DEF ExtensionData
  <2>3. extension_data[u][g].data_addr # b
    BY <1>1, <1>2, <1>5, <2>1 DEF BlocksUnshared
  <2>4. QED
    BY <1>1, <2>2, <2>3
<1>6. TypeOK'
  <2>1. extension_data' \in [Types -> [Handles -> ExtensionData \cup {NoData}]]
    BY <1>1, <1>2 DEF TypeOK
  <2>2. heap' \in [Blocks -> Nat] /\ free_count' \in [Types -> Nat]
    BY <1>1, <1>2 DEF TypeOK
  <2>3. QED
    BY <1>1, <1>2, <2>1, <2>2 DEF TypeOK, registry
<1>7. LayoutOK'
  BY <1>1, <1>2, RegistrySame
<1>8. ClosedOK'
  BY <1>1, <1>2, <1>4 DEF ClosedOK
<1>9. BlocksFit'
  <2> SUFFICES ASSUME NEW u \in Types, ~ late[u], NEW g \in Live(u)'
               PROVE  Fits(u, extension_data[u][g])'
    BY <1>1 DEF BlocksFit
  <2>1. g \in Live(u) /\ extension_data'[u][g] = extension_data[u][g]
    BY <1>4
  <2>2. Fits(u, extension_data[u][g])
    BY <1>2, <2>1 DEF BlocksFit
  <2>3. QED
    BY <1>1, <1>5, <2>1, <2>2 DEF Fits, AllocSize, registry
<1>10. BlocksUnshared'
  BY <1>2, <1>4, <1>5 DEF BlocksUnshared
<1>11. QED
  BY <1>6, <1>7, <1>8, <1>9, <1>10 DEF ExtInv

LEMMA ClearKeeps ==
  ASSUME ExtInv, NEW t \in Types, recomp_clear_all_object_data(t)
  PROVE  ExtInv'
<1>1. /\ extension_data' = [extension_data EXCEPT ![t] = [h \in Handles |-> NoData]]
      /\ handed' = [handed EXCEPT ![t] = {}]
      /\ spawn_count' = [spawn_count EXCEPT ![t] = 0]
      /\ alloc_count' = [alloc_count EXCEPT ![t] = 0]
      /\ free_count' = [free_count EXCEPT ![t] = 0]
      /\ UNCHANGED <<can_register, registry, heap, quit, late>>
  BY DEF recomp_clear_all_object_data
<1>2. TypeOK /\ LayoutOK /\ ClosedOK /\ BlocksFit /\ BlocksUnshared
  BY DEF ExtInv
<1>3. \A u \in Types, g \in Handles :
        extension_data'[u][g] = IF u = t THEN NoData ELSE extension_data[u][g]
  BY <1>1, <1>2 DEF TypeOK
<1>4. \A u \in Types : \A g \in Live(u)' :
        g \in Live(u) /\ extension_data'[u][g] = extension_data[u][g]
  BY <1>3 DEF Live
<1>5. TypeOK'
  BY <1>1, <1>2 DEF TypeOK, registry
<1>6. LayoutOK'
  BY <1>1, <1>2, RegistrySame
<1>7. ClosedOK'
  BY <1>1, <1>2, <1>4 DEF ClosedOK
<1>8. BlocksFit'
  <2> SUFFICES ASSUME NEW u \in Types, ~ late[u], NEW g \in Live(u)'
               PROVE  Fits(u, extension_data[u][g])'
    BY <1>1 DEF BlocksFit
  <2>1. g \in Live(u) /\ extension_data'[u][g] = extension_data[u][g]
    BY <1>4
  <2>2. Fits(u, extension_data[u][g])
    BY <1>2, <2>1 DEF BlocksFit
  <2>3. QED
    BY <1>1, <2>1, <2>2 DEF Fits, AllocSize, registry
<1>9. BlocksUnshared'
  BY <1>1, <1>2, <1>4 DEF BlocksUnshared
<1>10. QED
  BY <1>5, <1>6, <1>7, <1>8, <1>9 DEF ExtInv
-----------------------------------------------------------------------------
LEMMA ExtInvHolds == Spec => []ExtInv
<1>1. Init => ExtInv
  <2> SUFFICES ASSUME Init PROVE ExtInv
    OBVIOUS
  <2>1. \A t \in Types : Live(t) = {} /\ extensions[t] = <<>> /\ ~ late[t]
    BY DEF Init, Live
  <2>2. TypeOK
    <3>1. <<>> \in Seq(ExtensionInfo)
      OBVIOUS
    <3>2. extensions \in [Types -> Seq(ExtensionInfo)]
      BY <3>1, Zenon DEF Init
    <3>3. handed \in [Types -> SUBSET Handles] /\ late \in [Types -> BOOLEAN]
      BY DEF Init
    <3>4. heap \in [Blocks -> Nat]
      BY DEF Init
    <3>5. data_sizes \in [Types -> [Subtypes -> Nat]]
      BY DEF Init
    <3>6. extension_data \in [Types -> [Handles -> ExtensionData \cup {NoData}]]
      BY DEF Init
    <3>7. QED
      BY <3>2, <3>3, <3>4, <3>5, <3>6 DEF Init, TypeOK
  <2>3. QED
    BY <2>1, <2>2 DEF ExtInv, LayoutOK, LaidOut, ClosedOK, BlocksFit, BlocksUnshared
<1>2. ExtInv /\ [Next]_vars => ExtInv'
  <2> SUFFICES ASSUME ExtInv, [Next]_vars PROVE ExtInv'
    OBVIOUS
  <2>1. ASSUME NEW t \in Types, NEW s \in Subtypes, NEW size \in Sizes,
               recomp_register_object_extension(t, s, size)
        PROVE  ExtInv'
    BY <2>1, SpecificKeeps
  <2>2. ASSUME NEW t \in Types, NEW size \in Sizes,
               recomp_register_object_extension_generic(t, size)
        PROVE  ExtInv'
    BY <2>2, GenericKeeps
  <2>3. ASSUME NEW t \in Types, NEW s \in Subtypes, recomp_create_object_data(t, s)
        PROVE  ExtInv'
    BY <2>3, CreationKeeps
  <2>4. ASSUME NEW t \in Types, NEW h \in Handles, recomp_destroy_object_data(t, h)
        PROVE  ExtInv'
    BY <2>4, DestructionKeeps
  <2>5. ASSUME NEW t \in Types, recomp_clear_all_object_data(t)
        PROVE  ExtInv'
    BY <2>5, ClearKeeps
  <2>6. CASE UNCHANGED vars
    <3>1. UNCHANGED registry /\ UNCHANGED <<extension_data, heap, can_register, late>>
      BY <2>6 DEF vars
    <3>2. TypeOK'
      BY <2>6 DEF vars, registry, counters, TypeOK, ExtInv
    <3>3. BlocksUnshared' /\ \A t \in Types : Live(t)' = Live(t)
      BY <3>1, ObjectsSame DEF ExtInv
    <3>4. LayoutOK'
      BY <3>1, RegistrySame DEF ExtInv
    <3>5. ClosedOK' /\ BlocksFit'
      BY <3>1, <3>3 DEF ExtInv, ClosedOK, BlocksFit, Fits, AllocSize, registry
    <3>6. QED
      BY <3>2, <3>3, <3>4, <3>5 DEF ExtInv
  <2>7. QED
    BY <2>1, <2>2, <2>3, <2>4, <2>5, <2>6 DEF Next
<1>3. QED
  BY <1>1, <1>2, PTL DEF Spec
-----------------------------------------------------------------------------
(* Bytes given to two extensions that are laid out apart are disjoint. *)
LEMMA ApartRanges ==
  ASSUME NEW a \in Nat, NEW b \in Nat, NEW m \in Nat, NEW n \in Nat,
         a + m <= b \/ b + n <= a
  PROVE  (a .. a + m - 1) \cap (b .. b + n - 1) = {}
OBVIOUS

LEMMA InvInside ==
  ASSUME ExtInv, NEW t \in Types, ~ late[t]
  PROVE  DataInside(t)
<1> DEFINE X(e) == extensions[t][e]
           G == generic_data_size[t]
<1>1. TypeOK /\ LayoutOK /\ BlocksFit
  BY DEF ExtInv
<1>2. extensions[t] \in Seq(ExtensionInfo) /\ LaidOut(extensions[t], Totals(t))
  BY <1>1 DEF TypeOK, LayoutOK
<1>3. G \in Nat /\ \A s \in Subtypes : data_sizes[t][s] \in Nat
  BY <1>1 DEF TypeOK
<1>4. ASSUME NEW e \in Registered(t)
      PROVE  /\ X(e).subtype_index \in Classes
             /\ X(e).data_offset \in Nat /\ X(e).size \in Nat
             /\ Offset(t, e) \in Nat
             /\ X(e).data_offset + X(e).size <= Totals(t)[X(e).subtype_index]
  <2>1. e \in DOMAIN extensions[t]
    BY DEF Registered
  <2>2. /\ X(e).subtype_index \in Classes
        /\ X(e).data_offset \in Nat /\ X(e).size \in Nat
    BY <1>2, <2>1, InfoTypes
  <2>3. X(e).data_offset + X(e).size <= Totals(t)[X(e).subtype_index]
    BY <1>2, <2>1 DEF LaidOut, End
  <2>4. Offset(t, e) \in Nat
    BY <1>3, <2>2 DEF Offset
  <2>5. QED
    BY <2>2, <2>3, <2>4
<1>5. ASSUME NEW s \in Subtypes, NEW e \in Registered(t), Applies(t, s, e)
      PROVE  /\ Offset(t, e) + X(e).size <= AllocSize(t, s)
             /\ X(e).subtype_index = GENERIC => Offset(t, e) + X(e).size <= G
             /\ X(e).subtype_index # GENERIC => G <= Offset(t, e)
  <2>1. CASE X(e).subtype_index = GENERIC
    <3>1. Totals(t)[X(e).subtype_index] = G
      BY <2>1 DEF Totals, Classes
    <3>2. QED
      BY <1>3, <1>4, <2>1, <3>1 DEF Offset, AllocSize
  <2>2. CASE X(e).subtype_index # GENERIC
    <3>1. X(e).subtype_index = s
      BY <1>5, <2>2 DEF Applies
    <3>2. Totals(t)[X(e).subtype_index] = data_sizes[t][s]
      BY <2>2, <3>1 DEF Totals, Classes
    <3>3. QED
      BY <1>3, <1>4, <2>2, <3>2 DEF Offset, AllocSize
  <2>3. QED
    BY <2>1, <2>2
<1>6. ASSUME NEW s \in Subtypes, NEW e \in Registered(t), NEW f \in Registered(t),
             Applies(t, s, e), Applies(t, s, f), f # e
      PROVE  Range(t, e) \cap Range(t, f) = {}
  <2>1. \/ Offset(t, e) + X(e).size <= Offset(t, f)
        \/ Offset(t, f) + X(f).size <= Offset(t, e)
    <3>1. CASE X(e).subtype_index = X(f).subtype_index
      <4>1. Apart(X(e), X(f))
        BY <1>2, <1>6, <3>1 DEF LaidOut, Registered
      <4>2. QED
        BY <1>3, <1>4, <3>1, <4>1 DEF Apart, End, Offset
    <3>2. CASE X(e).subtype_index = GENERIC /\ X(f).subtype_index # GENERIC
      BY <1>3, <1>4, <1>5, <1>6, <3>2
    <3>3. CASE X(e).subtype_index # GENERIC /\ X(f).subtype_index = GENERIC
      BY <1>3, <1>4, <1>5, <1>6, <3>3
    <3>4. QED
      BY <1>6, <3>1, <3>2, <3>3 DEF Applies
  <2>2. QED
    BY <1>4, <2>1, ApartRanges DEF Range
<1>7. ASSUME NEW h \in Live(t), NEW e \in Registered(t),
             Applies(t, extension_data[t][h].subtype, e), X(e).size > 0
      PROVE  /\ extension_data[t][h].data_addr # NULL
             /\ Offset(t, e) + X(e).size <= heap[extension_data[t][h].data_addr]
  <2>1. extension_data[t][h].subtype \in Subtypes
    <3>1. extension_data[t][h] \in ExtensionData
      BY <1>1 DEF TypeOK, Live
    <3>2. QED
      BY <3>1 DEF ExtensionData
  <2>2. Offset(t, e) + X(e).size <= AllocSize(t, extension_data[t][h].subtype)
    BY <1>5, <1>7, <2>1
  <2>3. Fits(t, extension_data[t][h])
    BY <1>1 DEF BlocksFit
  <2>4. QED
    BY <1>4, <1>7, <2>2, <2>3 DEF Fits
<1>8. \A h \in Live(t) : extension_data[t][h].subtype \in Subtypes
  <2> SUFFICES ASSUME NEW h \in Live(t) PROVE extension_data[t][h].subtype \in Subtypes
    OBVIOUS
  <2>1. extension_data[t][h] \in ExtensionData
    BY <1>1 DEF TypeOK, Live
  <2>2. QED
    BY <2>1 DEF ExtensionData
<1>9. QED
  BY <1>6, <1>7, <1>8 DEF DataInside

(* register_object_extension and create_object_data: every object's extensions
   have room of their own in a block that is only that object's, unless generic
   data was registered after the first object. *)
THEOREM ExtensionsInside == Spec => []DataInsideUnlessLate
<1>1. ExtInv => DataInsideUnlessLate
  BY InvInside DEF DataInsideUnlessLate
<1>2. QED
  BY <1>1, ExtInvHolds, PTL

(* create_object_data and destroy_object_data: no two objects share a block, and
   no object's block is free. *)
THEOREM BlocksOwned == Spec => []BlocksUnshared
<1>1. ExtInv => BlocksUnshared
  BY DEF ExtInv
<1>2. QED
  BY <1>1, ExtInvHolds, PTL
=============================================================================
