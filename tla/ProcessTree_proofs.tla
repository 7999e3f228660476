-------------------------- MODULE ProcessTree_proofs --------------------------
(***************************************************************************)
(* Proofs about parents and children, for any number of processes and any  *)
(* callers, although children outlive their parents and addresses are      *)
(* recycled under them: the sibling pointers stay valid, the recursion of  *)
(* KillChildProcess ends unless it comes to a stray (MCProcessTree), and a *)
(* parent keeps its children but where NewestForgotten says.               *)
(***************************************************************************)
EXTENDS ProcessLife_proofs, MCProcessTree

(* SiblingsOK and what it needs, of a memory m whose processes are L. *)
Siblings(m, L) ==
  /\ \A x \in L : m[x].relative # NULL =>
       LET o == m[x].parent_oldest_child  n == m[x].new_process IN
       /\ o # NULL => /\ o \in L
                      /\ m[o].relative = m[x].relative
                      /\ m[o].new_process = x
       /\ n # NULL => /\ n \in L
                      /\ m[n].relative = m[x].relative
                      /\ m[n].parent_oldest_child = x
  /\ \A p \in L : m[p].oldest_child # NULL =>
       LET c == m[p].oldest_child IN
       c \in L /\ m[c].relative = p /\ m[c].new_process = NULL

(* Among the children of any parents there is an oldest one. *)
OlderEnds(m, L) ==
  \A S \in SUBSET L :
    S # {} /\ (\A x \in S : m[x].relative # NULL) =>
      \E x \in S : m[x].parent_oldest_child \notin S

(* And a newest one. *)
NewerEnds(m, L) ==
  \A S \in SUBSET L :
    S # {} /\ (\A x \in S : m[x].relative # NULL) =>
      \E x \in S : m[x].new_process \notin S

Families(m, L) == Siblings(m, L) /\ OlderEnds(m, L) /\ NewerEnds(m, L)

(* n is m with the same relatives and siblings, and perhaps without some pointers
   to children. *)
SameFamilies(n, m) ==
  \A x \in Proc :
    /\ n[x].relative = m[x].relative
    /\ n[x].parent_oldest_child = m[x].parent_oldest_child
    /\ n[x].new_process = m[x].new_process
    /\ n[x].oldest_child \in {m[x].oldest_child, NULL}

LEMMA SameKeepsFamilies ==
  ASSUME NEW m, NEW n, NEW L \in SUBSET Proc, Families(m, L), SameFamilies(n, m)
  PROVE  Families(n, L)
<1>1. Siblings(n, L)
  BY DEF Families, Siblings, SameFamilies
<1>2. OlderEnds(n, L)
  BY DEF Families, OlderEnds, SameFamilies
<1>3. NewerEnds(n, L)
  BY DEF Families, NewerEnds, SameFamilies
<1> QED BY <1>1, <1>2, <1>3 DEF Families

LEMMA UnlinkKeepsFamilies ==
  ASSUME NEW m \in Memory, NEW L \in SUBSET Proc, Families(m, L), NEW p \in L
  PROVE  Families(UnlinkedChild(m, p), L)
<1> DEFINE v == UnlinkedChild(m, p)
           r == m[p].relative
           o == m[p].parent_oldest_child
           n == m[p].new_process
<1>1. CASE r = NULL
  BY <1>1 DEF UnlinkedChild
<1>2. CASE r # NULL
  <2>1. \A x \in Proc :
          /\ v[x].relative = IF x = p THEN NULL ELSE m[x].relative
          /\ v[x].oldest_child =
               IF n = NULL /\ x = r THEN o ELSE m[x].oldest_child
          /\ v[x].parent_oldest_child = IF x = n THEN o ELSE m[x].parent_oldest_child
          /\ v[x].new_process = IF x = o THEN n ELSE m[x].new_process
    BY <1>2, UnlinkedChildFields
  <2>2. /\ Siblings(m, L) /\ OlderEnds(m, L) /\ NewerEnds(m, L)
        /\ NULL \notin Proc
    BY RuntimeAssumption DEF Families
  <2> HIDE DEF v
  <2>3. /\ o # NULL => o \in L /\ m[o].relative = r /\ m[o].new_process = p
        /\ n # NULL => n \in L /\ m[n].relative = r /\ m[n].parent_oldest_child = p
    BY <1>2, <2>2 DEF Siblings
  <2>4. ASSUME NEW x \in L, v[x].relative # NULL
        PROVE  LET a == v[x].parent_oldest_child  b == v[x].new_process IN
               /\ a # NULL => a \in L /\ v[a].relative = v[x].relative
                                /\ v[a].new_process = x
               /\ b # NULL => b \in L /\ v[b].relative = v[x].relative
                                /\ v[b].parent_oldest_child = x
    <3>1. x # p /\ x \in Proc /\ m[x].relative # NULL /\ v[x].relative = m[x].relative
      BY <2>1, <2>4
    <3> DEFINE c == m[x].parent_oldest_child
               d == m[x].new_process
    <3>2. /\ c # NULL => c \in L /\ m[c].relative = m[x].relative /\ m[c].new_process = x
          /\ d # NULL => d \in L /\ m[d].relative = m[x].relative
                           /\ m[d].parent_oldest_child = x
      BY <2>2, <3>1 DEF Siblings
    <3>3. /\ v[x].parent_oldest_child = IF x = n THEN o ELSE c
          /\ v[x].new_process = IF x = o THEN n ELSE d
      BY <2>1, <3>1
    <3> HIDE DEF c, d, n, o, r
    <3>4. ASSUME x = n, o # NULL
          PROVE  o \in L /\ v[o].relative = v[x].relative /\ v[o].new_process = x
      <4>1. m[x].relative = r /\ o \in L /\ m[o].relative = r
        BY <2>2, <2>3, <3>1, <3>4
      <4>2. o # p
        BY <2>2, <2>3, <3>1, <3>4 DEF n
      <4>3. v[o].relative = r /\ v[o].new_process = n
        BY <2>1, <2>2, <4>1, <4>2
      <4>4. QED
        BY <3>1, <3>4, <4>1, <4>3
    <3>5. ASSUME x # n, c # NULL
          PROVE  c \in L /\ v[c].relative = v[x].relative /\ v[c].new_process = x
      BY <2>1, <2>2, <2>3, <3>1, <3>2, <3>5 DEF n
    <3>6. ASSUME x = o, n # NULL
          PROVE  n \in L /\ v[n].relative = v[x].relative /\ v[n].parent_oldest_child = x
      <4>1. m[x].relative = r /\ n \in L /\ m[n].relative = r
        BY <2>2, <2>3, <3>1, <3>6
      <4>2. n # p
        BY <2>2, <2>3, <3>1, <3>6 DEF o
      <4>3. v[n].relative = r /\ v[n].parent_oldest_child = o
        BY <2>1, <2>2, <4>1, <4>2
      <4>4. QED
        BY <3>1, <3>6, <4>1, <4>3
    <3>7. ASSUME x # o, d # NULL
          PROVE  d \in L /\ v[d].relative = v[x].relative /\ v[d].parent_oldest_child = x
      BY <2>1, <2>2, <2>3, <3>1, <3>2, <3>7 DEF o
    <3>8. QED
      BY <3>3, <3>4, <3>5, <3>6, <3>7
  <2>5. ASSUME NEW q \in L, v[q].oldest_child # NULL
        PROVE  LET c == v[q].oldest_child IN
               c \in L /\ v[c].relative = q /\ v[c].new_process = NULL
    <3>1. CASE n = NULL /\ q = r
      BY <2>1, <2>2, <2>3, <2>5, <3>1
    <3>2. CASE ~ (n = NULL /\ q = r)
      <4> DEFINE c == m[q].oldest_child
      <4>1. v[q].oldest_child = c /\ c # NULL
        BY <2>1, <2>5, <3>2
      <4>2. c \in L /\ m[c].relative = q /\ m[c].new_process = NULL
        BY <2>2, <4>1 DEF Siblings
      <4>3. c # p /\ c # o
        BY <2>2, <2>3, <3>2, <4>1, <4>2
      <4> HIDE DEF c, n, o, r
      <4>4. v[c].relative = q /\ v[c].new_process = NULL
        BY <2>1, <4>2, <4>3
      <4>5. QED
        BY <4>1, <4>2, <4>4
    <3>3. QED
      BY <3>1, <3>2
  <2>6. Siblings(v, L)
    BY <2>4, <2>5 DEF Siblings
  <2>7. OlderEnds(v, L)
    <3>1. SUFFICES ASSUME NEW S \in SUBSET L, S # {},
                          \A x \in S : v[x].relative # NULL,
                          \A x \in S : v[x].parent_oldest_child \in S
                   PROVE  FALSE
      BY DEF OlderEnds
    <3>2. p \notin S /\ \A x \in S : m[x].relative # NULL
      BY <2>1, <3>1
    <3>3. CASE n \notin S
      <4>1. \A x \in S : m[x].parent_oldest_child \in S
        BY <2>1, <3>1, <3>3
      <4>2. QED
        BY <2>2, <3>1, <3>2, <4>1 DEF OlderEnds
    <3>4. CASE n \in S
      <4> DEFINE T == S \cup {p}
      <4>1. o \in S
        BY <2>1, <3>1, <3>4
      <4>2. m[n].parent_oldest_child = p
        BY <2>2, <2>3, <3>4
      <4>3. \A x \in T : m[x].relative # NULL /\ m[x].parent_oldest_child \in T
        BY <1>2, <2>1, <3>1, <3>2, <4>1, <4>2
      <4>4. T \in SUBSET L /\ T # {}
        OBVIOUS
      <4>5. QED
        BY <2>2, <4>3, <4>4 DEF OlderEnds
    <3>5. QED
      BY <3>3, <3>4
  <2>8. NewerEnds(v, L)
    <3>1. SUFFICES ASSUME NEW S \in SUBSET L, S # {},
                          \A x \in S : v[x].relative # NULL,
                          \A x \in S : v[x].new_process \in S
                   PROVE  FALSE
      BY DEF NewerEnds
    <3>2. p \notin S /\ \A x \in S : m[x].relative # NULL
      BY <2>1, <3>1
    <3>3. CASE o \notin S
      <4>1. \A x \in S : m[x].new_process \in S
        BY <2>1, <3>1, <3>3
      <4>2. QED
        BY <2>2, <3>1, <3>2, <4>1 DEF NewerEnds
    <3>4. CASE o \in S
      <4> DEFINE T == S \cup {p}
      <4>1. n \in S
        BY <2>1, <3>1, <3>4
      <4>2. m[o].new_process = p
        BY <2>2, <2>3, <3>4
      <4>3. \A x \in T : m[x].relative # NULL /\ m[x].new_process \in T
        BY <1>2, <2>1, <3>1, <3>2, <4>1, <4>2
      <4>4. T \in SUBSET L /\ T # {}
        OBVIOUS
      <4>5. QED
        BY <2>2, <4>3, <4>4 DEF NewerEnds
    <3>5. QED
      BY <3>3, <3>4
  <2>9. QED
    BY <2>6, <2>7, <2>8 DEF Families, v
<1> QED BY <1>1, <1>2

(* A process may be linked below any other, and even below itself. *)
LEMMA LinkKeepsFamilies ==
  ASSUME NEW m \in Memory, NEW L \in SUBSET Proc, Families(m, L),
         NEW root \in L, NEW child \in L
  PROVE  Families(LinkedChild(m, root, child), L)
<1> DEFINE u == UnlinkedChild(m, child)
           v == LinkedChild(m, root, child)
           o == u[root].oldest_child
<1>1. /\ Families(u, L) /\ u[child].relative = NULL
      /\ \A x \in Proc : u[x].relative \in {m[x].relative, NULL}
  <2>1. Families(u, L)
    BY UnlinkKeepsFamilies
  <2>2. u[child].relative = NULL
    BY UnlinkedChildKeeps
  <2>3. CASE m[child].relative = NULL
    BY <2>3, <2>1, <2>2 DEF UnlinkedChild
  <2>4. CASE m[child].relative # NULL
    BY <2>1, <2>2, <2>4, UnlinkedChildFields
  <2>5. QED
    BY <2>3, <2>4
<1>2. \A x \in Proc :
        /\ v[x].relative = IF x = child THEN root ELSE u[x].relative
        /\ v[x].oldest_child = IF x = root THEN child ELSE u[x].oldest_child
        /\ v[x].parent_oldest_child =
             IF x = child THEN o ELSE u[x].parent_oldest_child
        /\ v[x].new_process =
             IF x = child THEN NULL ELSE IF x = o THEN child ELSE u[x].new_process
  BY LinkedChildFields
<1> HIDE DEF u, v
<1>3. /\ Siblings(u, L) /\ OlderEnds(u, L) /\ NewerEnds(u, L)
      /\ NULL \notin Proc
  BY <1>1, RuntimeAssumption DEF Families
<1>4. root # NULL /\ child # NULL
  BY <1>3
<1>5. o # NULL => o \in L /\ o # child /\ u[o].relative = root /\ u[o].new_process = NULL
  BY <1>1, <1>3, <1>4 DEF Siblings
<1> HIDE DEF o
<1>6. ASSUME NEW x \in L, v[x].relative # NULL
      PROVE  LET a == v[x].parent_oldest_child  b == v[x].new_process IN
             /\ a # NULL => a \in L /\ v[a].relative = v[x].relative /\ v[a].new_process = x
             /\ b # NULL => b \in L /\ v[b].relative = v[x].relative
                              /\ v[b].parent_oldest_child = x
  <2>1. CASE x = child
    <3>1. /\ v[x].relative = root /\ v[x].parent_oldest_child = o
          /\ v[x].new_process = NULL
      BY <1>2, <2>1
    <3>2. o # NULL => v[o].relative = root /\ v[o].new_process = child
      BY <1>2, <1>5
    <3>3. QED
      BY <1>5, <2>1, <3>1, <3>2
  <2>2. CASE x # child
    <3> DEFINE a == u[x].parent_oldest_child
               b == u[x].new_process
    <3>1. /\ x \in Proc /\ u[x].relative # NULL /\ v[x].relative = u[x].relative
          /\ v[x].parent_oldest_child = a
          /\ v[x].new_process = IF x = o THEN child ELSE b
      BY <1>2, <1>6, <2>2
    <3>2. /\ a # NULL => a \in L /\ u[a].relative = u[x].relative /\ u[a].new_process = x
          /\ b # NULL => b \in L /\ u[b].relative = u[x].relative
                           /\ u[b].parent_oldest_child = x
      BY <1>3, <3>1 DEF Siblings
    <3> HIDE DEF a, b
    <3>3. ASSUME a # NULL
          PROVE  a \in L /\ v[a].relative = v[x].relative /\ v[a].new_process = x
      <4>1. a # child /\ a # o
        BY <1>1, <1>3, <1>5, <3>1, <3>2, <3>3
      <4>2. QED
        BY <1>2, <3>1, <3>2, <3>3, <4>1
    <3>4. ASSUME x = o
          PROVE  v[child].relative = v[x].relative /\ v[child].parent_oldest_child = x
      BY <1>2, <1>3, <1>5, <3>1, <3>4
    <3>5. ASSUME x # o, b # NULL
          PROVE  b \in L /\ v[b].relative = v[x].relative /\ v[b].parent_oldest_child = x
      <4>1. b # child
        BY <1>1, <3>1, <3>2, <3>5
      <4>2. QED
        BY <1>2, <3>1, <3>2, <3>5, <4>1
    <3>6. QED
      BY <3>1, <3>3, <3>4, <3>5
  <2>3. QED
    BY <2>1, <2>2
<1>7. ASSUME NEW q \in L, v[q].oldest_child # NULL
      PROVE  LET c == v[q].oldest_child IN
             c \in L /\ v[c].relative = q /\ v[c].new_process = NULL
  <2>1. CASE q = root
    BY <1>2, <2>1
  <2>2. CASE q # root
    <3> DEFINE c == u[q].oldest_child
    <3>1. v[q].oldest_child = c /\ c # NULL
      BY <1>2, <1>7, <2>2
    <3>2. c \in L /\ u[c].relative = q /\ u[c].new_process = NULL
      BY <1>3, <3>1 DEF Siblings
    <3>3. c # child /\ c # o
      BY <1>1, <1>3, <1>5, <2>2, <3>1, <3>2
    <3> HIDE DEF c
    <3>4. QED
      BY <1>2, <3>1, <3>2, <3>3
  <2>3. QED
    BY <2>1, <2>2
<1>8. Siblings(v, L)
  BY <1>6, <1>7 DEF Siblings
<1>9. OlderEnds(v, L)
  <2>1. SUFFICES ASSUME NEW S \in SUBSET L, S # {},
                        \A x \in S : v[x].relative # NULL,
                        \A x \in S : v[x].parent_oldest_child \in S
                 PROVE  FALSE
    BY DEF OlderEnds
  <2> DEFINE T == S \ {child}
  <2>2. T # {}
    <3>1. child \in S => o \in S /\ o # NULL
      BY <1>2, <1>3, <2>1
    <3>2. QED
      BY <1>5, <2>1, <3>1
  <2>3. \A x \in T : u[x].relative # NULL /\ u[x].parent_oldest_child \in T
    <3>1. TAKE x \in T
    <3>2. u[x].relative # NULL /\ u[x].parent_oldest_child \in S
      BY <1>2, <2>1
    <3>3. u[x].parent_oldest_child # child
      BY <1>1, <1>3, <1>4, <3>2 DEF Siblings
    <3>4. QED
      BY <3>2, <3>3
  <2>4. T \in SUBSET L
    OBVIOUS
  <2>5. QED
    BY <1>3, <2>2, <2>3, <2>4 DEF OlderEnds
<1>10. NewerEnds(v, L)
  <2>1. SUFFICES ASSUME NEW S \in SUBSET L, S # {},
                        \A x \in S : v[x].relative # NULL,
                        \A x \in S : v[x].new_process \in S
                 PROVE  FALSE
    BY DEF NewerEnds
  <2>2. child \notin S
    BY <1>2, <1>3, <2>1
  <2>3. o \notin S
    BY <1>2, <1>3, <1>5, <2>1, <2>2
  <2>4. \A x \in S : u[x].relative # NULL /\ u[x].new_process \in S
    BY <1>2, <2>1, <2>2, <2>3
  <2>5. QED
    BY <1>3, <2>1, <2>4 DEF NewerEnds
<1> QED BY <1>8, <1>9, <1>10 DEF Families, v

-----------------------------------------------------------------------------
(***************************************************************************)
(* What the other list functions do to the families.                       *)
(***************************************************************************)
LEMMA SameTreeKeepsFamilies ==
  ASSUME NEW m, NEW n, NEW L \in SUBSET Proc, Families(m, L),
         \A x \in Proc : SameTree(n[x], m[x])
  PROVE  Families(n, L)
BY SameKeepsFamilies DEF SameFamilies, SameTree

(* A struct that is no child of anyone may be made a new one: it then has no
   relatives and no children, although others may still name its address as
   their parent. *)
LEMMA BlankKeepsFamilies ==
  ASSUME NEW m, NEW n, NEW L \in SUBSET Proc, Families(m, L), NEW p \in Proc,
         p \in L => m[p].relative = NULL, NEW prio, SameTree(n[p], Fresh(prio)),
         \A x \in Proc \ {p} : SameTree(n[x], m[x])
  PROVE  Families(n, L \cup {p}) /\ Families(n, L \ {p})
<1>1. /\ Siblings(m, L) /\ OlderEnds(m, L) /\ NewerEnds(m, L)
      /\ NULL \notin Proc
  BY RuntimeAssumption DEF Families
<1>2. n[p].relative = NULL /\ n[p].oldest_child = NULL
  BY DEF SameTree, Fresh
<1>3. \A x \in Proc \ {p} :
        /\ n[x].relative = m[x].relative
        /\ n[x].oldest_child = m[x].oldest_child
        /\ n[x].parent_oldest_child = m[x].parent_oldest_child
        /\ n[x].new_process = m[x].new_process
  BY DEF SameTree
<1>4. ASSUME NEW x \in L \cup {p}, n[x].relative # NULL
      PROVE  LET o == n[x].parent_oldest_child  c == n[x].new_process IN
             /\ o # NULL => o \in L \ {p} /\ n[o].relative = n[x].relative
                              /\ n[o].new_process = x
             /\ c # NULL => c \in L \ {p} /\ n[c].relative = n[x].relative
                              /\ n[c].parent_oldest_child = x
  <2>1. x \in L /\ x # p /\ x \in Proc
    BY <1>2, <1>4
  <2> DEFINE o == m[x].parent_oldest_child
             c == m[x].new_process
  <2>2. /\ m[x].relative # NULL
        /\ o # NULL => o \in L /\ m[o].relative = m[x].relative /\ m[o].new_process = x
        /\ c # NULL => c \in L /\ m[c].relative = m[x].relative
                         /\ m[c].parent_oldest_child = x
    BY <1>1, <1>3, <1>4, <2>1 DEF Siblings
  <2>3. /\ n[x].parent_oldest_child = o /\ n[x].new_process = c
        /\ n[x].relative = m[x].relative
    BY <1>3, <2>1
  <2> HIDE DEF o, c
  <2>4. (o # NULL => o # p) /\ (c # NULL => c # p)
    BY <2>2
  <2>5. QED
    BY <1>3, <2>2, <2>3, <2>4
<1>5. ASSUME NEW q \in L \cup {p}, n[q].oldest_child # NULL
      PROVE  LET c == n[q].oldest_child IN
             c \in L \ {p} /\ n[c].relative = q /\ n[c].new_process = NULL
  <2> DEFINE c == m[q].oldest_child
  <2>1. q \in L /\ q # p /\ n[q].oldest_child = c /\ c # NULL /\ q # NULL
    BY <1>1, <1>2, <1>3, <1>5
  <2>2. c \in L /\ m[c].relative = q /\ m[c].new_process = NULL
    BY <1>1, <2>1 DEF Siblings
  <2> HIDE DEF c
  <2>3. c # p
    BY <2>1, <2>2
  <2>4. QED
    BY <1>3, <2>1, <2>2, <2>3
<1>6. Siblings(n, L \cup {p}) /\ Siblings(n, L \ {p})
  BY <1>4, <1>5 DEF Siblings
<1>7. OlderEnds(n, L \cup {p}) /\ OlderEnds(n, L \ {p})
  <2>1. SUFFICES ASSUME NEW S \in SUBSET (L \cup {p}), S # {},
                        \A x \in S : n[x].relative # NULL
                 PROVE  \E x \in S : n[x].parent_oldest_child \notin S
    BY DEF OlderEnds
  <2>2. p \notin S /\ S \in SUBSET L
    BY <1>2, <2>1
  <2>3. \A x \in S : m[x].relative # NULL
    BY <1>3, <2>1, <2>2
  <2>4. PICK x \in S : m[x].parent_oldest_child \notin S
    BY <1>1, <2>1, <2>2, <2>3 DEF OlderEnds
  <2>5. QED
    BY <1>3, <2>2, <2>4
<1>8. NewerEnds(n, L \cup {p}) /\ NewerEnds(n, L \ {p})
  <2>1. SUFFICES ASSUME NEW S \in SUBSET (L \cup {p}), S # {},
                        \A x \in S : n[x].relative # NULL
                 PROVE  \E x \in S : n[x].new_process \notin S
    BY DEF NewerEnds
  <2>2. p \notin S /\ S \in SUBSET L
    BY <1>2, <2>1
  <2>3. \A x \in S : m[x].relative # NULL
    BY <1>3, <2>1, <2>2
  <2>4. PICK x \in S : m[x].new_process \notin S
    BY <1>1, <2>1, <2>2, <2>3 DEF NewerEnds
  <2>5. QED
    BY <1>3, <2>2, <2>4
<1> QED BY <1>6, <1>7, <1>8 DEF Families

LEMMA ChildrenKilledKeepsFamilies ==
  ASSUME NEW m \in Memory, NEW L \in SUBSET Proc, Families(m, L), NEW p \in Proc
  PROVE  ChildrenKilled(m, p) \in Memory /\ Families(ChildrenKilled(m, p), L)
<1> DEFINE c == ChildrenKilled(m, p)
<1>1. c \in Memory /\ SameFamilies(c, m)
  BY ChildrenKilledFields DEF SameFamilies
<1> HIDE DEF c
<1>2. Families(c, L)
  BY <1>1, SameKeepsFamilies
<1> QED BY <1>1, <1>2 DEF c

(* A process whose children were killed and which was unlinked, as in KillProcess
   and EndProcess. *)
LEMMA LeavesFamilies ==
  ASSUME NEW m \in Memory, NEW L \in SUBSET Proc, Families(m, L), NEW p \in L
  PROVE  LET u == UnlinkedChild(ChildrenKilled(m, p), p) IN
         /\ u \in Memory /\ Families(u, L) /\ u[p].relative = NULL
         /\ \A x \in Proc : u[x].relative \in {m[x].relative, NULL}
<1> DEFINE c == ChildrenKilled(m, p)
           u == UnlinkedChild(c, p)
<1>1. c \in Memory /\ Families(c, L)
  BY ChildrenKilledKeepsFamilies
<1>2. \A x \in Proc : c[x].relative = m[x].relative
  BY ChildrenKilledFields
<1> HIDE DEF c
<1>3. u \in Memory /\ Families(u, L) /\ u[p].relative = NULL
  BY <1>1, UnlinkKeepsFamilies, UnlinkedChildKeeps
<1>4. \A x \in Proc : u[x].relative \in {c[x].relative, NULL}
  <2>1. CASE c[p].relative = NULL
    BY <2>1 DEF UnlinkedChild
  <2>2. CASE c[p].relative # NULL
    BY <1>1, <2>2, UnlinkedChildFields
  <2>3. QED
    BY <2>1, <2>2
<1> HIDE DEF u
<1>5. QED
  BY <1>2, <1>3, <1>4 DEF u, c

LEMMA KilledKeepsFamilies ==
  ASSUME NEW m \in Memory, NEW L \in SUBSET Proc, Families(m, L), NEW p \in L
  PROVE  /\ Families(Killed(m, p), L)
         /\ \A x \in Proc : Killed(m, p)[x].relative \in {m[x].relative, NULL}
<1> DEFINE u == UnlinkedChild(ChildrenKilled(m, p), p)
           v == Killed(m, p)
<1>1. /\ u \in Memory /\ Families(u, L)
      /\ \A x \in Proc : u[x].relative \in {m[x].relative, NULL}
  BY LeavesFamilies
<1>2. v = [x \in Proc |-> IF x = p THEN KillMarked(u[x]) ELSE u[x]]
  BY DEF Killed
<1> HIDE DEF u, v
<1>3. \A x \in Proc : u[x] \in Struct
  BY <1>1 DEF Memory
<1>4. \A x \in Proc : SameTree(v[x], u[x])
  BY <1>2, <1>3, KillMarkedMode, SameStruct DEF OnlyMode
<1>5. Families(v, L)
  BY <1>1, <1>4, SameTreeKeepsFamilies
<1>6. \A x \in Proc : v[x].relative = u[x].relative
  BY <1>4 DEF SameTree
<1> QED BY <1>1, <1>5, <1>6 DEF v

-----------------------------------------------------------------------------
(***************************************************************************)
(* The invariant, and the steps that leave the families alone.             *)
(***************************************************************************)
(* A process whose destructor runs, or that is about to be freed, is no child
   any more: EndProcess has unlinked it, and nobody may link it again. *)
Detached ==
  /\ \A x \in live : cont[x] = "destructor" => proc[x].relative = NULL
  /\ g_pending_heap_free # NULL => proc[g_pending_heap_free].relative = NULL

(* Families strengthens SiblingsOK by the order of the siblings, which keeps the
   loop of KillChildProcess finite.  A freed struct must be nobody's sibling, so
   Detached belongs to it. *)
TreeInv == ProcInv /\ Families(proc, live) /\ Detached

(* No process is created, freed, or begins or ends its destructor, but for a
   killed one, which may be dropped in the middle of it. *)
NoneEnds ==
  /\ live' = live
  /\ g_pending_heap_free' = g_pending_heap_free
  /\ \A x \in live :
       /\ cont'[x] = "destructor" => cont[x] = "destructor"
       /\ cont[x] = "destructor" /\ ~ Dead(proc[x]) => cont'[x] = "destructor"

NoTreeChange == NoneEnds /\ \A x \in Proc : SameTree(proc'[x], proc[x])

LEMMA SameSteps ==
  ASSUME TreeInv, NoneEnds, SameFamilies(proc', proc)
  PROVE  Families(proc, live)' /\ Detached'
<1>1. live \subseteq Proc /\ g_pending_heap_free \in Ref
  BY Types DEF TreeInv
<1>2. Families(proc', live')
  BY <1>1, SameKeepsFamilies DEF TreeInv, NoneEnds
<1>3. Detached'
  BY <1>1 DEF TreeInv, Detached, NoneEnds, SameFamilies, Ref
<1> QED BY <1>2, <1>3

LEMMA SameTreeSteps ==
  ASSUME TreeInv, NoTreeChange
  PROVE  Families(proc, live)' /\ Detached'
BY SameSteps DEF SameFamilies, SameTree, NoTreeChange

(* Calls on one mode or on the modes of a range of priorities. *)
LEMMA TimesOutModes ==
  ASSUME proc \in Memory, live \subseteq Proc, TimesOut
  PROVE  CallOnStructs(proc') /\ \A x \in Proc : OnlyMode(proc'[x], proc[x])
<1>1. ASSUME NEW m, CallOnStructs(m),
             \A x \in Proc : \/ m[x] = proc[x]
                            \/ m[x] = Woken(proc[x])
                            \/ \E t \in Int : m[x] = Slept(proc[x], t)
      PROVE  CallOnStructs(proc') /\ \A x \in Proc : OnlyMode(proc'[x], proc[x])
  <2>1. ASSUME NEW x \in Proc PROVE OnlyMode(m[x], proc[x])
    BY <1>1, SameStruct, WokenMode, SleptMode DEF Memory
  <2>2. QED
    BY <1>1, <2>1 DEF CallOnStructs
<1>2. ASSUME NEW p \in live, WakeupProcess(p)
      PROVE  CallOnStructs(proc') /\ \A x \in Proc : OnlyMode(proc'[x], proc[x])
  <2> DEFINE m == [proc EXCEPT ![p] = Woken(@)]
  <2>1. CallOnStructs(m) /\ \A x \in Proc : m[x] = proc[x] \/ m[x] = Woken(proc[x])
    BY <1>2 DEF WakeupProcess, Memory
  <2> HIDE DEF m
  <2>2. QED
    BY <1>1, <2>1
<1>3. ASSUME NEW p \in live, NEW t \in SleepTimes, SleepProcessP(p, t)
      PROVE  CallOnStructs(proc') /\ \A x \in Proc : OnlyMode(proc'[x], proc[x])
  <2> DEFINE m == [proc EXCEPT ![p] = Slept(@, t)]
  <2>1. /\ CallOnStructs(m) /\ t \in Int
        /\ \A x \in Proc : m[x] = proc[x] \/ m[x] = Slept(proc[x], t)
    BY <1>3, TimesAssumption DEF SleepProcessP, Memory
  <2> HIDE DEF m
  <2>2. QED
    BY <1>1, <2>1
<1>4. ASSUME NEW lo \in Priorities, NEW hi \in Priorities,
             WakeupPrioProcess(lo, hi)
      PROVE  CallOnStructs(proc') /\ \A x \in Proc : OnlyMode(proc'[x], proc[x])
  <2> DEFINE m == [x \in Proc |-> IF x \in live /\ InRange(x, lo, hi)
                                  THEN Woken(proc[x]) ELSE proc[x]]
  <2>1. CallOnStructs(m) /\ \A x \in Proc : m[x] = proc[x] \/ m[x] = Woken(proc[x])
    BY <1>4 DEF WakeupPrioProcess
  <2> HIDE DEF m
  <2>2. QED
    BY <1>1, <2>1
<1>5. ASSUME NEW lo \in Priorities, NEW hi \in Priorities,
             NEW t \in SleepTimes, SleepPrioProcess(lo, hi, t)
      PROVE  CallOnStructs(proc') /\ \A x \in Proc : OnlyMode(proc'[x], proc[x])
  <2> DEFINE m == [x \in Proc |-> IF x \in live /\ InRange(x, lo, hi)
                                  THEN Slept(proc[x], t) ELSE proc[x]]
  <2>1. /\ CallOnStructs(m) /\ t \in Int
        /\ \A x \in Proc : m[x] = proc[x] \/ m[x] = Slept(proc[x], t)
    BY <1>5, TimesAssumption DEF SleepPrioProcess
  <2> HIDE DEF m
  <2>2. QED
    BY <1>1, <2>1
<1> QED BY <1>2, <1>3, <1>4, <1>5 DEF TimesOut

LEMMA CallsEndNone ==
  ASSUME NEW m, CallOnStructs(m)
  PROVE  NoneEnds /\ proc' = m
BY DEF NoneEnds, CallOnStructs, CallLeaves, listVars, heapVars

LEMMA KillChildrenKeepsTree ==
  ASSUME TreeInv, NEW p \in live, KillChildProcess(p)
  PROVE  Families(proc, live)' /\ Detached'
<1>1. proc \in Memory /\ live \subseteq Proc
  BY Types DEF TreeInv
<1>2. SameFamilies(ChildrenKilled(proc, p), proc)
  BY <1>1, ChildrenKilledFields DEF SameFamilies
<1>3. NoneEnds /\ proc' = ChildrenKilled(proc, p)
  BY CallsEndNone DEF KillChildProcess
<1> QED BY <1>2, <1>3, SameSteps

LEMMA CallsSameTree ==
  ASSUME TreeInv, (\E d \in Destructors : SetProcessDestruct(d)) \/ TimesOut
  PROVE  NoTreeChange
<1>1. proc \in Memory /\ live \subseteq Proc
  BY Types DEF TreeInv
<1>2. CASE \E d \in Destructors : SetProcessDestruct(d)
  <2>1. PICK d \in Destructors : SetProcessDestruct(d)
    BY <1>2
  <2>2. NoneEnds /\ proc' = [proc EXCEPT ![current_process].destructor = d]
    BY <2>1, CallsEndNone DEF SetProcessDestruct
  <2>3. \A x \in Proc : SameTree(proc'[x], proc[x])
    BY <1>1, <2>2 DEF Memory, Struct, SameTree
  <2>4. QED
    BY <2>2, <2>3 DEF NoTreeChange
<1>3. CASE TimesOut
  BY <1>1, <1>3, TimesOutModes, CallsEndNone DEF OnlyMode, NoTreeChange
<1> QED BY <1>2, <1>3

LEMMA PassesSameTree ==
  ASSUME TreeInv,
         \/ InitProcess
         \/ \E lo, hi \in Priorities : lo <= hi /\ KillPrioProcess(lo, hi)
         \/ KillPrioReturn
         \/ \E t \in Ticks : CallProcess(t)
         \/ PassEnds
         \/ VisitPaused \/ VisitSleeping \/ VisitWatching \/ VisitWatched
         \/ VisitDefault \/ VisitDead \/ RunProcess \/ ProcessYielded
  PROVE  NoTreeChange
<1>1. proc \in Memory /\ live \subseteq Proc
  BY Types DEF TreeInv
<1>2. CASE NoneEnds /\ proc' = proc
  BY <1>2 DEF NoTreeChange, SameTree
<1>3. ASSUME NEW mode, Visits(mode)
      PROVE  /\ current_process \in Proc /\ live' = live
             /\ g_pending_heap_free' = g_pending_heap_free
             /\ time \in Int
  BY <1>3, Types DEF Visits, listVars, heapVars, TreeInv, ProcInv, TypeOK
<1>4. ASSUME NEW s, current_process \in Proc, NoneEnds,
             proc' = [proc EXCEPT ![current_process] = s],
             SameTree(s, proc[current_process])
      PROVE  NoTreeChange
  <2>1. \A x \in Proc : SameTree(proc'[x], proc[x])
    BY <1>1, <1>4 DEF Memory, SameTree
  <2>2. QED
    BY <1>4, <2>1 DEF NoTreeChange
<1>5. CASE VisitSleeping
  <2>1. /\ current_process \in Proc /\ time \in Int /\ NoneEnds
        /\ proc' = [proc EXCEPT ![current_process] = Ticked(@)]
    BY <1>3, <1>5 DEF VisitSleeping, StepsOver, NoneEnds
  <2>2. SameTree(Ticked(proc[current_process]), proc[current_process])
    BY <1>1, <2>1, TickedMode DEF OnlyMode, Memory
  <2>3. QED
    BY <1>4, <2>1, <2>2
<1>6. CASE VisitWatched
  <2> DEFINE s == [proc[current_process] EXCEPT !.exec_mode = "DEFAULT"]
  <2>1. current_process \in Proc /\ NoneEnds
        /\ proc' = [proc EXCEPT ![current_process] = s]
    BY <1>3, <1>6 DEF VisitWatched, NoneEnds
  <2>2. SameTree(s, proc[current_process])
    BY <1>1, <2>1 DEF SameTree, Memory, Struct
  <2> HIDE DEF s
  <2>3. QED
    BY <1>4, <2>1, <2>2
<1>7. CASE VisitDead
  <2> DEFINE s == [proc[current_process] EXCEPT !.func = "EndProcess"]
  <2>1. /\ current_process \in Proc /\ live' = live
        /\ Dead(proc[current_process])
        /\ g_pending_heap_free' = g_pending_heap_free
        /\ proc' = [proc EXCEPT ![current_process] = s]
        /\ cont' = [cont EXCEPT ![current_process] = "none"]
    BY <1>3, <1>7 DEF VisitDead, Visits, Dead
  <2>2. NoneEnds
    BY <1>1, <2>1 DEF NoneEnds, TreeInv, ProcInv, TypeOK
  <2>3. SameTree(s, proc[current_process])
    BY <1>1, <2>1 DEF SameTree, Memory, Struct
  <2> HIDE DEF s
  <2>4. QED
    BY <1>4, <2>1, <2>2, <2>3
<1>8. CASE RunProcess
  <2>1. current_process \in Proc
    BY <1>8, Types DEF RunProcess, TreeInv, ProcInv, ControlOK
  <2>2. proc[current_process].func \in {"body", "EndProcess"}
    BY <1>1, <2>1, MemoryFields, EntryAssumption
  <2>3. NoneEnds /\ proc' = proc
    BY <1>1, <1>8, <2>1, <2>2, AllListed
       DEF RunProcess, NoneEnds, listVars, TreeInv, ProcInv, TypeOK
  <2>4. QED
    BY <1>2, <2>3
<1>9. CASE InitProcess
  BY <1>2, <1>9, AllListed DEF InitProcess, NoneEnds, TreeInv
<1>10. CASE \/ ProcessYielded \/ PassEnds \/ KillPrioReturn
            \/ \E lo, hi \in Priorities : lo <= hi /\ KillPrioProcess(lo, hi)
            \/ \E t \in Ticks : CallProcess(t)
  BY <1>2, <1>10 DEF ProcessYielded, PassEnds, KillPrioProcess, NoneEnds,
       KillPrioReturn, CallProcess, listVars, heapVars
<1>11. CASE VisitPaused \/ VisitWatching \/ VisitDefault
  BY <1>2, <1>11 DEF VisitPaused, VisitWatching, VisitDefault, NoneEnds,
       Visits, StepsOver, listVars, heapVars
<1> QED BY <1>5, <1>6, <1>7, <1>8, <1>9, <1>10, <1>11

(* A process that goes to sleep or starts to watch. *)
LEMMA PausesSameTree ==
  ASSUME TreeInv, \/ \E t \in SleepTimes \cup {0} : SleepProcess(t)
                  \/ WatchChildProcess
  PROVE  NoTreeChange
<1>1. proc \in Memory /\ live \subseteq Proc /\ NoneEnds
  BY Types DEF TreeInv, SleepProcess, WatchChildProcess, yield_to_scheduler,
     NoneEnds, listVars
<1>2. \A x \in Proc : SameTree(proc'[x], proc[x])
  <2>1. CASE \E t \in SleepTimes \cup {0} : SleepProcess(t)
    <3>1. PICK t \in SleepTimes \cup {0} : SleepProcess(t)
      BY <2>1
    <3>2. t \in Int /\ "SLEEPING" \in ExecMode
      BY TimesAssumption DEF ExecMode
    <3>3. ASSUME NEW r \in Struct
          PROVE  SameTree(WithMode(r, "SLEEPING", t), r) /\ SameTree(r, r)
      BY <3>2, WithModeFields DEF SameTree
    <3> DEFINE s == WithMode(proc[current_process], "SLEEPING", t)
    <3>4. proc' = proc \/ proc' = [proc EXCEPT ![current_process] = s]
      BY <3>1 DEF SleepProcess
    <3>5. current_process \in Proc => SameTree(s, proc[current_process])
      BY <1>1, <3>3 DEF Memory
    <3> HIDE DEF s
    <3>6. QED
      BY <1>1, <3>3, <3>4, <3>5 DEF Memory
  <2>2. CASE WatchChildProcess
    BY <1>1, <2>2 DEF WatchChildProcess, Memory, Struct, SameTree
  <2>3. QED
    BY <2>1, <2>2
<1> QED BY <1>1, <1>2 DEF NoTreeChange

-----------------------------------------------------------------------------
(***************************************************************************)
(* Steps that change the families.                                         *)
(***************************************************************************)
LEMMA FewerSteps ==
  ASSUME TreeInv, NoneEnds, Families(proc', live),
         \A x \in Proc : proc'[x].relative \in {proc[x].relative, NULL}
  PROVE  Families(proc, live)' /\ Detached'
<1>1. live \subseteq Proc /\ g_pending_heap_free \in Ref
  BY Types DEF TreeInv
<1>2. Detached'
  BY <1>1 DEF TreeInv, Detached, NoneEnds, Ref
<1>3. Families(proc', live')
  BY DEF NoneEnds
<1> QED BY <1>2, <1>3

LEMMA KillsKeepTree ==
  ASSUME TreeInv, (\E p \in live : KillProcess(p)) \/ KillPrioIteration
  PROVE  Families(proc, live)' /\ Detached'
<1>1. proc \in Memory /\ live \in SUBSET Proc /\ Families(proc, live)
  BY Types DEF TreeInv
<1>2. ASSUME NEW p \in live, NoneEnds, proc' = Killed(proc, p)
      PROVE  Families(proc, live)' /\ Detached'
  <2>1. /\ Families(Killed(proc, p), live)
        /\ \A x \in Proc : Killed(proc, p)[x].relative \in {proc[x].relative, NULL}
    BY <1>1, KilledKeepsFamilies
  <2>2. QED
    BY <1>2, <2>1, FewerSteps
<1>3. CASE \E p \in live : KillProcess(p)
  BY <1>2, <1>3, CallsEndNone DEF KillProcess
<1>4. CASE KillPrioIteration
  <2>1. sweep.at \in live
    BY <1>4 DEF KillPrioIteration, TreeInv, ProcInv, CursorLive, Listed
  <2>2. NoneEnds /\ (proc' = Killed(proc, sweep.at) \/ proc' = proc)
    BY <1>4 DEF KillPrioIteration, NoneEnds, listVars, heapVars
  <2>3. QED
    BY <1>2, <2>1, <2>2, SameTreeSteps DEF SameTree, NoTreeChange
<1> QED BY <1>3, <1>4

(* Linking gives nobody but the child another parent. *)
LEMMA LinkedRelatives ==
  ASSUME NEW m \in Memory, NEW root \in Proc, NEW child \in Proc
  PROVE  \A x \in Proc \ {child} :
           LinkedChild(m, root, child)[x].relative \in {m[x].relative, NULL}
<1> DEFINE u == UnlinkedChild(m, child)
<1>1. \A x \in Proc : u[x].relative \in {m[x].relative, NULL}
  <2>1. CASE m[child].relative = NULL
    BY <2>1 DEF UnlinkedChild
  <2>2. CASE m[child].relative # NULL
    BY <2>2, UnlinkedChildFields
  <2>3. QED
    BY <2>1, <2>2
<1>2. \A x \in Proc \ {child} :
        LinkedChild(m, root, child)[x].relative = u[x].relative
  BY LinkedChildFields
<1> QED BY <1>1, <1>2

LEMMA CallingFacts ==
  ASSUME TreeInv, Calling
  PROVE  /\ proc \in Memory /\ live \in SUBSET Proc /\ NULL \notin Proc
         /\ Families(proc, live)
         /\ g_pending_heap_free = NULL
         /\ \A x \in Proc \ live : cont[x] = "none"
<1>1. pc # "returned"
  BY DEF Calling, InCode
<1>2. g_pending_heap_free = NULL
  BY <1>1, AllListed DEF TreeInv
<1>3. \A x \in Proc \ live : cont[x] = "none"
  BY DEF TreeInv, ProcInv, SlotsMatchProcesses
<1> QED BY <1>2, <1>3, Types DEF TreeInv

LEMMA LinksKeepTree ==
  ASSUME TreeInv, NEW root \in live, NEW child \in live,
         LinkChildProcess(root, child)
  PROVE  Families(proc, live)' /\ Detached'
<1> DEFINE v == LinkedChild(proc, root, child)
<1>1. /\ Calling /\ live' = live /\ cont' = cont
      /\ g_pending_heap_free' = g_pending_heap_free /\ proc' = v
      /\ cont[child] # "destructor"
  BY DEF LinkChildProcess, MayLink, CallOnStructs, CallLeaves, listVars, heapVars
<1>2. /\ proc \in Memory /\ live \in SUBSET Proc /\ Families(proc, live)
      /\ g_pending_heap_free = NULL
  BY <1>1, CallingFacts
<1>4. Families(v, live)
  BY <1>1, <1>2, LinkKeepsFamilies
<1>5. \A x \in Proc \ {child} : v[x].relative \in {proc[x].relative, NULL}
  BY <1>2, LinkedRelatives
<1> HIDE DEF v
<1>6. Detached'
  BY <1>1, <1>2, <1>5 DEF Detached, TreeInv
<1>7. Families(proc', live')
  BY <1>1, <1>4
<1> QED BY <1>6, <1>7

LEMMA CreatesKeepTree ==
  ASSUME TreeInv, Creates
  PROVE  Families(proc, live)' /\ Detached'
<1>1. PICK p \in Proc, prio \in Priorities, s \in live \cup {NULL} :
        /\ Allocates(p, prio, s)
        /\ \/ proc' = CreatedProcess(p, prio, s)
           \/ \E root \in live :
                /\ MayLink(root, p)
                /\ proc' = LinkedChild(CreatedProcess(p, prio, s), root, p)
  BY DEF Creates, CreateProcess, CreateChildProcess
<1>2. /\ Calling /\ p \notin live /\ live' = live \cup {p} /\ cont' = cont
      /\ g_pending_heap_free' = g_pending_heap_free
  BY <1>1 DEF Allocates, CallLeaves, heapVars
<1>3. /\ proc \in Memory /\ live \in SUBSET Proc /\ Families(proc, live)
      /\ g_pending_heap_free = NULL /\ cont[p] = "none" /\ NULL \notin Proc
  BY <1>2, CallingFacts
<1> DEFINE v == CreatedProcess(p, prio, s)
<1>4. /\ v \in Memory /\ SameTree(v[p], Fresh(prio))
      /\ \A x \in Proc \ {p} : SameTree(v[x], proc[x])
  <2>1. prio \in Nat /\ s \in Ref /\ s # p /\ top_process \in Ref
    BY <1>2, <1>3, PrioritiesAssumption, Types DEF Ref, TreeInv
  <2>2. QED
    BY <1>3, <2>1, CreatedFields
<1>5. Families(v, live \cup {p})
  BY <1>2, <1>3, <1>4, BlankKeepsFamilies
<1>6. \A x \in Proc \ {p} : v[x].relative = proc[x].relative
  BY <1>4 DEF SameTree
<1> HIDE DEF v
<1>7. CASE proc' = v
  <2>1. Detached'
    BY <1>2, <1>3, <1>6, <1>7 DEF Detached, TreeInv
  <2>2. Families(proc', live')
    BY <1>2, <1>5, <1>7
  <2>3. QED
    BY <2>1, <2>2
<1>8. ASSUME NEW root \in live, MayLink(root, p), proc' = LinkedChild(v, root, p)
      PROVE  Families(proc, live)' /\ Detached'
  <2> DEFINE w == LinkedChild(v, root, p)
  <2>3. live \cup {p} \in SUBSET Proc /\ root \in live \cup {p} /\ p \in live \cup {p}
    BY <1>3
  <2>4. Families(w, live \cup {p})
    BY <1>4, <1>5, <2>3, LinkKeepsFamilies
  <2>5. \A x \in Proc \ {p} : w[x].relative \in {v[x].relative, NULL}
    BY <1>3, <1>4, LinkedRelatives
  <2> HIDE DEF w
  <2>6. Detached'
    <3>1. proc' = w
      BY <1>8 DEF w
    <3>2. \A x \in live : proc'[x].relative \in {proc[x].relative, NULL}
      BY <1>2, <1>3, <1>6, <2>5, <3>1
    <3>3. QED
      BY <1>2, <1>3, <3>2 DEF Detached, TreeInv
  <2>7. Families(proc', live')
    BY <1>2, <1>8, <2>4 DEF w
  <2>8. QED
    BY <2>6, <2>7
<1>9. QED
  BY <1>1, <1>7, <1>8 DEF v

(* The end of a process: it leaves its family, runs its destructor, and leaves the
   main list. *)
LEMMA TerminatesTree ==
  ASSUME TreeInv, NEW m \in Memory, Families(m, live), current_process \in live,
         m[current_process].relative = NULL,
         \A x \in Proc : m[x].relative \in {proc[x].relative, NULL},
         Terminates(m)
  PROVE  Families(proc, live)' /\ Detached'
<1>1. live \in SUBSET Proc
  BY Types DEF TreeInv
<1>2. /\ proc' = UnlinkedProcess(m, current_process) /\ live' = live
      /\ cont' = cont /\ g_pending_heap_free' = current_process
  BY DEF Terminates, yield_to_scheduler
<1>3. \A x \in Proc : SameTree(proc'[x], m[x])
  BY <1>1, <1>2, UnlinkedProcessFields
<1>4. Families(proc', live')
  BY <1>1, <1>2, <1>3, SameTreeKeepsFamilies
<1>5. \A x \in Proc : proc'[x].relative = m[x].relative
  BY <1>3 DEF SameTree
<1>6. Detached'
  BY <1>1, <1>2, <1>5 DEF Detached, TreeInv
<1> QED BY <1>4, <1>6

LEMMA EndsKeepTree ==
  ASSUME TreeInv, EndProcess \/ DestructorReturns
  PROVE  Families(proc, live)' /\ Detached'
<1>1. /\ proc \in Memory /\ live \in SUBSET Proc /\ Families(proc, live)
      /\ current_process \in live /\ g_pending_heap_free = NULL
  BY Types, AllListed DEF EndProcess, DestructorReturns, TreeInv, ProcInv,
     ControlOK, CursorLive
<1>2. CASE EndProcess
  <2> DEFINE m == UnlinkedChild(ChildrenKilled(proc, current_process),
                                current_process)
  <2>1. /\ m \in Memory /\ Families(m, live) /\ m[current_process].relative = NULL
        /\ \A x \in Proc : m[x].relative \in {proc[x].relative, NULL}
    BY <1>1, LeavesFamilies
  <2>2. \/ /\ proc' = m /\ live' = live
           /\ cont' = [cont EXCEPT ![current_process] = "destructor"]
           /\ g_pending_heap_free' = g_pending_heap_free
        \/ Terminates(m)
    BY <1>2 DEF EndProcess, listVars, heapVars
  <2> HIDE DEF m
  <2>3. CASE Terminates(m)
    BY <1>1, <2>1, <2>3, TerminatesTree
  <2>4. ASSUME proc' = m, live' = live,
               cont' = [cont EXCEPT ![current_process] = "destructor"],
               g_pending_heap_free' = g_pending_heap_free
        PROVE  Families(proc, live)' /\ Detached'
    <3>1. \A x \in live \ {current_process} : cont'[x] = cont[x]
      BY <1>1, <2>4 DEF TreeInv, ProcInv, TypeOK
    <3>2. Detached'
      BY <1>1, <2>1, <2>4, <3>1 DEF Detached, TreeInv
    <3>3. Families(proc', live')
      BY <2>1, <2>4
    <3>4. QED
      BY <3>2, <3>3
  <2>5. QED
    BY <2>2, <2>3, <2>4
<1>3. CASE DestructorReturns
  <2>1. proc[current_process].relative = NULL /\ Terminates(proc)
    BY <1>1, <1>3 DEF DestructorReturns, TreeInv, Detached
  <2>2. QED
    BY <1>1, <2>1, TerminatesTree
<1> QED BY <1>2, <1>3

LEMMA FreesKeepTree ==
  ASSUME TreeInv, ProcessTerminated
  PROVE  Families(proc, live)' /\ Detached'
<1>1. /\ proc \in Memory /\ live \in SUBSET Proc /\ Families(proc, live)
      /\ current_process \in live /\ g_pending_heap_free = current_process
  BY Types DEF ProcessTerminated, Frees, TreeInv, ProcInv, ControlOK, CursorLive
<1>2. /\ live' = live \ {current_process}
      /\ proc' = [x \in Proc |-> IF x = current_process THEN Fresh(0) ELSE proc[x]]
      /\ cont' = [cont EXCEPT ![current_process] = "none"]
      /\ g_pending_heap_free' = NULL
  BY <1>1 DEF ProcessTerminated, Frees
<1>3. /\ proc[current_process].relative = NULL /\ NULL # current_process
      /\ current_process \in Proc
  BY <1>1, RuntimeAssumption DEF TreeInv, Detached
<1>4. /\ SameTree(proc'[current_process], Fresh(0))
      /\ \A x \in Proc \ {current_process} : SameTree(proc'[x], proc[x])
  BY <1>2, <1>3 DEF SameTree
<1>5. Families(proc', live \ {current_process})
  BY <1>1, <1>3, <1>4, BlankKeepsFamilies
<1>6. \A x \in live' : proc'[x] = proc[x] /\ cont'[x] = cont[x]
  BY <1>1, <1>2 DEF TreeInv, ProcInv, TypeOK
<1>7. Detached'
  BY <1>2, <1>6 DEF Detached, TreeInv
<1>8. Families(proc', live')
  BY <1>2, <1>5
<1> QED BY <1>7, <1>8

-----------------------------------------------------------------------------
LEMMA TreeStarts ==
  ASSUME Init
  PROVE  TreeInv
<1>1. ProcInv
  BY ProcInit
<1>2. live = {} /\ g_pending_heap_free = NULL /\ NULL \notin Proc
      /\ \A x \in Proc : proc[x].relative = NULL
  BY RuntimeAssumption DEF Init, Fresh
<1>3. Families(proc, live)
  BY <1>2 DEF Families, Siblings, OlderEnds, NewerEnds
<1>4. Detached
  BY <1>2 DEF Detached
<1> QED BY <1>1, <1>3, <1>4 DEF TreeInv

LEMMA TreeStep ==
  ASSUME TreeInv, [Next]_vars
  PROVE  TreeInv'
<1>1. ProcInv'
  BY ProcStep, ProcStutter DEF TreeInv
<1>2. CASE UNCHANGED vars
  <2>1. NoneEnds /\ proc' = proc
    BY <1>2 DEF vars, NoneEnds, listVars, heapVars
  <2>2. QED
    BY <1>1, <2>1, SameTreeSteps DEF TreeInv, SameTree, NoTreeChange
<1>3. CASE Creates
  BY <1>1, <1>3, CreatesKeepTree DEF TreeInv
<1>4. CASE Leaves
  BY <1>1, <1>4, PausesSameTree, SameTreeSteps, EndsKeepTree DEF Leaves, TreeInv
<1>5. CASE Kills
  BY <1>1, <1>2, <1>5, KillsKeepTree, PassesSameTree, SameTreeSteps
     DEF Kills, KillNeverEnds, TreeInv
<1>6. CASE TimesOut \/ Relates
  BY <1>1, <1>6, CallsSameTree, SameTreeSteps, KillChildrenKeepsTree,
     LinksKeepTree DEF Relates, TreeInv
<1>7. CASE InitProcess \/ Scheduler
  BY <1>1, <1>7, PassesSameTree, SameTreeSteps, FreesKeepTree
     DEF Scheduler, TreeInv
<1> QED BY <1>2, <1>3, <1>4, <1>5, <1>6, <1>7 DEF Next

LEMMA TreeAlways == Spec => []TreeInv
BY TreeStarts, TreeStep, PTL DEF Spec

(* SiblingsOK, for every number of processes: whatever order creations, links,
   kills, ends and reuses of an address come in, no sibling pointer of a live
   process ever names a struct that is free or belongs to another family. *)
THEOREM SiblingsStayValid == Spec => []SiblingsOK
<1>1. ASSUME TreeInv PROVE SiblingsOK
  BY <1>1 DEF TreeInv, Families, Siblings, SiblingsOK
<1> QED BY <1>1, TreeAlways, PTL

(* What KillChildProcess reaches are children. *)
LEMMA ReachesChildren ==
  ASSUME live \subseteq Proc, Families(proc, live), NEW p \in live
  PROVE  KillTree(proc, p) \subseteq {x \in live : proc[x].relative # NULL}
<1> DEFINE S == {x \in live : proc[x].relative # NULL}
<1>1. Siblings(proc, live) /\ NULL \notin Proc
  BY RuntimeAssumption DEF Families
<1>2. \A x \in S \cup {p} :
        /\ proc[x].oldest_child # NULL => proc[x].oldest_child \in S
        /\ x \in S /\ proc[x].parent_oldest_child # NULL
             => proc[x].parent_oldest_child \in S
  <2>1. TAKE x \in S \cup {p}
  <2>2. x \in live /\ x # NULL
    BY <1>1
  <2>3. proc[x].oldest_child # NULL => proc[x].oldest_child \in S
    BY <1>1, <2>2 DEF Siblings
  <2>4. x \in S /\ proc[x].parent_oldest_child # NULL
          => proc[x].parent_oldest_child \in S
    BY <1>1, <2>2 DEF Siblings
  <2>5. QED
    BY <2>3, <2>4
<1>3. S \in SUBSET Proc
  OBVIOUS
<1> HIDE DEF S
<1>4. KillTree(proc, p) \subseteq S
  BY <1>2, <1>3 DEF KillTree
<1> QED BY <1>4 DEF S

-----------------------------------------------------------------------------
(***************************************************************************)
(* The recursion of KillChildProcess.                                      *)
(***************************************************************************)
(* Of the processes L, those that are no strays A have a live parent and are not
   above themselves. *)
ParentsHold(m, L, A) ==
  /\ \A x \in L \ A : m[x].relative # NULL => m[x].relative \in L
  /\ \A S \in SUBSET (L \ A) : S # {} => \E x \in S : \A y \in S : m[y].relative # x

(* Nobody gets a parent. *)
LEMMA FewerParents ==
  ASSUME NEW m, NEW n, NEW L \in SUBSET Proc, NEW A, NEW L2 \in SUBSET Proc, NEW A2,
         ParentsHold(m, L, A),
         \A x \in L2 \ A2 : n[x].relative # NULL =>
           x \in L \ A /\ n[x].relative = m[x].relative /\ n[x].relative \in L2
  PROVE  ParentsHold(n, L2, A2)
<1>1. SUFFICES ASSUME NEW S \in SUBSET (L2 \ A2), S # {},
                      \A x \in S : \E y \in S : n[y].relative = x
               PROVE  FALSE
  BY DEF ParentsHold
<1> DEFINE T == {y \in S : n[y].relative # NULL}
<1>2. NULL \notin S
  BY RuntimeAssumption
<1>3. T # {} /\ T \in SUBSET (L \ A)
  BY <1>1, <1>2
<1>4. \A x \in T : \E y \in T : m[y].relative = x
  BY <1>1, <1>2
<1> HIDE DEF T
<1> QED BY <1>3, <1>4 DEF ParentsHold

(* A child gets a parent that is neither itself nor below it: B holds the parent
   and those above it. *)
LEMMA ChildBelowParents ==
  ASSUME NEW m, NEW n, NEW L \in SUBSET Proc, NEW A, NEW L2 \in SUBSET Proc, NEW A2,
         ParentsHold(m, L, A), NEW child \in L2, NEW root \in L2, NEW B,
         root \in B, child \notin B, n[child].relative = root,
         \A y \in (B \cap L) \ A : m[y].relative # NULL => m[y].relative \in B,
         \A x \in L2 \ A2 : x # child /\ n[x].relative # NULL =>
           x \in L \ A /\ n[x].relative = m[x].relative /\ n[x].relative \in L2
  PROVE  ParentsHold(n, L2, A2)
<1>1. \A x \in L2 \ A2 : n[x].relative # NULL => n[x].relative \in L2
  OBVIOUS
<1>2. SUFFICES ASSUME NEW S \in SUBSET (L2 \ A2), S # {},
                      \A x \in S : \E y \in S : n[y].relative = x
               PROVE  FALSE
  BY <1>1 DEF ParentsHold
<1>3. NULL \notin S
  BY RuntimeAssumption
<1> DEFINE P == {y \in S \ {child} : n[y].relative # NULL}
           T == P \ B
<1>4. P \in SUBSET (L \ A) /\ \A y \in P : n[y].relative = m[y].relative
  OBVIOUS
<1>5. CASE child \notin S
  <2>1. P # {} /\ \A x \in P : \E y \in P : m[y].relative = x
    BY <1>2, <1>3, <1>4, <1>5
  <2> HIDE DEF P
  <2>2. QED
    BY <1>4, <2>1 DEF ParentsHold
<1>6. CASE child \in S
  <2>1. \A y \in P : n[y].relative \notin B => y \in T
    BY <1>4
  <2>2. \A x \in T \cup {child} : \E y \in T : n[y].relative = x
    <3>1. TAKE x \in T \cup {child}
    <3>2. x \in S /\ x \notin B
      BY <1>6
    <3>3. PICK y \in S : n[y].relative = x
      BY <1>2, <3>2
    <3>4. y \in P
      BY <1>3, <3>2, <3>3
    <3>5. QED
      BY <2>1, <3>2, <3>3, <3>4
  <2>3. T # {} /\ T \in SUBSET (L \ A) /\ \A x \in T : \E y \in T : m[y].relative = x
    BY <1>4, <2>2
  <2> HIDE DEF T
  <2>4. QED
    BY <2>3 DEF ParentsHold
<1> QED BY <1>5, <1>6

(* The strays are live, and everyone else's parents hold. *)
StrayInv == TreeInv /\ strays \subseteq live /\ ParentsHold(proc, live, strays)

LEMMA TreeNextIsNext ==
  ASSUME [TreeNext]_<<vars, strays>>
  PROVE  [Next]_vars
BY DEF TreeNext, UsualNext, LinksBelow, LinksAround, Freeing, OtherSteps, NoFatal,
   Next, Relates, Scheduler, vars

(* Every step but a link leaves each process its parent, or takes it away; a new
   process may get one. *)
LEMMA OtherParents ==
  ASSUME StrayInv, OtherSteps
  PROVE  /\ \/ \A x \in live' : proc'[x].relative # NULL =>
                 x \in live /\ proc'[x].relative = proc[x].relative
            \/ \E p \in Proc \ live, root \in live :
                 /\ live' = live \cup {p}
                 /\ proc'[p].relative = root
                 /\ \A x \in live : proc'[x].relative # NULL =>
                                      proc'[x].relative = proc[x].relative
         /\ live' \in SUBSET Proc
<1>1. /\ proc \in Memory /\ live \in SUBSET Proc /\ NULL \notin Proc
      /\ TreeInv /\ live \subseteq live'
  BY Types, RuntimeAssumption DEF StrayInv, TreeInv, OtherSteps
<1>2. CASE /\ \A x \in Proc : proc'[x].relative \in {proc[x].relative, NULL}
           /\ live' = live
  BY <1>1, <1>2
<1>3. CASE NoTreeChange
  BY <1>1, <1>2, <1>3 DEF NoTreeChange, NoneEnds, SameTree
<1>4. CASE \/ \E p \in live : KillChildProcess(p)
  <2>1. PICK p \in live : KillChildProcess(p)
    BY <1>4
  <2>2. NoneEnds /\ proc' = ChildrenKilled(proc, p)
    BY <2>1, CallsEndNone DEF KillChildProcess
  <2>3. QED
    BY <1>1, <1>2, <2>2, ChildrenKilledFields DEF NoneEnds
<1>5. CASE Kills
  <2>1. CASE (\E p \in live : KillProcess(p)) \/ KillPrioIteration
    <3>1. ASSUME NEW p \in live, proc' = Killed(proc, p), live' = live
          PROVE  \A x \in Proc : proc'[x].relative \in {proc[x].relative, NULL}
      BY <1>1, <3>1, KilledKeepsFamilies DEF TreeInv
    <3>2. CASE \E p \in live : KillProcess(p)
      BY <1>2, <3>1, <3>2, CallsEndNone DEF KillProcess, NoneEnds
    <3>3. CASE KillPrioIteration
      <4>1. sweep.at \in live /\ live' = live
        BY <3>3 DEF KillPrioIteration, TreeInv, ProcInv, CursorLive, Listed,
           StrayInv, listVars
      <4>2. proc' = Killed(proc, sweep.at) \/ proc' = proc
        BY <3>3 DEF KillPrioIteration
      <4>3. QED
        BY <1>2, <3>1, <4>1, <4>2
    <3>4. QED
      BY <2>1, <3>2, <3>3
  <2>2. CASE KillNeverEnds
    BY <1>2, <2>2 DEF KillNeverEnds, vars, listVars
  <2>3. QED
    BY <1>1, <1>3, <1>5, <2>1, <2>2, PassesSameTree DEF Kills
<1>6. CASE Leaves
  <2>1. CASE EndProcess \/ DestructorReturns
    <3>1. current_process \in live
      BY <1>1, <2>1 DEF EndProcess, DestructorReturns, TreeInv, ProcInv, ControlOK,
         CursorLive
    <3> DEFINE m == UnlinkedChild(ChildrenKilled(proc, current_process),
                                  current_process)
    <3>2. m \in Memory /\ \A x \in Proc : m[x].relative \in {proc[x].relative, NULL}
      BY <1>1, <3>1, LeavesFamilies DEF TreeInv
    <3>3. \/ proc' = m /\ live' = live
          \/ Terminates(m) \/ Terminates(proc)
      BY <2>1 DEF EndProcess, DestructorReturns, listVars
    <3> HIDE DEF m
    <3>4. ASSUME NEW w \in Memory, Terminates(w)
          PROVE  live' = live /\ \A x \in Proc : proc'[x].relative = w[x].relative
      <4>1. proc' = UnlinkedProcess(w, current_process) /\ live' = live
        BY <3>4 DEF Terminates
      <4>2. \A x \in Proc : SameTree(proc'[x], w[x])
        BY <1>1, <3>1, <4>1, UnlinkedProcessFields
      <4>3. QED
        BY <4>1, <4>2 DEF SameTree
    <3>5. QED
      BY <1>1, <1>2, <3>2, <3>3, <3>4
  <2>2. QED
    BY <1>1, <1>3, <1>6, <2>1, PausesSameTree DEF Leaves
<1>7. CASE Creates
  <2>1. PICK p \in Proc, prio \in Priorities, s \in live \cup {NULL} :
          /\ Allocates(p, prio, s)
          /\ \/ proc' = CreatedProcess(p, prio, s)
             \/ \E root \in live :
                  proc' = LinkedChild(CreatedProcess(p, prio, s), root, p)
    BY <1>7 DEF Creates, CreateProcess, CreateChildProcess
  <2>2. p \notin live /\ live' = live \cup {p} /\ p # NULL
    BY <1>1, <2>1 DEF Allocates
  <2> DEFINE v == CreatedProcess(p, prio, s)
  <2>3. /\ v \in Memory /\ v[p].relative = NULL
        /\ \A x \in Proc \ {p} : v[x].relative = proc[x].relative
    <3>1. prio \in Nat /\ s \in Ref /\ s # p /\ top_process \in Ref
      BY <1>1, <2>2, PrioritiesAssumption, Types DEF Ref, TreeInv
    <3>2. /\ v \in Memory /\ SameTree(v[p], Fresh(prio))
          /\ \A x \in Proc \ {p} : SameTree(v[x], proc[x])
      BY <1>1, <3>1, CreatedFields
    <3> HIDE DEF v
    <3>3. QED
      BY <3>2 DEF SameTree, Fresh
  <2> HIDE DEF v
  <2>4. CASE proc' = v
    BY <1>1, <2>2, <2>3, <2>4
  <2>5. ASSUME NEW root \in live, proc' = LinkedChild(v, root, p)
        PROVE  /\ proc'[p].relative = root
               /\ \A x \in live : proc'[x].relative # NULL =>
                                    proc'[x].relative = proc[x].relative
    <3> DEFINE w == LinkedChild(v, root, p)
    <3>1. root \in Proc
      BY <1>1
    <3>2. /\ w[p].relative = root
          /\ \A x \in Proc \ {p} : w[x].relative \in {v[x].relative, NULL}
      BY <2>3, <3>1, LinkedRelatives, LinkedChildFields
    <3> HIDE DEF w
    <3>3. QED
      BY <1>1, <2>2, <2>3, <2>5, <3>2 DEF w
  <2>6. QED
    BY <1>1, <2>1, <2>2, <2>4, <2>5 DEF v
<1>8. CASE TimesOut \/ (\E d \in Destructors : SetProcessDestruct(d))
  BY <1>1, <1>3, <1>8, CallsSameTree
<1>9. CASE InitProcess \/ Scheduler
  <2>1. ~ ProcessTerminated
    BY <1>1 DEF ProcessTerminated, Frees, TreeInv, ProcInv, ControlOK, CursorLive
  <2>2. QED
    BY <1>1, <1>3, <1>9, <2>1, PassesSameTree DEF Scheduler
<1> QED BY <1>4, <1>5, <1>6, <1>7, <1>8, <1>9 DEF OtherSteps

LEMMA StraysStart ==
  ASSUME TreeInit
  PROVE  StrayInv
<1>1. TreeInv /\ strays = {} /\ live = {}
  BY TreeStarts DEF TreeInit, Init
<1> QED BY <1>1 DEF StrayInv, ParentsHold

LEMMA LineageClosed ==
  ASSUME proc \in Memory, NEW root \in Proc
  PROVE  /\ root \in Lineage(root)
         /\ \A y \in (Lineage(root) \cap Proc) \ strays :
              proc[y].relative # NULL => proc[y].relative \in Lineage(root)
<1>1. root \in Lineage(root)
  BY DEF Lineage
<1>2. ASSUME NEW y \in Lineage(root), y \in Proc, y \notin strays,
             proc[y].relative # NULL
      PROVE  proc[y].relative \in Lineage(root)
  <2>1. proc[y].relative \in Proc
    BY <1>2, MemoryFields DEF Ref
  <2>2. QED
    BY <1>2, <2>1 DEF Lineage
<1> QED BY <1>1, <1>2

LEMMA LinkedParents ==
  ASSUME StrayInv, NEW root \in live, NEW child \in live,
         LinkChildProcess(root, child)
  PROVE  /\ live' = live /\ proc'[child].relative = root
         /\ \A x \in live \ {child} : proc'[x].relative # NULL =>
                                        proc'[x].relative = proc[x].relative
<1>1. /\ proc \in Memory /\ live \in SUBSET Proc
  BY Types DEF StrayInv, TreeInv
<1>2. proc' = LinkedChild(proc, root, child) /\ live' = live
  BY DEF LinkChildProcess, CallOnStructs, CallLeaves, listVars
<1> DEFINE w == LinkedChild(proc, root, child)
<1>3. /\ w[child].relative = root
      /\ \A x \in Proc \ {child} : w[x].relative \in {proc[x].relative, NULL}
  BY <1>1, LinkedRelatives, LinkedChildFields
<1> HIDE DEF w
<1>4. QED
  BY <1>1, <1>2, <1>3 DEF w

LEMMA StraysStep ==
  ASSUME StrayInv, [TreeNext]_<<vars, strays>>
  PROVE  StrayInv'
<1>1. /\ proc \in Memory /\ live \in SUBSET Proc /\ NULL \notin Proc
      /\ strays \subseteq live /\ ParentsHold(proc, live, strays)
  BY Types, RuntimeAssumption DEF StrayInv, TreeInv
<1>2. TreeInv' /\ live' \in SUBSET Proc
  <2>1. TreeInv'
    BY TreeNextIsNext, TreeStep DEF StrayInv
  <2>2. QED
    BY <2>1, Types DEF TreeInv, ProcInv, TypeOK
<1>3. \A x \in live \ strays : proc[x].relative # NULL => proc[x].relative \in live
  BY <1>1 DEF ParentsHold
<1>4. ASSUME strays' \subseteq live', ParentsHold(proc', live', strays')
      PROVE  StrayInv'
  BY <1>2, <1>4 DEF StrayInv
<1>5. CASE UNCHANGED <<vars, strays>>
  BY <1>1, <1>4, <1>5 DEF vars, listVars
<1>6. ASSUME NEW root \in live, NEW child \in live, LinksAround(root, child)
      PROVE  StrayInv'
  <2>1. /\ live' = live /\ strays' = strays \cup {child}
        /\ \A x \in live \ {child} : proc'[x].relative # NULL =>
                                       proc'[x].relative = proc[x].relative
    BY <1>6, LinkedParents DEF LinksAround
  <2>2. ParentsHold(proc', live', strays')
    BY <1>1, <1>3, <2>1, FewerParents
  <2>3. QED
    BY <1>1, <1>4, <2>1, <2>2
<1>7. ASSUME NEW root \in live, NEW child \in live, LinksBelow(root, child)
      PROVE  StrayInv'
  <2>1. /\ live' = live /\ strays' = strays \ {child}
        /\ child \notin Lineage(root) /\ proc'[child].relative = root
        /\ \A x \in live \ {child} : proc'[x].relative # NULL =>
                                       proc'[x].relative = proc[x].relative
    BY <1>7, LinkedParents DEF LinksBelow
  <2> DEFINE B == Lineage(root)
  <2>2. /\ root \in B /\ child \notin B
        /\ \A y \in (B \cap live) \ strays :
             proc[y].relative # NULL => proc[y].relative \in B
    BY <1>1, <2>1, LineageClosed
  <2> HIDE DEF B
  <2>3. \A x \in live' \ strays' : x # child /\ proc'[x].relative # NULL =>
          /\ x \in live \ strays /\ proc'[x].relative = proc[x].relative
          /\ proc'[x].relative \in live'
    BY <1>3, <2>1
  <2>4. ParentsHold(proc', live', strays')
    BY <1>1, <1>2, <2>1, <2>2, <2>3, ChildBelowParents
  <2>5. QED
    BY <1>1, <1>4, <2>1, <2>4
<1>8. CASE Freeing
  <2> DEFINE p == g_pending_heap_free
  <2>1. /\ live' = live \ {p}
        /\ strays' = (strays \cup {x \in live : proc[x].relative = p}) \ {p}
        /\ \A x \in live' : proc'[x] = proc[x]
    <3>1. p = current_process
      BY <1>8, Types DEF Freeing, ProcessTerminated, Frees, StrayInv, TreeInv,
         ProcInv, ControlOK, CursorLive
    <3>2. QED
      BY <1>1, <1>8, <3>1 DEF Freeing, ProcessTerminated, Frees
  <2> HIDE DEF p
  <2>2. ParentsHold(proc', live', strays')
    BY <1>1, <1>2, <1>3, <2>1, FewerParents
  <2>3. QED
    BY <1>1, <1>4, <2>1, <2>2
<1>9. CASE OtherSteps
  <2>1. live \subseteq live' /\ strays' = {x \in strays : proc'[x].relative # NULL}
    BY <1>9 DEF OtherSteps
  <2>2. CASE \A x \in live' : proc'[x].relative # NULL =>
               x \in live /\ proc'[x].relative = proc[x].relative
    <3>1. ParentsHold(proc', live', strays')
      BY <1>1, <1>2, <1>3, <2>1, <2>2, FewerParents
    <3>2. QED
      BY <1>1, <1>4, <2>1, <3>1
  <2>3. ASSUME NEW p \in Proc \ live, NEW root \in live, live' = live \cup {p},
               proc'[p].relative = root,
               \A x \in live : proc'[x].relative # NULL =>
                                 proc'[x].relative = proc[x].relative
        PROVE  StrayInv'
    <3>1. \A x \in live' \ strays' : x # p /\ proc'[x].relative # NULL =>
            /\ x \in live \ strays /\ proc'[x].relative = proc[x].relative
            /\ proc'[x].relative \in live'
      BY <1>1, <1>3, <2>1, <2>3
    <3>2. /\ root \in live' /\ p \in live' /\ p \notin live
          /\ \A y \in (live \cap live) \ strays :
               proc[y].relative # NULL => proc[y].relative \in live
      BY <1>3, <2>3
    <3>3. ParentsHold(proc', live', strays')
      BY <1>1, <1>2, <2>3, <3>1, <3>2, ChildBelowParents
    <3>4. QED
      BY <1>1, <1>4, <2>1, <3>3
  <2>4. QED
    BY <1>9, <2>2, <2>3, OtherParents
<1> QED BY <1>5, <1>6, <1>7, <1>8, <1>9 DEF TreeNext, UsualNext

(* No circle of child and sibling pointers among processes that are no strays. *)
LEMMA FamiliesEnd ==
  ASSUME live \in SUBSET Proc, Families(proc, live), ParentsHold(proc, live, strays),
         NEW S \in SUBSET (live \ strays), S # {},
         \A x \in S : proc[x].relative # NULL,
         \A x \in S : \/ proc[x].oldest_child \in S
                      \/ proc[x].parent_oldest_child \in S
  PROVE  FALSE
<1> DEFINE K == {x \in S : proc[x].oldest_child \in S}
<1>1. /\ Siblings(proc, live) /\ OlderEnds(proc, live) /\ NULL \notin Proc
  BY RuntimeAssumption DEF Families
<1>2. CASE K = {}
  <2>1. \A x \in S : proc[x].parent_oldest_child \in S
    BY <1>2
  <2>2. QED
    BY <1>1, <2>1 DEF OlderEnds
<1>3. CASE K # {}
  <2>1. PICK x \in K : \A y \in K : proc[y].relative # x
    <3>1. K \in SUBSET (live \ strays)
      OBVIOUS
    <3> HIDE DEF K
    <3>2. QED
      BY <1>3, <3>1 DEF ParentsHold
  <2> DEFINE C == {z \in S : proc[z].relative = x}
             c == proc[x].oldest_child
  <2>2. c \in S /\ x \in live /\ x # NULL /\ c # NULL
    BY <1>1
  <2>3. c \in C
    BY <1>1, <2>2 DEF Siblings
  <2>4. \A z \in C : /\ z \in live /\ proc[z].relative # NULL
                     /\ proc[z].parent_oldest_child \in C
    <3>1. TAKE z \in C
    <3>2. z \in live /\ proc[z].relative = x
      OBVIOUS
    <3>3. proc[z].parent_oldest_child \in S
      BY <2>1, <3>2
    <3>4. proc[z].parent_oldest_child # NULL
      BY <1>1, <3>3
    <3>5. proc[proc[z].parent_oldest_child].relative = x
      BY <1>1, <2>2, <3>2, <3>4 DEF Siblings
    <3>6. QED
      BY <2>2, <3>2, <3>3, <3>5
  <2>5. C \in SUBSET live
    BY <2>4
  <2> HIDE DEF C
  <2>6. QED
    BY <1>1, <2>3, <2>4, <2>5 DEF OlderEnds
<1> QED BY <1>2, <1>3

LEMMA KillTreeFollowed ==
  ASSUME NEW m \in Memory, NEW p \in Proc
  PROVE  LET K == KillTree(m, p) IN
         \A x \in K \cup {p} :
           /\ m[x].oldest_child # NULL => m[x].oldest_child \in K
           /\ x \in K /\ m[x].parent_oldest_child # NULL
                => m[x].parent_oldest_child \in K
<1> DEFINE K == KillTree(m, p)
<1>1. SUFFICES ASSUME NEW x \in K \cup {p}
               PROVE  /\ m[x].oldest_child # NULL => m[x].oldest_child \in K
                      /\ x \in K /\ m[x].parent_oldest_child # NULL
                           => m[x].parent_oldest_child \in K
  OBVIOUS
<1>2. x \in Proc
  BY DEF KillTree
<1>3. m[x].oldest_child \in Ref /\ m[x].parent_oldest_child \in Ref
  BY <1>2, MemoryFields
<1> QED BY <1>2, <1>3 DEF KillTree, Ref

(* KillTerminates, for every number of processes and any callers, those that link
   a process below itself included: a circle of child and sibling pointers, which
   a kill would follow for ever, always goes through a stray. *)
THEOREM RecursionEnds == TreeSpec => []KillTerminates
<1>1. ASSUME StrayInv
      PROVE  KillTerminates
  <2>1. SUFFICES ASSUME NEW p \in live, KillTree(proc, p) \cap strays = {},
                        NEW S \in SUBSET (KillTree(proc, p) \cup {p}), S # {},
                        \A x \in S : \/ proc[x].oldest_child \in S
                                     \/ x # p /\ proc[x].parent_oldest_child \in S
                 PROVE  FALSE
    BY DEF KillTerminates, KillEnds
  <2>2. /\ proc \in Memory /\ live \in SUBSET Proc /\ NULL \notin Proc
        /\ Families(proc, live) /\ ParentsHold(proc, live, strays)
    BY <1>1, Types, RuntimeAssumption DEF StrayInv, TreeInv
  <2> DEFINE T == S \cap KillTree(proc, p)
  <2>3. KillTree(proc, p) \subseteq {x \in live : proc[x].relative # NULL}
    BY <2>2, ReachesChildren
  <2>4. \A x \in S : \/ proc[x].oldest_child \in T
                     \/ x # p /\ proc[x].parent_oldest_child \in T
    BY <2>1, <2>2, KillTreeFollowed
  <2>5. T # {} /\ T \in SUBSET (live \ strays)
    BY <2>1, <2>3, <2>4
  <2>6. /\ \A x \in T : proc[x].relative # NULL
        /\ \A x \in T : \/ proc[x].oldest_child \in T
                        \/ proc[x].parent_oldest_child \in T
    BY <2>3, <2>4
  <2> HIDE DEF T
  <2>7. QED
    BY <2>2, <2>5, <2>6, FamiliesEnd
<1>2. TreeSpec => []StrayInv
  BY StraysStart, StraysStep, PTL DEF TreeSpec
<1> QED BY <1>1, <1>2, PTL

-----------------------------------------------------------------------------
(***************************************************************************)
(* The children that a parent's kill goes on to reach.                     *)
(***************************************************************************)
(* S holds what the loop over r's children in m comes to. *)
Follows(m, r, S) ==
  /\ m[r].oldest_child # NULL => m[r].oldest_child \in S
  /\ \A y \in S : m[y].parent_oldest_child # NULL => m[y].parent_oldest_child \in S

LEMMA FamilyWithin ==
  ASSUME NEW m, NEW r, NEW S \in SUBSET Proc, Follows(m, r, S)
  PROVE  Family(m, r) \subseteq S
BY DEF Family, Follows

LEMMA FamilyByClosure ==
  ASSUME NEW n, NEW r, NEW x \in Proc,
         \A S \in SUBSET Proc : Follows(n, r, S) => x \in S
  PROVE  x \in Family(n, r)
BY DEF Family, Follows

(* They are children of r. *)
LEMMA FamilyMembers ==
  ASSUME NEW m, NEW L \in SUBSET Proc, Families(m, L), NEW r \in L
  PROVE  Family(m, r) \subseteq {y \in L : m[y].relative = r}
<1> DEFINE G == {y \in L : m[y].relative = r}
<1>1. Siblings(m, L) /\ r # NULL
  BY RuntimeAssumption DEF Families
<1>2. Follows(m, r, G)
  BY <1>1 DEF Siblings, Follows
<1>3. G \in SUBSET Proc
  OBVIOUS
<1> HIDE DEF G
<1>4. Family(m, r) \subseteq G
  BY <1>2, <1>3, FamilyWithin
<1> QED BY <1>4 DEF G

(* The others' siblings do not matter to r. *)
LEMMA SameChildren ==
  ASSUME NEW m, NEW n, NEW L \in SUBSET Proc, Families(m, L), NEW r \in L,
         n[r].oldest_child = m[r].oldest_child,
         \A y \in L : m[y].relative = r =>
                        n[y].parent_oldest_child = m[y].parent_oldest_child
  PROVE  Family(m, r) \subseteq Family(n, r)
<1> DEFINE G == {y \in L : m[y].relative = r}
<1>1. Siblings(m, L) /\ r # NULL
  BY RuntimeAssumption DEF Families
<1>2. ASSUME NEW S \in SUBSET Proc, Follows(n, r, S)
      PROVE  Family(m, r) \subseteq S
  <2>1. Follows(m, r, S \cap G)
    BY <1>1, <1>2 DEF Siblings, Follows
  <2>2. S \cap G \in SUBSET Proc
    OBVIOUS
  <2> HIDE DEF G
  <2>3. QED
    BY <2>1, <2>2, FamilyWithin
<1>3. Family(m, r) \subseteq Proc
  BY FamilyMembers
<1> QED BY <1>2, <1>3, FamilyByClosure

(* The newest child that r knows is the one r points at. *)
LEMMA NewestKnown ==
  ASSUME NEW m, NEW L \in SUBSET Proc, Families(m, L), NEW r \in L,
         NEW d \in Family(m, r), m[d].new_process = NULL
  PROVE  m[r].oldest_child = d
<1> DEFINE G == {y \in L : /\ m[y].relative = r
                           /\ m[y].new_process = NULL => y = m[r].oldest_child}
<1>1. Siblings(m, L) /\ r # NULL /\ NULL \notin Proc
  BY RuntimeAssumption DEF Families
<1>2. Follows(m, r, G)
  BY <1>1 DEF Siblings, Follows
<1>3. G \in SUBSET Proc
  OBVIOUS
<1> HIDE DEF G
<1>4. d \in G
  BY <1>2, <1>3, FamilyWithin
<1> QED BY <1>4 DEF G

(* A process is unlinked beside x: x stays where its parent's loop comes to it,
   unless the one unlinked is the newest of those the parent has forgotten. *)
LEMMA UnlinkKeepsChildren ==
  ASSUME NEW m \in Memory, NEW L \in SUBSET Proc, Families(m, L), NEW r \in L,
         NEW d \in L, NEW x \in Family(m, r), x # d,
         m[d].relative = r /\ m[d].new_process = NULL => d \in Family(m, r)
  PROVE  x \in Family(UnlinkedChild(m, d), r)
<1> DEFINE v == UnlinkedChild(m, d)
           o == m[d].parent_oldest_child
           n == m[d].new_process
<1>1. CASE m[d].relative = NULL
  BY <1>1 DEF UnlinkedChild
<1>2. CASE m[d].relative # NULL
  <2>1. \A y \in Proc :
          /\ v[y].oldest_child =
               IF n = NULL /\ y = m[d].relative THEN o ELSE m[y].oldest_child
          /\ v[y].parent_oldest_child = IF y = n THEN o ELSE m[y].parent_oldest_child
    BY <1>2, UnlinkedChildFields
  <2>2. Siblings(m, L) /\ NULL \notin Proc /\ r \in Proc /\ r # NULL
    BY RuntimeAssumption DEF Families
  <2> HIDE DEF v
  <2>3. /\ o # NULL => o \in L /\ m[o].relative = m[d].relative
        /\ n # NULL => /\ n \in L /\ m[n].relative = m[d].relative
                       /\ m[n].parent_oldest_child = d
    BY <1>2, <2>2 DEF Siblings
  <2>4. CASE m[d].relative # r
    <3>1. v[r].oldest_child = m[r].oldest_child
      BY <2>1, <2>2, <2>4
    <3>2. \A y \in L : m[y].relative = r =>
                         v[y].parent_oldest_child = m[y].parent_oldest_child
      BY <2>1, <2>2, <2>3, <2>4
    <3>3. QED
      BY <3>1, <3>2, SameChildren DEF v
  <2>5. CASE m[d].relative = r
    <3>1. n = NULL => m[r].oldest_child = d
      BY <2>5, NewestKnown
    <3>2. n # NULL => v[r].oldest_child = m[r].oldest_child
      BY <2>1, <2>2
    <3>3. n = NULL => v[r].oldest_child = o
      BY <2>1, <2>2, <2>5
    <3>4. ASSUME NEW S \in SUBSET Proc, Follows(v, r, S)
          PROVE  x \in S
      <4> DEFINE D == IF n = NULL \/ n \in S THEN {d} ELSE {}
                 T == {y \in S \cup D : y \in L /\ m[y].relative = r}
      <4>1. m[r].oldest_child # NULL =>
              /\ m[r].oldest_child \in S \cup D
              /\ m[r].oldest_child \in L
              /\ m[m[r].oldest_child].relative = r
        BY <2>2, <3>1, <3>2, <3>4 DEF Siblings, Follows
      <4>2. ASSUME NEW y \in T, m[y].parent_oldest_child # NULL
            PROVE  m[y].parent_oldest_child \in S \cup D
        <5>1. CASE y = d
          <6>1. CASE n = NULL
            BY <3>3, <3>4, <4>2, <5>1, <6>1 DEF Follows
          <6>2. CASE n # NULL /\ n \in S
            <7>1. v[n].parent_oldest_child = o
              BY <2>1, <2>3, <6>2
            <7>2. QED
              BY <3>4, <4>2, <5>1, <6>2, <7>1 DEF Follows
          <6>3. CASE n # NULL /\ n \notin S
            <7>1. d \in S
              BY <4>2, <5>1, <6>3
            <7>2. v[d].parent_oldest_child = o
              <8>1. d # n
                BY <7>1, <6>3
              <8>2. QED
                BY <2>1, <8>1
            <7>3. QED
              BY <3>4, <4>2, <5>1, <7>1, <7>2 DEF Follows
          <6>4. QED
            BY <6>1, <6>2, <6>3
        <5>2. CASE y = n /\ y # d
          <6>1. n \in S /\ m[y].parent_oldest_child = d
            BY <2>2, <2>3, <4>2, <5>2
          <6>2. QED
            BY <6>1
        <5>3. CASE y # n /\ y # d
          <6>1. y \in S /\ v[y].parent_oldest_child = m[y].parent_oldest_child
            BY <2>1, <4>2, <5>3
          <6>2. QED
            BY <3>4, <4>2, <6>1 DEF Follows
        <5>4. QED
          BY <5>1, <5>2, <5>3
      <4>3. \A y \in T : m[y].parent_oldest_child # NULL =>
              /\ m[y].parent_oldest_child \in L
              /\ m[m[y].parent_oldest_child].relative = r
        BY <2>2 DEF Siblings
      <4>4. Follows(m, r, T)
        BY <4>1, <4>2, <4>3 DEF Follows
      <4>5. x \in T
        BY <4>4, FamilyWithin
      <4>6. QED
        BY <4>5
    <3>5. x \in Proc
      BY FamilyMembers
    <3>6. QED
      BY <3>4, <3>5, FamilyByClosure DEF v
  <2>6. QED
    BY <2>4, <2>5
<1> QED BY <1>1, <1>2

(* A process is linked somewhere. *)
LEMMA LinkKeepsChildren ==
  ASSUME NEW m \in Memory, NEW L \in SUBSET Proc, Families(m, L), NEW r \in L,
         NEW root \in L, NEW child \in L, NEW x \in Family(m, r),
         x = child => root = r,
         m[child].relative = r /\ m[child].new_process = NULL =>
           child \in Family(m, r)
  PROVE  x \in Family(LinkedChild(m, root, child), r)
<1> DEFINE u == UnlinkedChild(m, child)
           v == LinkedChild(m, root, child)
           o == u[root].oldest_child
<1>1. Families(u, L) /\ u[child].relative = NULL
  BY UnlinkKeepsFamilies, UnlinkedChildKeeps
<1>2. \A y \in Proc :
        /\ v[y].oldest_child = IF y = root THEN child ELSE u[y].oldest_child
        /\ v[y].parent_oldest_child =
             IF y = child THEN o ELSE u[y].parent_oldest_child
  BY LinkedChildFields
<1>3. x # child => x \in Family(u, r)
  BY UnlinkKeepsChildren
<1>4. r # NULL /\ child # NULL /\ NULL \notin Proc /\ x \in Proc
  BY FamilyMembers, RuntimeAssumption
<1> HIDE DEF u, v
<1>5. CASE r # root
  <2>1. Family(u, r) \subseteq Family(v, r)
    <3>1. v[r].oldest_child = u[r].oldest_child
      BY <1>2, <1>5
    <3>2. \A y \in L : u[y].relative = r =>
                         v[y].parent_oldest_child = u[y].parent_oldest_child
      BY <1>1, <1>2, <1>4
    <3>3. QED
      BY <1>1, <3>1, <3>2, SameChildren
  <2>2. QED
    BY <1>3, <1>5, <2>1 DEF v
<1>6. CASE r = root
  <2>1. ASSUME NEW S \in SUBSET Proc, Follows(v, r, S)
        PROVE  x \in S
    <3>1. child \in S /\ (o # NULL => o \in S)
      BY <1>2, <1>4, <1>6, <2>1 DEF Follows
    <3> DEFINE T == {y \in S : y \in L /\ u[y].relative = r}
    <3>2. Follows(u, r, T)
      <4>1. Siblings(u, L)
        BY <1>1 DEF Families
      <4>2. \A y \in T : v[y].parent_oldest_child = u[y].parent_oldest_child
        BY <1>1, <1>2, <1>4
      <4>3. u[r].oldest_child # NULL => u[r].oldest_child \in S
        BY <1>6, <3>1
      <4>4. QED
        BY <1>4, <2>1, <4>1, <4>2, <4>3 DEF Siblings, Follows
    <3>3. Family(u, r) \subseteq T
      BY <3>2, FamilyWithin
    <3>4. QED
      BY <1>3, <3>1, <3>3
  <2>2. QED
    BY <1>4, <2>1, FamilyByClosure DEF v
<1> QED BY <1>5, <1>6

(* Children are killed: the family is untouched, or it is killed. *)
LEMMA KillKeepsChildren ==
  ASSUME NEW m \in Memory, NEW L \in SUBSET Proc, Families(m, L), NEW r \in L,
         NEW p \in Proc
  PROVE  LET c == ChildrenKilled(m, p) IN
         \/ Family(m, r) \subseteq Family(c, r)
         \/ \A x \in Family(m, r) : c[x].exec_mode = "DEAD"
<1> DEFINE c == ChildrenKilled(m, p)
           K == KillTree(m, p)
<1>1. \A x \in Proc :
        /\ c[x].oldest_child = IF x \in K \cup {p} THEN NULL ELSE m[x].oldest_child
        /\ c[x].parent_oldest_child = m[x].parent_oldest_child
        /\ x \in K => c[x].exec_mode = "DEAD"
  BY ChildrenKilledFields
<1>2. CASE r \in K \cup {p}
  <2>1. Follows(m, r, K) /\ K \in SUBSET Proc
    BY <1>2, KillTreeFollowed DEF Follows, KillTree
  <2> HIDE DEF K, c
  <2>2. Family(m, r) \subseteq K
    BY <2>1, FamilyWithin
  <2>3. QED
    BY <1>1, <2>1, <2>2 DEF c
<1>3. CASE r \notin K \cup {p}
  <2> HIDE DEF K, c
  <2>1. c[r].oldest_child = m[r].oldest_child
        /\ \A y \in L : c[y].parent_oldest_child = m[y].parent_oldest_child
    BY <1>1, <1>3
  <2>2. QED
    BY <2>1, SameChildren DEF c
<1> QED BY <1>2, <1>3

(* NewestForgotten, of a step from m to n with the processes L before it. *)
Forgets(m, n, L, r) ==
  \E d \in L : /\ m[d].relative = r
               /\ m[d].new_process = NULL
               /\ d \notin Family(m, r)
               /\ n[d].relative # r \/ n[r].oldest_child = d

(* ChildrenKept, of a step that the processes in N survive. *)
KeepsChildren(m, n, L, N) ==
  \A r \in L \cap N : \A x \in Family(m, r) \cap N :
    n[x].relative = r /\ n[x].exec_mode # "DEAD"
      => x \in Family(n, r) \/ Forgets(m, n, L, r)

(* A process kills its children and leaves its family, and perhaps is killed or
   taken off the main list besides. *)
LEMMA LeavingKeepsChildren ==
  ASSUME NEW m \in Memory, NEW L \in SUBSET Proc, Families(m, L), NEW d \in L, NEW n,
         LET u == UnlinkedChild(ChildrenKilled(m, d), d) IN
         \A x \in Proc : /\ SameTree(n[x], u[x])
                         /\ x # d => n[x].exec_mode = u[x].exec_mode
  PROVE  KeepsChildren(m, n, L, L)
<1> DEFINE c == ChildrenKilled(m, d)
           u == UnlinkedChild(c, d)
<1>1. c \in Memory /\ Families(c, L)
  BY ChildrenKilledKeepsFamilies
<1>2. ASSUME NEW x \in Proc
      PROVE  c[x].relative = m[x].relative /\ c[x].new_process = m[x].new_process
  <2>1. d \in Proc
    OBVIOUS
  <2>2. QED
    BY <2>1, ChildrenKilledFields
<1>3. \A r \in L : \/ Family(m, r) \subseteq Family(c, r)
                   \/ \A x \in Family(m, r) : c[x].exec_mode = "DEAD"
  BY KillKeepsChildren
<1> HIDE DEF c
<1>4. /\ Families(u, L) /\ u[d].relative = NULL
      /\ \A x \in Proc : u[x].exec_mode = c[x].exec_mode
  BY <1>1, UnlinkKeepsFamilies, UnlinkedChildKeeps DEF SameMode
<1>5. \A x \in Proc : /\ n[x].relative = u[x].relative
                      /\ n[x].oldest_child = u[x].oldest_child
                      /\ n[x].parent_oldest_child = u[x].parent_oldest_child
                      /\ x # d => n[x].exec_mode = u[x].exec_mode
  BY DEF SameTree, u, c
<1>6. ASSUME NEW r \in L, NEW x \in Family(m, r), n[x].relative = r,
             n[x].exec_mode # "DEAD"
      PROVE  x \in Family(n, r) \/ Forgets(m, n, L, r)
  <2>1. r # NULL /\ r \in Proc /\ x \in Proc
    BY FamilyMembers, RuntimeAssumption
  <2>2. x # d
    BY <1>4, <1>5, <1>6, <2>1
  <2>3. Family(m, r) \subseteq Family(c, r)
    BY <1>3, <1>4, <1>5, <1>6, <2>1, <2>2
  <2>4. CASE m[d].relative = r /\ m[d].new_process = NULL /\ d \notin Family(m, r)
    BY <1>4, <1>5, <2>1, <2>4 DEF Forgets
  <2>5. CASE ~ (m[d].relative = r /\ m[d].new_process = NULL /\ d \notin Family(m, r))
    <3>1. c[d].relative = r /\ c[d].new_process = NULL => d \in Family(c, r)
      BY <1>2, <2>3, <2>5
    <3>2. x \in Family(u, r)
      BY <1>1, <1>6, <2>2, <2>3, <3>1, UnlinkKeepsChildren
    <3> HIDE DEF u
    <3>3. Family(u, r) \subseteq Family(n, r)
      BY <1>4, <1>5, <2>1, SameChildren
    <3>4. QED
      BY <3>2, <3>3
  <2>6. QED
    BY <2>4, <2>5
<1> QED BY <1>6 DEF KeepsChildren

LEMMA SameKeepsChildren ==
  ASSUME NEW m, NEW n, NEW L \in SUBSET Proc, Families(m, L), NEW N,
         \A r \in L \cap N :
           /\ n[r].oldest_child = m[r].oldest_child
           /\ \A y \in L : m[y].relative = r =>
                             n[y].parent_oldest_child = m[y].parent_oldest_child
  PROVE  KeepsChildren(m, n, L, N)
BY SameChildren DEF KeepsChildren

LEMMA LinksKeepChildren ==
  ASSUME NEW m \in Memory, NEW L \in SUBSET Proc, Families(m, L),
         NEW root \in L, NEW child \in L
  PROVE  KeepsChildren(m, LinkedChild(m, root, child), L, L)
<1> DEFINE v == LinkedChild(m, root, child)
<1>1. v[child].relative = root /\ v[root].oldest_child = child
  BY LinkedChildFields
<1>2. ASSUME NEW r \in L, NEW x \in Family(m, r), v[x].relative = r
      PROVE  x \in Family(v, r) \/ Forgets(m, v, L, r)
  <2>1. CASE m[child].relative = r /\ m[child].new_process = NULL
               /\ child \notin Family(m, r)
    BY <1>1, <2>1 DEF Forgets
  <2>2. CASE ~ (m[child].relative = r /\ m[child].new_process = NULL
                  /\ child \notin Family(m, r))
    <3>1. x = child => root = r
      BY <1>1, <1>2
    <3>2. QED
      BY <1>2, <2>2, <3>1, LinkKeepsChildren
  <2>3. QED
    BY <2>1, <2>2
<1> HIDE DEF v
<1> QED BY <1>2 DEF KeepsChildren, v

LEMMA CreatesKeepChildren ==
  ASSUME TreeInv, Creates
  PROVE  KeepsChildren(proc, proc', live, live')
<1>1. PICK p \in Proc, prio \in Priorities, s \in live \cup {NULL} :
        /\ Allocates(p, prio, s)
        /\ \/ proc' = CreatedProcess(p, prio, s)
           \/ \E root \in live :
                proc' = LinkedChild(CreatedProcess(p, prio, s), root, p)
  BY DEF Creates, CreateProcess, CreateChildProcess
<1>2. Calling /\ p \notin live /\ live' = live \cup {p}
  BY <1>1 DEF Allocates
<1>3. proc \in Memory /\ live \in SUBSET Proc /\ Families(proc, live) /\ NULL \notin Proc
  BY <1>2, CallingFacts
<1> DEFINE v == CreatedProcess(p, prio, s)
<1>4. /\ v \in Memory /\ SameTree(v[p], Fresh(prio))
      /\ \A x \in Proc \ {p} : SameTree(v[x], proc[x])
  <2>1. prio \in Nat /\ s \in Ref /\ s # p /\ top_process \in Ref
    BY <1>2, <1>3, PrioritiesAssumption, Types DEF Ref, TreeInv
  <2>2. QED
    BY <1>3, <2>1, CreatedFields
<1>5. Families(v, live \cup {p})
  BY <1>3, <1>4, <1>2, BlankKeepsFamilies
<1> HIDE DEF v
<1>6. v[p].relative = NULL
  BY <1>4 DEF SameTree, Fresh
<1>7. \A r \in live : Family(proc, r) \subseteq Family(v, r)
  <2>1. \A x \in live : /\ v[x].oldest_child = proc[x].oldest_child
                        /\ v[x].parent_oldest_child = proc[x].parent_oldest_child
    BY <1>2, <1>3, <1>4 DEF SameTree
  <2>2. QED
    BY <1>3, <2>1, SameChildren
<1>8. CASE proc' = v
  BY <1>7, <1>8 DEF KeepsChildren
<1>9. ASSUME NEW root \in live, proc' = LinkedChild(v, root, p)
      PROVE  KeepsChildren(proc, proc', live, live')
  <2>1. ASSUME NEW r \in live, NEW x \in Family(proc, r)
        PROVE  x \in Family(LinkedChild(v, root, p), r)
    <3>1. x \in Family(v, r) /\ x # p /\ r # NULL
      BY <1>2, <1>3, <1>7, <2>1, FamilyMembers
    <3>2. live \cup {p} \in SUBSET Proc /\ root \in live \cup {p}
          /\ p \in live \cup {p} /\ r \in live \cup {p}
      BY <1>3
    <3>3. ~ (v[p].relative = r)
      BY <1>6, <3>1
    <3>4. QED
      BY <1>4, <1>5, <3>1, <3>2, <3>3, LinkKeepsChildren
  <2>2. QED
    BY <1>9, <2>1 DEF KeepsChildren
<1> QED BY <1>1, <1>8, <1>9 DEF v

LEMMA EndsKeepChildren ==
  ASSUME TreeInv, EndProcess \/ DestructorReturns
  PROVE  KeepsChildren(proc, proc', live, live')
<1>1. /\ proc \in Memory /\ live \in SUBSET Proc /\ Families(proc, live)
      /\ current_process \in live /\ current_process \in Proc
  BY Types DEF EndProcess, DestructorReturns, TreeInv, ProcInv, ControlOK, CursorLive
<1>2. ASSUME NEW w \in Memory, Terminates(w)
      PROVE  /\ live' = live
             /\ \A x \in Proc : /\ SameTree(proc'[x], w[x])
                                /\ proc'[x].exec_mode = w[x].exec_mode
  <2>1. proc' = UnlinkedProcess(w, current_process) /\ live' = live
    BY <1>2 DEF Terminates
  <2>2. QED
    BY <1>1, <2>1, UnlinkedProcessFields DEF SameMode
<1> DEFINE u == UnlinkedChild(ChildrenKilled(proc, current_process), current_process)
<1>3. u \in Memory
  BY <1>1, LeavesFamilies
<1>4. CASE EndProcess
  <2>1. \/ proc' = u /\ live' = live
        \/ Terminates(u)
    BY <1>4 DEF EndProcess, listVars
  <2>2. /\ live' = live
        /\ \A x \in Proc : /\ SameTree(proc'[x], u[x])
                           /\ proc'[x].exec_mode = u[x].exec_mode
    <3> HIDE DEF u
    <3>1. QED
      BY <1>2, <1>3, <2>1 DEF SameTree
  <2>3. KeepsChildren(proc, proc', live, live)
    BY <1>1, <2>2, LeavingKeepsChildren
  <2>4. QED
    BY <2>2, <2>3
<1>5. CASE DestructorReturns
  <2>1. live' = live /\ \A x \in Proc : SameTree(proc'[x], proc[x])
    BY <1>1, <1>2, <1>5 DEF DestructorReturns
  <2>2. QED
    BY <1>1, <2>1, SameKeepsChildren DEF SameTree
<1> QED BY <1>4, <1>5

LEMMA KillsKeepChildren ==
  ASSUME TreeInv, Kills \/ \E p \in live : KillChildProcess(p)
  PROVE  KeepsChildren(proc, proc', live, live')
<1>1. proc \in Memory /\ live \in SUBSET Proc /\ Families(proc, live)
  BY Types DEF TreeInv
<1>2. CASE NoTreeChange
  BY <1>1, <1>2, SameKeepsChildren DEF NoTreeChange, SameTree, NoneEnds
<1>3. ASSUME NEW p \in live, proc' = Killed(proc, p), live' = live
      PROVE  KeepsChildren(proc, proc', live, live')
  <2> DEFINE u == UnlinkedChild(ChildrenKilled(proc, p), p)
  <2>1. u \in Memory
    BY <1>1, LeavesFamilies
  <2>2. proc' = [x \in Proc |-> IF x = p THEN KillMarked(u[x]) ELSE u[x]]
    BY <1>3 DEF Killed
  <2>3. \A x \in Proc : /\ SameTree(proc'[x], u[x])
                        /\ x # p => proc'[x].exec_mode = u[x].exec_mode
    <3> HIDE DEF u
    <3>1. QED
      BY <2>1, <2>2, KillMarkedMode, SameStruct DEF Memory, OnlyMode
  <2>4. KeepsChildren(proc, proc', live, live)
    BY <1>1, <2>3, LeavingKeepsChildren
  <2>5. QED
    BY <1>3, <2>4
<1>4. CASE \E p \in live : KillProcess(p)
  BY <1>3, <1>4, CallsEndNone DEF KillProcess, NoneEnds
<1>5. CASE KillPrioIteration
  <2>1. sweep.at \in live /\ live' = live
    BY <1>5 DEF KillPrioIteration, TreeInv, ProcInv, CursorLive, Listed, listVars
  <2>2. proc' = Killed(proc, sweep.at) \/ proc' = proc
    BY <1>5 DEF KillPrioIteration
  <2>3. QED
    BY <1>1, <1>3, <2>1, <2>2, SameKeepsChildren
<1>6. CASE KillNeverEnds
  BY <1>1, <1>6, SameKeepsChildren DEF KillNeverEnds, vars
<1>7. CASE \E p \in live : KillChildProcess(p)
  <2>1. PICK p \in live : KillChildProcess(p)
    BY <1>7
  <2>2. live' = live /\ proc' = ChildrenKilled(proc, p) /\ p \in Proc
    BY <1>1, <2>1, CallsEndNone DEF KillChildProcess, NoneEnds
  <2>3. \A r \in live :
          \/ Family(proc, r) \subseteq Family(ChildrenKilled(proc, p), r)
          \/ \A x \in Family(proc, r) : ChildrenKilled(proc, p)[x].exec_mode = "DEAD"
    BY <1>1, <2>2, KillKeepsChildren
  <2>4. QED
    BY <2>2, <2>3 DEF KeepsChildren
<1> QED BY <1>2, <1>4, <1>5, <1>6, <1>7, PassesSameTree DEF Kills

LEMMA FreesKeepChildren ==
  ASSUME TreeInv, ProcessTerminated
  PROVE  KeepsChildren(proc, proc', live, live')
<1>1. /\ proc \in Memory /\ live \in SUBSET Proc /\ Families(proc, live)
      /\ current_process \in live /\ g_pending_heap_free = current_process
      /\ proc[current_process].relative = NULL /\ NULL \notin Proc
  BY Types, RuntimeAssumption
     DEF ProcessTerminated, Frees, TreeInv, ProcInv, ControlOK, CursorLive, Detached
<1>2. /\ live' = live \ {current_process}
      /\ \A x \in live' : proc'[x] = proc[x]
  BY <1>1 DEF ProcessTerminated, Frees
<1> QED BY <1>1, <1>2, SameKeepsChildren

(* ChildrenKept, for every number of processes and any callers: in whatever order
   processes are created, linked, killed, freed and given the addresses of freed
   ones, a parent goes on to reach each child it has, with the one exception that
   NewestForgotten names. *)
THEOREM ParentsKeepChildren == Spec => ChildrenKept
<1>1. ASSUME TreeInv, [Next]_vars
      PROVE  KeepsChildren(proc, proc', live, live')
  <2>1. proc \in Memory /\ live \in SUBSET Proc /\ Families(proc, live)
    BY <1>1, Types DEF TreeInv
  <2>2. CASE NoTreeChange
    BY <2>1, <2>2, SameKeepsChildren DEF NoTreeChange, SameTree, NoneEnds
  <2>3. CASE UNCHANGED vars
    BY <2>1, <2>3, SameKeepsChildren DEF vars
  <2>4. CASE \E root, child \in live : LinkChildProcess(root, child)
    <3>1. PICK root \in live, child \in live : LinkChildProcess(root, child)
      BY <2>4
    <3>2. proc' = LinkedChild(proc, root, child) /\ live' = live
      BY <3>1, CallsEndNone DEF LinkChildProcess, NoneEnds
    <3>3. QED
      BY <2>1, <3>2, LinksKeepChildren
  <2>5. CASE Relates \/ TimesOut
    BY <1>1, <2>2, <2>4, <2>5, CallsSameTree, KillsKeepChildren DEF Relates
  <2>6. CASE InitProcess \/ Scheduler
    BY <1>1, <2>2, <2>6, PassesSameTree, FreesKeepChildren DEF Scheduler
  <2>7. CASE Leaves
    BY <1>1, <2>2, <2>7, PausesSameTree, EndsKeepChildren DEF Leaves
  <2>8. QED
    BY <1>1, <2>3, <2>5, <2>6, <2>7, CreatesKeepChildren, KillsKeepChildren DEF Next
<1>2. ASSUME KeepsChildren(proc, proc', live, live')
      PROVE  \A r \in live \cap live' : \A x \in Family(proc, r) \cap live' :
               /\ proc[x].relative = r
               /\ proc'[x].relative = r
               /\ proc'[x].exec_mode # "DEAD"
               => x \in Family(proc', r) \/ NewestForgotten(r)
  BY <1>2 DEF KeepsChildren, Forgets, NewestForgotten
<1> QED BY <1>1, <1>2, TreeAlways, PTL DEF Spec, ChildrenKept
=============================================================================
