-------------------------- MODULE LinkedList_proofs --------------------------
(***************************************************************************)
(* Proofs about LinkedList, for any threads, any data and finitely many    *)
(* addresses: the asserts of linked_list.c hold, no freed node is touched, *)
(* none leaks, and the list is a FIFO queue to the threads that share it.  *)
(***************************************************************************)
EXTENDS LinkedList, FiniteSetTheorems, SequenceTheorems, WellFoundedInduction, TLAPS

(* A node that is linked behind the last one becomes the last.             *)
LEMMA LinkBehind ==
  ASSUME NEW f \in [Nodes -> Nodes \cup {NULL}], NEW S \in SUBSET Nodes,
         NEW a, NEW z, NEW n \in Nodes \ S, a # NULL, Linked(f, S, a, z)
  PROVE  Linked([f EXCEPT ![n] = NULL, ![z] = n], S \cup {n}, a, n)
<1> DEFINE g == [f EXCEPT ![n] = NULL, ![z] = n]
<1>1. /\ a \in S /\ z \in S /\ z # n /\ n # NULL /\ a # n
      /\ \A m \in S \ {z} : f[m] \in S \ {a}
      /\ \A m, k \in S \ {z} : f[m] = f[k] => m = k
  BY ListAssumption DEF Linked
<1>2. /\ g[n] = NULL /\ g[z] = n
      /\ \A m \in S \ {z} : g[m] = f[m]
  BY <1>1
<1>3. (S \cup {n}) \ {n} = (S \ {z}) \cup {z}
  BY <1>1
<1>4. \A m \in (S \cup {n}) \ {n} : g[m] \in (S \cup {n}) \ {a}
  BY <1>1, <1>2, <1>3
<1>5. \A m, k \in (S \cup {n}) \ {n} : g[m] = g[k] => m = k
  BY <1>1, <1>2, <1>3
<1> HIDE DEF g
<1> QED BY <1>1, <1>2, <1>4, <1>5 DEF Linked

(* A node stored in an empty list is its first and its last.               *)
LEMMA LinkFirst ==
  ASSUME NEW f \in [Nodes -> Nodes \cup {NULL}], NEW S \in SUBSET Nodes,
         NEW n \in Nodes \ S, Linked(f, S, NULL, NULL)
  PROVE  Linked([f EXCEPT ![n] = NULL], S \cup {n}, n, n)
<1> DEFINE g == [f EXCEPT ![n] = NULL]
<1>1. /\ n # NULL /\ NULL \notin S
      /\ \A m \in S : f[m] \in S
      /\ \A m, k \in S : f[m] = f[k] => m = k
  BY ListAssumption DEF Linked
<1>2. g[n] = NULL /\ \A m \in S : g[m] = f[m]
  OBVIOUS
<1>3. (S \cup {n}) \ {n} = S
  OBVIOUS
<1>4. \A m \in S : g[m] \in (S \cup {n}) \ {n}
  BY <1>1, <1>2
<1>5. \A m, k \in S : g[m] = g[k] => m = k
  BY <1>1, <1>2
<1> HIDE DEF g
<1> QED BY <1>1, <1>2, <1>3, <1>4, <1>5 DEF Linked

(* Without its first node the list is linked from the second on.           *)
LEMMA UnlinkFirst ==
  ASSUME NEW f \in [Nodes -> Nodes \cup {NULL}], NEW S \in SUBSET Nodes,
         NEW a, NEW z, a # NULL, Linked(f, S, a, z)
  PROVE  Linked(f, S \ {a}, f[a], IF a = z THEN NULL ELSE z)
<1>1. /\ a \in S /\ z \in S /\ z # NULL /\ f[z] = NULL /\ NULL \notin S
      /\ \A m \in S \ {z} : f[m] \in S \ {a}
      /\ \A m, k \in S \ {z} : f[m] = f[k] => m = k
  BY ListAssumption DEF Linked
<1>2. CASE a = z
  BY <1>1, <1>2 DEF Linked
<1>3. CASE a # z
  BY <1>1, <1>3 DEF Linked
<1> QED BY <1>2, <1>3

(* IInv holds of the list that newLinkedList returns.                      *)
LEMMA InitIInv == Init => IInv
<1> SUFFICES ASSUME Init PROVE IInv
  OBVIOUS
<1> USE ListAssumption
<1>1. TypeOK
  BY DEF Init, TypeOK, Labels, Idle
<1>2. MutualExclusion /\ DestroyAlone /\ LocalValues
  BY DEF Init, MutualExclusion, DestroyAlone, LocalValues, InCriticalSection,
     At, Idle
<1>3. Linked(next, live, start, end)
  BY DEF Init, Linked
<1>4. \A t \in Threads : ShapeAt(t)
  BY DEF Init, ShapeAt, At, Idle
<1> QED BY <1>1, <1>2, <1>3, <1>4 DEF IInv, Shape

(* Who holds the mutex is the only one who changes the list.               *)
LEMMA HolderIsAlone ==
  ASSUME IInv, NEW t \in Threads, InCriticalSection(t) \/ pc[t].op = "destroy"
  PROVE  \A u \in Threads \ {t} : /\ ~InCriticalSection(u) /\ ~Changing(u)
                                   /\ pc[u].op # "destroy"
BY DEF IInv, TypeOK, Labels, MutualExclusion, DestroyAlone, InCriticalSection,
   Changing, At, Idle

(* Each step of linkedListPushBack, linkedListPopFront, linkedListLen and  *)
(* linkedListDestroy, and each call of them, keeps IInv.                   *)
LEMMA NextIInv == IInv /\ [Next]_vars => IInv'
<1> SUFFICES ASSUME IInv, [Next]_vars PROVE IInv'
  OBVIOUS
<1> USE ListAssumption DEF IInv, listVars
<1>1. ASSUME NEW t \in Threads, NEW v \in Data \cup {NoData},
               NEW op \in {"push", "pop", "len", "destroy"}, Call(t, op, v)
        PROVE  IInv'
  <2>1. TypeOK'
    BY <1>1 DEF Call, Goto, At, Idle, TypeOK, Labels
  <2>2. MutualExclusion'
    BY <1>1 DEF Call, Goto, At, Idle, TypeOK, Labels, MutualExclusion, InCriticalSection
  <2>3. DestroyAlone'
    BY <1>1 DEF Call, Goto, At, Idle, TypeOK, Labels, DestroyAlone
  <2>4. Shape'
    <3>1. /\ pc[t] = Idle /\ UNCHANGED listVars /\ node' = node
          /\ \A u \in Threads \ {t} : pc'[u] = pc[u]
          /\ pc'[t] = [op |-> op, at |-> "lock"]
      BY <1>1 DEF Call, TypeOK
    <3>2. \A u \in Threads : ShapeAt(u)'
      BY <3>1 DEF ShapeAt, At, Shape
    <3>3. (\A u \in Threads : ~Changing(u))' => \A u \in Threads : ~Changing(u)
      BY <3>1 DEF Changing, At, Idle
    <3> QED BY <3>1, <3>2, <3>3 DEF Shape
  <2>5. LocalValues'
    BY <1>1 DEF Call, Goto, At, Idle, TypeOK, Labels, LocalValues
  <2> QED BY <2>1, <2>2, <2>3, <2>4, <2>5
<1>2. ASSUME NEW t \in Threads, Lock(t) PROVE IInv'
  <2>1. TypeOK'
    <3>1. pc' \in [Threads -> Labels]
      BY <1>2 DEF Lock, Goto, TypeOK, Labels
    <3>2. FirstNode(pc[t].op) \in Nodes \cup {NULL}
      BY DEF FirstNode, TypeOK
    <3>3. node' \in [Threads -> Nodes \cup {NULL}]
      BY <1>2, <3>2 DEF Lock, TypeOK
    <3>4. val' \in [Threads -> Data \cup {NoData} \cup Nat]
      BY <1>2 DEF Lock, TypeOK
    <3> QED BY <1>2, <3>1, <3>3, <3>4 DEF Lock, TypeOK
  <2>2. MutualExclusion'
    BY <1>2 DEF Lock, Goto, At, Idle, TypeOK, Labels, MutualExclusion, InCriticalSection
  <2>3. DestroyAlone'
    BY <1>2 DEF Lock, Goto, At, Idle, TypeOK, Labels, DestroyAlone
  <2>4. Shape'
    <3>1. /\ pc[t].at = "lock" /\ UNCHANGED listVars /\ lock = NoThread
          /\ \A u \in Threads \ {t} : pc'[u] = pc[u] /\ node'[u] = node[u]
          /\ pc'[t] = [op |-> pc[t].op, at |-> "body"]
          /\ node'[t] = FirstNode(pc[t].op)
      BY <1>2 DEF Lock, Goto, TypeOK
    <3>2. \A u \in Threads : ~InCriticalSection(u)
      BY <3>1 DEF MutualExclusion
    <3>3. pc[t].op = "destroy" => \A u \in Threads \ {t} : pc[u] = Idle
      BY DEF DestroyAlone
    <3>4. \A u \in Threads \ {t} : ShapeAt(u)'
      BY <3>1 DEF ShapeAt, At, Shape
    <3>5. \A u \in Threads : ~Changing(u) \/ u # t
      BY <3>1 DEF Changing, At
    <3>6. pc[t].op \in {"len", "destroy"} => Linked(next, live, start, end)
      <4>1. \A u \in Threads \ {t} : pc[u].op = "destroy" => closed /\ pc[t] = Idle
        BY DEF DestroyAlone
      <4>2. \A u \in Threads \ {t} : ~Changing(u)
        BY <3>1, <3>2, <4>1 DEF Changing, At, InCriticalSection, Idle
      <4> QED BY <3>5, <4>2 DEF Shape
    <3>7. ShapeAt(t)'
      <4>1. CASE pc[t].op = "len"
        BY <3>1, <3>6, <4>1 DEF ShapeAt, At, FirstNode, Linked
      <4>2. CASE pc[t].op = "destroy"
        <5>1. start = NULL <=> end = NULL
          BY <3>6, <4>2 DEF Linked
        <5>2. end = IF start = NULL THEN NULL ELSE end
          BY <5>1
        <5>3. node'[t] = start
          BY <3>1, <4>2 DEF FirstNode
        <5> QED BY <3>1, <3>6, <4>2, <5>2, <5>3 DEF ShapeAt, At
      <4>3. CASE pc[t].op \notin {"len", "destroy"}
        BY <3>1, <4>3 DEF ShapeAt, At
      <4> QED BY <4>1, <4>2, <4>3
    <3>8. (\A u \in Threads : ~Changing(u))' => \A u \in Threads : ~Changing(u)
      BY <3>1, <3>5 DEF Changing, At
    <3> QED BY <3>1, <3>4, <3>7, <3>8 DEF Shape
  <2>5. LocalValues'
    BY <1>2 DEF Lock, Goto, At, Idle, TypeOK, Labels, LocalValues
  <2> QED BY <2>1, <2>2, <2>3, <2>4, <2>5
<1>3. ASSUME NEW t \in Threads, Unlock(t) PROVE IInv'
  <2>1. TypeOK'
    BY <1>3 DEF Unlock, Goto, At, Idle, TypeOK, Labels
  <2>2. MutualExclusion'
    BY <1>3 DEF Unlock, Goto, At, Idle, TypeOK, Labels, MutualExclusion, InCriticalSection
  <2>3. DestroyAlone'
    BY <1>3 DEF Unlock, Goto, At, Idle, TypeOK, Labels, DestroyAlone
  <2>4. Shape'
    <3>1. \A u \in Threads \ {t} : /\ ~InCriticalSection(u) /\ ~Changing(u)
                                   /\ pc[u].op # "destroy" /\ pc'[u] = pc[u]
      <4>1. InCriticalSection(t) \/ pc[t].op = "destroy"
        BY <1>3 DEF Unlock, At, InCriticalSection
      <4> QED BY <4>1, <1>3, HolderIsAlone DEF Unlock, Goto, TypeOK
    <3>2. \A u \in Threads \ {t} : ShapeAt(u)'
      BY <3>1 DEF ShapeAt, At, InCriticalSection
    <3>3. /\ pc'[t] = [op |-> pc[t].op,
                       at |-> IF pc[t].op = "destroy" THEN "reset" ELSE "return"]
          /\ pc[t].at = "unlock" /\ pc[t] \in Labels /\ UNCHANGED listVars
      BY <1>3 DEF Unlock, Goto, TypeOK, Labels
    <3>4. ShapeAt(t)'
      <4>1. CASE pc[t].op = "destroy"
        <5>1. At(t, "destroy", "unlock") /\ ShapeAt(t)
          BY <3>3, <4>1 DEF At, Shape, Labels
        <5>2. Linked(next, live, NULL, NULL)
          BY <5>1 DEF ShapeAt
        <5> QED BY <3>3, <4>1, <5>2 DEF ShapeAt, At
      <4>2. CASE pc[t].op # "destroy"
        BY <3>3, <4>2 DEF ShapeAt, At
      <4> QED BY <4>1, <4>2
    <3>5. (\A u \in Threads : ~Changing(u))' => Linked(next, live, start, end)'
      <4>1. (\A u \in Threads : ~Changing(u))' => ~Changing(t)
        BY <3>3 DEF Changing, At
      <4> QED BY <3>1, <3>3, <4>1 DEF Shape
    <3> QED BY <3>2, <3>4, <3>5 DEF Shape
  <2>5. LocalValues'
    BY <1>3 DEF Unlock, Goto, At, Idle, TypeOK, Labels, LocalValues
  <2> QED BY <2>1, <2>2, <2>3, <2>4, <2>5
<1>4. ASSUME NEW t \in Threads, Return(t) PROVE IInv'
  <2>1. TypeOK'
    BY <1>4 DEF Return, Goto, At, Idle, TypeOK, Labels
  <2>2. MutualExclusion'
    BY <1>4 DEF Return, Goto, At, Idle, TypeOK, Labels, MutualExclusion, InCriticalSection
  <2>3. DestroyAlone'
    BY <1>4 DEF Return, Goto, At, Idle, TypeOK, Labels, DestroyAlone
  <2>4. Shape'
    <3>1. /\ pc' = [pc EXCEPT ![t] = Idle] /\ pc[t].at = "return" /\ UNCHANGED listVars
          /\ \A u \in Threads \ {t} : pc'[u] = pc[u] /\ node'[u] = node[u]
          /\ pc'[t] = Idle
      BY <1>4 DEF Return, TypeOK
    <3>2. \A u \in Threads : ShapeAt(u)'
      BY <3>1 DEF ShapeAt, At, Shape, Idle
    <3>3. (\A u \in Threads : ~Changing(u))' => Linked(next, live, start, end)'
      <4>1. CASE pc[t].op = "destroy"
        <5>1. Linked(next, live, NULL, NULL) /\ start = NULL /\ end = NULL
          BY <3>1, <4>1 DEF Shape, ShapeAt, At, TypeOK, Labels
        <5> QED BY <3>1, <5>1
      <4>2. CASE pc[t].op # "destroy"
        <5>1. ~Changing(t)
          BY <3>1, <4>2 DEF Changing, At
        <5>2. (\A u \in Threads : ~Changing(u))' => \A u \in Threads : ~Changing(u)
          BY <3>1, <5>1 DEF Changing, At
        <5> QED BY <3>1, <5>2 DEF Shape
      <4> QED BY <4>1, <4>2
    <3> QED BY <3>2, <3>3 DEF Shape
  <2>5. LocalValues'
    BY <1>4 DEF Return, Goto, At, Idle, TypeOK, Labels, LocalValues
  <2> QED BY <2>1, <2>2, <2>3, <2>4, <2>5
<1>5. ASSUME NEW t \in Threads, PushNode(t) PROVE IInv'
  <2>1. TypeOK'
    <3>1. pc' \in [Threads -> Labels]
      BY <1>5 DEF PushNode, Goto, At, TypeOK, Labels
    <3>2. PICK n \in Nodes \ live :
               /\ live' = live \cup {n} /\ data' = [data EXCEPT ![n] = val[t]]
               /\ node' = [node EXCEPT ![t] = n]
               /\ \/ start' = n /\ next' = [next EXCEPT ![n] = NULL]
                  \/ start' = start /\ next' = [next EXCEPT ![n] = NULL, ![end] = n]
      BY <1>5 DEF PushNode
    <3>3. val[t] \in Data \cup {NoData}
      BY <1>5 DEF PushNode, At, LocalValues
    <3>4. data' \in [Nodes -> Data \cup {NoData}] /\ next' \in [Nodes -> Nodes \cup {NULL}]
      BY <3>2, <3>3 DEF TypeOK
    <3> QED BY <1>5, <3>1, <3>2, <3>4, ZenonT(40) DEF PushNode, TypeOK
  <2>2. MutualExclusion'
    BY <1>5 DEF PushNode, Goto, At, Idle, TypeOK, Labels, MutualExclusion, InCriticalSection
  <2>3. DestroyAlone'
    BY <1>5 DEF PushNode, Goto, At, Idle, TypeOK, Labels, DestroyAlone
  <2>4. Shape'
    <3>1. \A u \in Threads \ {t} : /\ ~InCriticalSection(u) /\ ~Changing(u)
                                   /\ pc[u].op # "destroy" /\ pc'[u] = pc[u]
      <4>1. InCriticalSection(t) \/ pc[t].op = "destroy"
        BY <1>5 DEF PushNode, At, InCriticalSection
      <4> QED BY <4>1, <1>5, HolderIsAlone DEF PushNode, Goto, TypeOK
    <3>2. \A u \in Threads \ {t} : ShapeAt(u)'
      BY <3>1 DEF ShapeAt, At, InCriticalSection
    <3>3. Linked(next, live, start, end)
      BY <1>5, <3>1 DEF PushNode, At, Changing, Shape
    <3>4. PICK n \in Nodes \ live :
               /\ live' = live \cup {n} /\ node'[t] = n
               /\ pc'[t] = [op |-> "push", at |-> "end"]
               /\ \/ /\ Empty /\ start' = n /\ next' = [next EXCEPT ![n] = NULL]
                  \/ /\ ~Empty /\ start' = start
                     /\ next' = [next EXCEPT ![n] = NULL, ![end] = n]
      BY <1>5 DEF PushNode, At, Goto, TypeOK
    <3>5. Linked(next', live', start', node'[t]) /\ node'[t] \in live'
      <4>1. CASE Empty
        <5>1. start = NULL /\ end = NULL
          BY <3>3, <4>1 DEF Linked, Empty
        <5> QED BY <3>3, <3>4, <4>1, <5>1, LinkFirst DEF TypeOK
      <4>2. CASE ~Empty
        BY <3>3, <3>4, <4>2, LinkBehind DEF TypeOK, Empty
      <4> QED BY <4>1, <4>2
    <3>6. ShapeAt(t)'
      BY <3>4, <3>5 DEF ShapeAt, At
    <3>7. ~(\A u \in Threads : ~Changing(u))'
      BY <3>4 DEF Changing, At
    <3> QED BY <3>2, <3>6, <3>7 DEF Shape
  <2>5. LocalValues'
    BY <1>5 DEF PushNode, Goto, At, Idle, TypeOK, Labels, LocalValues
  <2> QED BY <2>1, <2>2, <2>3, <2>4, <2>5
<1>6. ASSUME NEW t \in Threads, PushEnd(t) PROVE IInv'
  <2>1. TypeOK'
    BY <1>6 DEF PushEnd, Goto, At, Idle, TypeOK, Labels
  <2>2. MutualExclusion'
    BY <1>6 DEF PushEnd, Goto, At, Idle, TypeOK, Labels, MutualExclusion, InCriticalSection
  <2>3. DestroyAlone'
    BY <1>6 DEF PushEnd, Goto, At, Idle, TypeOK, Labels, DestroyAlone
  <2>4. Shape'
    <3>1. \A u \in Threads \ {t} : /\ ~InCriticalSection(u) /\ ~Changing(u)
                                   /\ pc[u].op # "destroy" /\ pc'[u] = pc[u]
      <4>1. InCriticalSection(t) \/ pc[t].op = "destroy"
        BY <1>6 DEF PushEnd, At, InCriticalSection
      <4> QED BY <4>1, <1>6, HolderIsAlone DEF PushEnd, Goto, TypeOK
    <3>2. \A u \in Threads \ {t} : ShapeAt(u)'
      BY <3>1 DEF ShapeAt, At, InCriticalSection
    <3>3. /\ pc'[t] = [op |-> "push", at |-> "unlock"] /\ end' = node[t]
          /\ Linked(next, live, start, node[t])
          /\ UNCHANGED <<start, next, live>>
      <4>1. At(t, "push", "end") /\ ShapeAt(t)
        BY <1>6 DEF PushEnd, Shape
      <4> QED BY <1>6, <4>1 DEF PushEnd, At, Goto, TypeOK, ShapeAt
    <3>4. ShapeAt(t)'
      BY <3>3 DEF ShapeAt, At
    <3>5. Linked(next, live, start, end)'
      BY <3>3
    <3> QED BY <3>2, <3>4, <3>5 DEF Shape
  <2>5. LocalValues'
    BY <1>6 DEF PushEnd, Goto, At, Idle, TypeOK, Labels, LocalValues
  <2> QED BY <2>1, <2>2, <2>3, <2>4, <2>5
<1>7. ASSUME NEW t \in Threads, PopEmpty(t) PROVE IInv'
  <2>1. TypeOK'
    BY <1>7 DEF PopEmpty, Goto, At, Idle, TypeOK, Labels
  <2>2. MutualExclusion'
    BY <1>7 DEF PopEmpty, Goto, At, Idle, TypeOK, Labels, MutualExclusion, InCriticalSection
  <2>3. DestroyAlone'
    BY <1>7 DEF PopEmpty, Goto, At, Idle, TypeOK, Labels, DestroyAlone
  <2>4. Shape'
    <3>1. \A u \in Threads \ {t} : /\ ~InCriticalSection(u) /\ ~Changing(u)
                                   /\ pc[u].op # "destroy" /\ pc'[u] = pc[u]
      <4>1. InCriticalSection(t) \/ pc[t].op = "destroy"
        BY <1>7 DEF PopEmpty, At, InCriticalSection
      <4> QED BY <4>1, <1>7, HolderIsAlone DEF PopEmpty, Goto, TypeOK
    <3>2. \A u \in Threads \ {t} : ShapeAt(u)'
      BY <3>1 DEF ShapeAt, At, InCriticalSection
    <3>3. /\ pc'[t] = [op |-> "pop", at |-> "unlock"]
          /\ Linked(next, live, start, end) /\ UNCHANGED <<start, end, next, live>>
      BY <1>7, <3>1 DEF PopEmpty, At, Goto, TypeOK, Shape, Changing
    <3>4. ShapeAt(t)'
      BY <3>3 DEF ShapeAt, At
    <3>5. Linked(next, live, start, end)'
      BY <3>3
    <3> QED BY <3>2, <3>4, <3>5 DEF Shape
  <2>5. LocalValues'
    BY <1>7 DEF PopEmpty, Goto, At, Idle, TypeOK, Labels, LocalValues
  <2> QED BY <2>1, <2>2, <2>3, <2>4, <2>5
<1>8. ASSUME NEW t \in Threads, PopRead(t) PROVE IInv'
  <2>1. TypeOK'
    <3>1. pc' \in [Threads -> Labels]
      BY <1>8 DEF PopRead, Goto, At, TypeOK, Labels
    <3>2. start \in Nodes
      BY <1>8 DEF PopRead, Empty, TypeOK
    <3> QED BY <1>8, <3>1, <3>2 DEF PopRead, TypeOK
  <2>2. MutualExclusion'
    BY <1>8 DEF PopRead, Goto, At, Idle, TypeOK, Labels, MutualExclusion, InCriticalSection
  <2>3. DestroyAlone'
    BY <1>8 DEF PopRead, Goto, At, Idle, TypeOK, Labels, DestroyAlone
  <2>4. Shape'
    <3>1. \A u \in Threads \ {t} : /\ ~InCriticalSection(u) /\ ~Changing(u)
                                   /\ pc[u].op # "destroy" /\ pc'[u] = pc[u]
      <4>1. InCriticalSection(t) \/ pc[t].op = "destroy"
        BY <1>8 DEF PopRead, At, InCriticalSection
      <4> QED BY <4>1, <1>8, HolderIsAlone DEF PopRead, Goto, TypeOK
    <3>2. \A u \in Threads \ {t} : ShapeAt(u)'
      BY <3>1 DEF ShapeAt, At, InCriticalSection
    <3>3. /\ pc'[t] = [op |-> "pop", at |-> "advance"]
          /\ Linked(next, live, start, end) /\ UNCHANGED <<start, next, live>>
          /\ node'[t] = start /\ end' = (IF start = end THEN NULL ELSE end)
          /\ start # NULL /\ end # NULL
      BY <1>8, <3>1 DEF PopRead, At, Goto, TypeOK, Shape, Changing, Empty
    <3>4. ShapeAt(t)'
      <4>1. start \in live /\ end' # start
        BY <3>3 DEF Linked
      <4>2. end = IF end' = NULL THEN start ELSE end'
        BY <3>3
      <4> QED BY <3>3, <4>1, <4>2 DEF ShapeAt, At
    <3>5. ~(\A u \in Threads : ~Changing(u))'
      BY <3>3 DEF Changing, At
    <3> QED BY <3>2, <3>4, <3>5 DEF Shape
  <2>5. LocalValues'
    BY <1>8 DEF PopRead, Goto, At, Idle, TypeOK, Labels, LocalValues
  <2> QED BY <2>1, <2>2, <2>3, <2>4, <2>5
<1>9. ASSUME NEW t \in Threads, PopAdvance(t) PROVE IInv'
  <2>1. TypeOK'
    <3>1. pc' \in [Threads -> Labels]
      BY <1>9 DEF PopAdvance, Goto, At, TypeOK, Labels
    <3>2. start \in Nodes
      BY <1>9 DEF PopAdvance, Shape, ShapeAt, TypeOK
    <3> QED BY <1>9, <3>1, <3>2 DEF PopAdvance, TypeOK
  <2>2. MutualExclusion'
    BY <1>9 DEF PopAdvance, Goto, At, Idle, TypeOK, Labels, MutualExclusion, InCriticalSection
  <2>3. DestroyAlone'
    BY <1>9 DEF PopAdvance, Goto, At, Idle, TypeOK, Labels, DestroyAlone
  <2>4. Shape'
    <3>1. \A u \in Threads \ {t} : /\ ~InCriticalSection(u) /\ ~Changing(u)
                                   /\ pc[u].op # "destroy" /\ pc'[u] = pc[u]
      <4>1. InCriticalSection(t) \/ pc[t].op = "destroy"
        BY <1>9 DEF PopAdvance, At, InCriticalSection
      <4> QED BY <4>1, <1>9, HolderIsAlone DEF PopAdvance, Goto, TypeOK
    <3>2. \A u \in Threads \ {t} : ShapeAt(u)'
      BY <3>1 DEF ShapeAt, At, InCriticalSection
    <3> DEFINE last == IF end = NULL THEN start ELSE end
    <3>3. /\ pc'[t] = [op |-> "pop", at |-> "free"]
          /\ start' = next[start] /\ UNCHANGED <<end, next, live, node>>
          /\ node[t] = start /\ start \in live /\ end # start
          /\ Linked(next, live, start, last)
      <4>1. At(t, "pop", "advance") /\ ShapeAt(t)
        BY <1>9 DEF PopAdvance, Shape
      <4> QED BY <1>9, <4>1 DEF PopAdvance, At, Goto, TypeOK, ShapeAt
    <3>4. ShapeAt(t)'
      <4>1. start # NULL
        BY <3>3, ListAssumption DEF TypeOK
      <4>2. Linked(next, live \ {start}, next[start], IF start = last THEN NULL ELSE last)
        BY <3>3, <4>1, UnlinkFirst DEF TypeOK
      <4>3. (IF start = last THEN NULL ELSE last) = end
        BY <3>3, <4>1
      <4> QED BY <3>3, <4>2, <4>3 DEF ShapeAt, At
    <3>5. ~(\A u \in Threads : ~Changing(u))'
      BY <3>3 DEF Changing, At
    <3> QED BY <3>2, <3>4, <3>5 DEF Shape
  <2>5. LocalValues'
    BY <1>9 DEF PopAdvance, Goto, At, Idle, TypeOK, Labels, LocalValues
  <2> QED BY <2>1, <2>2, <2>3, <2>4, <2>5
<1>10. ASSUME NEW t \in Threads, PopFree(t) PROVE IInv'
  <2>1. TypeOK'
    BY <1>10 DEF PopFree, Goto, At, Idle, TypeOK, Labels
  <2>2. MutualExclusion'
    BY <1>10 DEF PopFree, Goto, At, Idle, TypeOK, Labels, MutualExclusion, InCriticalSection
  <2>3. DestroyAlone'
    BY <1>10 DEF PopFree, Goto, At, Idle, TypeOK, Labels, DestroyAlone
  <2>4. Shape'
    <3>1. \A u \in Threads \ {t} : /\ ~InCriticalSection(u) /\ ~Changing(u)
                                   /\ pc[u].op # "destroy" /\ pc'[u] = pc[u]
      <4>1. InCriticalSection(t) \/ pc[t].op = "destroy"
        BY <1>10 DEF PopFree, At, InCriticalSection
      <4> QED BY <4>1, <1>10, HolderIsAlone DEF PopFree, Goto, TypeOK
    <3>2. \A u \in Threads \ {t} : ShapeAt(u)'
      BY <3>1 DEF ShapeAt, At, InCriticalSection
    <3>3. /\ pc'[t] = [op |-> "pop", at |-> "unlock"]
          /\ live' = live \ {node[t]} /\ UNCHANGED <<start, end, next>>
          /\ Linked(next, live \ {node[t]}, start, end)
      BY <1>10 DEF PopFree, At, Goto, TypeOK, Shape, ShapeAt
    <3>4. ShapeAt(t)'
      BY <3>3 DEF ShapeAt, At
    <3>5. Linked(next, live, start, end)'
      BY <3>3
    <3> QED BY <3>2, <3>4, <3>5 DEF Shape
  <2>5. LocalValues'
    BY <1>10 DEF PopFree, Goto, At, Idle, TypeOK, Labels, LocalValues
  <2> QED BY <2>1, <2>2, <2>3, <2>4, <2>5
<1>11. ASSUME NEW t \in Threads, LenStep(t) PROVE IInv'
  <2>1. TypeOK'
    <3>1. pc' \in [Threads -> Labels]
      BY <1>11 DEF LenStep, Goto, At, TypeOK, Labels
    <3>2. val[t] \in Nat
      BY <1>11 DEF LenStep, LocalValues
    <3>3. val' \in [Threads -> Data \cup {NoData} \cup Nat]
      BY <1>11, <3>2 DEF LenStep, TypeOK
    <3>4. node' \in [Threads -> Nodes \cup {NULL}]
      BY <1>11 DEF LenStep, TypeOK
    <3> QED BY <1>11, <3>1, <3>3, <3>4 DEF LenStep, TypeOK
  <2>2. MutualExclusion'
    BY <1>11 DEF LenStep, Goto, At, Idle, TypeOK, Labels, MutualExclusion, InCriticalSection
  <2>3. DestroyAlone'
    BY <1>11 DEF LenStep, Goto, At, Idle, TypeOK, Labels, DestroyAlone
  <2>4. Shape'
    <3>1. \A u \in Threads \ {t} : /\ ~InCriticalSection(u) /\ ~Changing(u)
                                   /\ pc[u].op # "destroy" /\ pc'[u] = pc[u]
      <4>1. InCriticalSection(t) \/ pc[t].op = "destroy"
        BY <1>11 DEF LenStep, At, InCriticalSection
      <4> QED BY <4>1, <1>11, HolderIsAlone DEF LenStep, Goto, TypeOK
    <3>2. \A u \in Threads \ {t} : ShapeAt(u)'
      BY <3>1 DEF ShapeAt, At, InCriticalSection
    <3>3. /\ Linked(next, live, start, end) /\ UNCHANGED <<start, end, next, live>>
          /\ node[t] \in live \cup {NULL}
          /\ \/ /\ node[t] # NULL /\ node'[t] = next[node[t]] /\ pc'[t] = pc[t]
             \/ pc'[t] = [op |-> "len", at |-> "unlock"]
          /\ pc[t] = [op |-> "len", at |-> "body"]
      BY <1>11, <3>1 DEF LenStep, At, Goto, TypeOK, Shape, ShapeAt, Changing
    <3>4. ShapeAt(t)'
      <4>1. \A m \in live : next[m] \in live \cup {NULL}
        BY <3>3 DEF Linked, TypeOK
      <4> QED BY <3>3, <4>1 DEF ShapeAt, At
    <3>5. Linked(next, live, start, end)'
      BY <3>3
    <3> QED BY <3>2, <3>4, <3>5 DEF Shape
  <2>5. LocalValues'
    BY <1>11 DEF LenStep, Goto, At, Idle, TypeOK, Labels, LocalValues
  <2> QED BY <2>1, <2>2, <2>3, <2>4, <2>5
<1>12. ASSUME NEW t \in Threads, DestroyStep(t) PROVE IInv'
  <2>1. TypeOK'
    <3>1. pc' \in [Threads -> Labels]
      BY <1>12 DEF DestroyStep, Goto, At, TypeOK, Labels
    <3>2. node' \in [Threads -> Nodes \cup {NULL}]
      BY <1>12 DEF DestroyStep, TypeOK
    <3> QED BY <1>12, <3>1, <3>2 DEF DestroyStep, TypeOK
  <2>2. MutualExclusion'
    BY <1>12 DEF DestroyStep, Goto, At, Idle, TypeOK, Labels, MutualExclusion, InCriticalSection
  <2>3. DestroyAlone'
    BY <1>12 DEF DestroyStep, Goto, At, Idle, TypeOK, Labels, DestroyAlone
  <2>4. Shape'
    <3>1. \A u \in Threads \ {t} : /\ ~InCriticalSection(u) /\ ~Changing(u)
                                   /\ pc[u].op # "destroy" /\ pc'[u] = pc[u]
      <4>1. InCriticalSection(t) \/ pc[t].op = "destroy"
        BY <1>12 DEF DestroyStep, At, InCriticalSection
      <4> QED BY <4>1, <1>12, HolderIsAlone DEF DestroyStep, Goto, TypeOK
    <3>2. \A u \in Threads \ {t} : ShapeAt(u)'
      BY <3>1 DEF ShapeAt, At, InCriticalSection
    <3>3. /\ pc[t] = [op |-> "destroy", at |-> "body"] /\ UNCHANGED <<start, end, next>>
          /\ Linked(next, live, node[t], IF node[t] = NULL THEN NULL ELSE end)
      BY <1>12 DEF DestroyStep, At, Shape, ShapeAt
    <3>4. ShapeAt(t)'
      <4>1. CASE node[t] = NULL
        <5>1. pc'[t] = [op |-> "destroy", at |-> "unlock"] /\ live' = live
          BY <1>12, <3>3, <4>1 DEF DestroyStep, Goto, TypeOK
        <5> QED BY <3>3, <4>1, <5>1 DEF ShapeAt, At
      <4>2. CASE node[t] # NULL
        <5>1. /\ pc'[t] = pc[t] /\ live' = live \ {node[t]}
              /\ node'[t] = next[node[t]]
          BY <1>12, <4>2 DEF DestroyStep, TypeOK
        <5>2. Linked(next, live, node[t], end)
          BY <3>3, <4>2
        <5>3. Linked(next, live \ {node[t]}, next[node[t]],
                     IF node[t] = end THEN NULL ELSE end)
          BY <4>2, <5>2, UnlinkFirst DEF TypeOK
        <5>4. (IF node[t] = end THEN NULL ELSE end)
                = IF next[node[t]] = NULL THEN NULL ELSE end
          BY <4>2, <5>2 DEF Linked, TypeOK
        <5> QED BY <3>3, <5>1, <5>3, <5>4 DEF ShapeAt, At
      <4> QED BY <4>1, <4>2
    <3>5. ~(\A u \in Threads : ~Changing(u))'
      BY <1>12, <3>3 DEF DestroyStep, Goto, Changing, At, TypeOK
    <3> QED BY <3>2, <3>4, <3>5 DEF Shape
  <2>5. LocalValues'
    BY <1>12 DEF DestroyStep, Goto, At, Idle, TypeOK, Labels, LocalValues
  <2> QED BY <2>1, <2>2, <2>3, <2>4, <2>5
<1>13. ASSUME NEW t \in Threads, DestroyReset(t) PROVE IInv'
  <2>1. TypeOK'
    BY <1>13 DEF DestroyReset, Goto, At, Idle, TypeOK, Labels
  <2>2. MutualExclusion'
    BY <1>13 DEF DestroyReset, Goto, At, Idle, TypeOK, Labels, MutualExclusion, InCriticalSection
  <2>3. DestroyAlone'
    BY <1>13 DEF DestroyReset, Goto, At, Idle, TypeOK, Labels, DestroyAlone
  <2>4. Shape'
    <3>1. \A u \in Threads \ {t} : /\ ~InCriticalSection(u) /\ ~Changing(u)
                                   /\ pc[u].op # "destroy" /\ pc'[u] = pc[u]
      <4>1. InCriticalSection(t) \/ pc[t].op = "destroy"
        BY <1>13 DEF DestroyReset, At, InCriticalSection
      <4> QED BY <4>1, <1>13, HolderIsAlone DEF DestroyReset, Goto, TypeOK
    <3>2. \A u \in Threads \ {t} : ShapeAt(u)'
      BY <3>1 DEF ShapeAt, At, InCriticalSection
    <3>3. /\ pc'[t] = [op |-> "destroy", at |-> "return"]
          /\ start' = NULL /\ end' = NULL /\ UNCHANGED <<next, live>>
          /\ Linked(next, live, NULL, NULL)
      <4>1. At(t, "destroy", "reset") /\ ShapeAt(t)
        BY <1>13 DEF DestroyReset, Shape
      <4> QED BY <1>13, <4>1 DEF DestroyReset, At, Goto, TypeOK, ShapeAt
    <3>4. ShapeAt(t)'
      BY <3>3 DEF ShapeAt, At
    <3>5. Linked(next, live, start, end)'
      BY <3>3
    <3> QED BY <3>2, <3>4, <3>5 DEF Shape
  <2>5. LocalValues'
    BY <1>13 DEF DestroyReset, Goto, At, Idle, TypeOK, Labels, LocalValues
  <2> QED BY <2>1, <2>2, <2>3, <2>4, <2>5
<1>14. CASE UNCHANGED vars
  BY <1>14 DEF vars, TypeOK, MutualExclusion, DestroyAlone, Shape, ShapeAt,
     Changing, Linked, LocalValues, InCriticalSection, At
<1> QED
  BY <1>1, <1>2, <1>3, <1>4, <1>5, <1>6, <1>7, <1>8, <1>9, <1>10, <1>11, <1>12, <1>13, <1>14 DEF Next, Body

(* IInv holds in every reachable state.                                    *)
THEOREM ListInvariant == Spec => []IInv
BY InitIInv, NextIInv, PTL DEF Spec

(* At most one thread at a time is between mutexLock and mutexUnlock.      *)
THEOREM OneThreadInside ==
  Spec => [](\A t, u \in Threads :
               InCriticalSection(t) /\ InCriticalSection(u) => t = u)
<1>1. IInv => \A t, u \in Threads :
               InCriticalSection(t) /\ InCriticalSection(u) => t = u
  BY DEF IInv, MutualExclusion
<1> QED BY <1>1, ListInvariant, PTL

(* The asserts of linkedListPushBack and linkedListPopFront never fire.    *)
THEOREM AssertsNeverFire == Spec => []AssertsHold
<1>1. IInv => AssertsHold
  <2> SUFFICES ASSUME IInv, NEW t \in Threads,
                      At(t, "push", "body") \/ At(t, "pop", "body")
               PROVE  /\ Empty => start = NULL /\ end = NULL
                      /\ ~Empty /\ start = end => next[start] = NULL
    BY DEF AssertsHold
  <2>1. ~Changing(t) /\ InCriticalSection(t)
    BY DEF At, Changing, InCriticalSection
  <2>2. Linked(next, live, start, end)
    BY <2>1, HolderIsAlone DEF IInv, Shape
  <2> QED BY <2>2 DEF Linked, Empty
<1> QED BY <1>1, ListInvariant, PTL

(* No thread reads, writes or frees a node that is not allocated.          *)
THEOREM NoFreedNodeIsTouched == Spec => []NoDanglingAccess
<1>1. IInv => NoDanglingAccess
  <2> SUFFICES ASSUME IInv, NEW t \in Threads
               PROVE  /\ At(t, "push", "body") /\ ~Empty => end \in live
                      /\ At(t, "pop", "body") /\ ~Empty => start \in live
                      /\ At(t, "pop", "advance") \/ At(t, "pop", "free") => node[t] \in live
                      /\ At(t, "pop", "advance") => start = node[t]
                      /\ At(t, "len", "body") \/ At(t, "destroy", "body")
                           => node[t] \in live \cup {NULL}
    BY DEF NoDanglingAccess
  <2>1. At(t, "push", "body") \/ At(t, "pop", "body") => Linked(next, live, start, end)
    <3>1. At(t, "push", "body") \/ At(t, "pop", "body")
            => InCriticalSection(t) /\ ~Changing(t)
      BY DEF At, Changing, InCriticalSection
    <3> QED BY <3>1, HolderIsAlone DEF IInv, Shape
  <2>2. ShapeAt(t)
    BY DEF IInv, Shape
  <2> QED BY <2>1, <2>2 DEF ShapeAt, Linked, Empty
<1> QED BY <1>1, ListInvariant, PTL

-----------------------------------------------------------------------------
(* The order of the nodes                                                  *)

(* An order of nodes without repetition is no longer than there are nodes. *)
LEMMA OrderIsShort ==
  ASSUME NEW n \in Nat, NEW s \in [1..n -> Nodes],
         \A i, j \in 1..n : s[i] = s[j] => i = j
  PROVE  n \in 0..Cardinality(Nodes) /\ s \in Orders
<1>1. IsFiniteSet(1..n) /\ Cardinality(1..n) = n
  <2>1. Cardinality(1..n) = IF 1 > n THEN 0 ELSE n - 1 + 1
    BY FS_Interval
  <2> QED BY <2>1, FS_Interval
<1>2. s \in Injection(1..n, Nodes)
  BY DEF Injection, IsInjective
<1>3. IsFiniteSet(Nodes) /\ Cardinality(Nodes) \in Nat
  BY ListAssumption, FS_CardinalityType
<1>4. n <= Cardinality(Nodes)
  BY <1>1, <1>2, <1>3, FS_Injection
<1> QED BY <1>3, <1>4 DEF Orders

(* An order is a function from an interval.                                *)
LEMMA OrderType ==
  ASSUME NEW s \in Orders
  PROVE  \E n \in 0..Cardinality(Nodes) :
           s \in [1..n -> Nodes] /\ DOMAIN s = 1..n /\ Cardinality(DOMAIN s) = n
<1>1. PICK n \in 0..Cardinality(Nodes) : s \in [1..n -> Nodes]
  BY DEF Orders
<1>2. Cardinality(1..n) = n
  <2>1. Cardinality(1..n) = IF 1 > n THEN 0 ELSE n - 1 + 1
    BY FS_Interval
  <2> QED BY <2>1
<1> QED BY <1>1, <1>2

(* Without its first node an order is an order of the others.              *)
LEMMA TailOrder ==
  ASSUME NEW s \in Orders, InOrder(s), NodeAt(s, 1) # NULL
  PROVE  \E r \in Orders :
           /\ DOMAIN r = 1..(Cardinality(DOMAIN s) - 1) /\ 1 \in DOMAIN s
           /\ \A k \in DOMAIN r : k + 1 \in DOMAIN s /\ r[k] = s[k + 1]
           /\ \A i, j \in DOMAIN r : r[i] = r[j] => i = j
           /\ \A i \in DOMAIN r : next[r[i]] = NodeAt(r, i + 1)
           /\ NodesOf(r) = NodesOf(s) \ {s[1]}
           /\ NodeAt(r, 1) = next[s[1]]
<1>0. PICK n \in 0..Cardinality(Nodes) : s \in [1..n -> Nodes] /\ DOMAIN s = 1..n
                                          /\ Cardinality(DOMAIN s) = n
  BY OrderType
<1>1. n \in Nat \ {0} /\ 1 \in 1..n
  BY <1>0, ListAssumption, FS_CardinalityType DEF NodeAt
<1>2. /\ \A i, j \in 1..n : s[i] = s[j] => i = j
      /\ \A i \in 1..n : next[s[i]] = NodeAt(s, i + 1)
  BY <1>0 DEF InOrder
<1>3. ASSUME NEW k \in 1..(n - 1) PROVE k + 1 \in 1..n /\ k + 1 # 1 /\ s[k + 1] \in Nodes
  BY <1>0, <1>1
<1>4. PICK r \in [1..(n - 1) -> Nodes] : \A k \in 1..(n - 1) : r[k] = s[k + 1]
  <2>1. [k \in 1..(n - 1) |-> s[k + 1]] \in [1..(n - 1) -> Nodes]
    BY <1>3
  <2> QED BY <2>1
<1>5. DOMAIN r = 1..(n - 1) /\ n - 1 \in Nat
  BY <1>1
<1>6. ASSUME NEW i \in 1..(n - 1), NEW j \in 1..(n - 1), r[i] = r[j] PROVE i = j
  <2>1. s[i + 1] = s[j + 1]
    BY <1>4, <1>6
  <2>2. i + 1 = j + 1
    BY <1>2, <1>3, <2>1
  <2> QED BY <2>2
<1>7. r \in Orders
  BY <1>5, <1>6, OrderIsShort
<1>8. ASSUME NEW i \in 1..n PROVE NodeAt(r, i) = NodeAt(s, i + 1)
  <2>1. CASE i \in 1..(n - 1)
    BY <1>0, <1>3, <1>4, <1>5, <2>1 DEF NodeAt
  <2>2. CASE i = n
    BY <1>0, <1>5, <2>2 DEF NodeAt
  <2> QED BY <1>1, <2>1, <2>2
<1>9. ASSUME NEW i \in 1..(n - 1) PROVE next[r[i]] = NodeAt(r, i + 1)
  BY <1>2, <1>3, <1>4, <1>8
<1>10. NodesOf(r) = NodesOf(s) \ {s[1]}
  <2>1. ASSUME NEW i \in 1..(n - 1) PROVE r[i] \in NodesOf(s) \ {s[1]}
    <3>1. r[i] = s[i + 1] /\ i + 1 \in 1..n /\ 1 \in 1..n /\ i + 1 # 1
      BY <1>1, <1>3, <1>4
    <3> QED BY <1>0, <1>2, <3>1 DEF NodesOf
  <2>2. ASSUME NEW j \in 1..n, s[j] # s[1] PROVE s[j] \in NodesOf(r)
    <3>1. j - 1 \in 1..(n - 1) /\ (j - 1) + 1 = j
      BY <1>1, <2>2
    <3>2. r[j - 1] = s[j]
      BY <1>4, <3>1
    <3> QED BY <1>5, <3>1, <3>2 DEF NodesOf
  <2> QED BY <1>0, <1>5, <2>1, <2>2 DEF NodesOf
<1>11. NodeAt(r, 1) = next[s[1]]
  BY <1>1, <1>2, <1>8
<1> QED BY <1>0, <1>1, <1>3, <1>4, <1>5, <1>6, <1>7, <1>9, <1>10, <1>11

(* When the list is in order, following k pointers from list->start leads  *)
(* to the node behind the first k ones, or to NULL behind the last.        *)
LEMMA FollowOrder ==
  ASSUME NEW s \in Orders, start = NodeAt(s, 1),
         \A i \in DOMAIN s : next[s[i]] = NodeAt(s, i + 1)
  PROVE  \A k \in Nat : nth[k] = NodeAt(s, k + 1)
<1> DEFINE h == [k \in Nat |-> NodeAt(s, k + 1)]
           Step(f) == [k \in Nat |-> IF k = 0 THEN start
                         ELSE IF f[k - 1] = NULL THEN NULL ELSE next[f[k - 1]]]
           R == OpToRel(<, Nat)
           Bad == {k \in Nat : nth[k] # h[k]}
<1>0. \A j, k \in Nat : <<k, j>> \notin R => j <= k
  BY DEF OpToRel
<1>1. PICK n \in Nat : s \in [1..n -> Nodes] /\ DOMAIN s = 1..n
  <2>1. PICK n \in 0..Cardinality(Nodes) : s \in [1..n -> Nodes] /\ DOMAIN s = 1..n
    BY OrderType
  <2> QED BY <2>1, ListAssumption, FS_CardinalityType
<1>2. ASSUME NEW k \in Nat
      PROVE  h[k] = IF k = 0 THEN start ELSE IF h[k - 1] = NULL THEN NULL ELSE next[h[k - 1]]
  <2>1. CASE k = 0
    BY <2>1
  <2>2. CASE k # 0
    <3>1. k - 1 \in Nat /\ (k - 1) + 1 = k /\ h[k - 1] = NodeAt(s, k)
      BY <2>2
    <3>2. CASE k \in 1..n
      BY <1>1, <3>1, <3>2, <2>2, ListAssumption DEF NodeAt
    <3>3. CASE k \notin 1..n
      BY <1>1, <2>2, <3>1, <3>3 DEF NodeAt
    <3> QED BY <3>2, <3>3
  <2> QED BY <2>1, <2>2
<1>3. h = Step(h)
  <2>1. \A k \in Nat : h[k] = Step(h)[k]
    BY <1>2
  <2> QED BY <2>1
<1> HIDE DEF h
<1>4. nth = Step(nth)
  BY <1>3 DEF nth
<1>5. ASSUME NEW k \in Nat
      PROVE  nth[k] = IF k = 0 THEN start ELSE IF nth[k - 1] = NULL THEN NULL ELSE next[nth[k - 1]]
  BY <1>4
<1>6. Bad = {}
  <2>1. SUFFICES ASSUME Bad # {} PROVE FALSE
    OBVIOUS
  <2>2. IsWellFoundedOn(R, Nat) /\ Bad \in SUBSET Nat
    BY NatLessThanWellFounded
  <2>3. PICK j \in Bad : \A k \in Bad : <<k, j>> \notin R
    <3> HIDE DEF R, Bad
    <3> QED BY <2>1, <2>2, WFMin, Zenon
  <2>4. \A k \in Bad : j <= k
    BY <1>0, <2>2, <2>3
  <2>5. j \in Nat /\ nth[j] # h[j]
    OBVIOUS
  <2>6. CASE j = 0
    BY <1>2, <1>5, <2>5, <2>6
  <2>7. CASE j # 0
    <3>1. j - 1 \in Nat /\ j - 1 \notin Bad
      BY <2>4, <2>5, <2>7
    <3>2. nth[j - 1] = h[j - 1]
      BY <3>1
    <3> QED BY <1>2, <1>5, <2>5, <2>7, <3>2
  <2> QED BY <2>6, <2>7
<1>7. \A k \in Nat : h[k] = NodeAt(s, k + 1)
  BY DEF h
<1> QED BY <1>6, <1>7

(* The nodes reached from list->start, and what they hold.                 *)
LEMMA ReachOrder ==
  ASSUME NEW s \in Orders, start = NodeAt(s, 1),
         \A i \in DOMAIN s : next[s[i]] = NodeAt(s, i + 1)
  PROVE  /\ {nth[k] : k \in Reached} = NodesOf(s)
         /\ Contents = [i \in DOMAIN s |-> data[s[i]]]
<1>1. PICK n \in 0..Cardinality(Nodes) : s \in [1..n -> Nodes] /\ DOMAIN s = 1..n
  BY OrderType
<1>2. n \in Nat /\ Cardinality(Nodes) \in Nat /\ n <= Cardinality(Nodes)
  BY ListAssumption, FS_CardinalityType
<1>3. \A k \in Nat : nth[k] = NodeAt(s, k + 1)
  BY FollowOrder
<1>4. ASSUME NEW k \in 0..Cardinality(Nodes) PROVE nth[k] # NULL <=> k \in 0..(n - 1)
  <2>1. k \in Nat /\ (k + 1 \in 1..n <=> k \in 0..(n - 1))
    BY <1>2
  <2>2. nth[k] = NodeAt(s, k + 1)
    BY <1>3, <2>1
  <2>3. k + 1 \in 1..n => s[k + 1] # NULL
    BY <1>1, ListAssumption
  <2> QED BY <1>1, <2>1, <2>2, <2>3 DEF NodeAt
<1>5. Reached = 0..(n - 1)
  <2>1. \A k \in 0..(n - 1) : k \in 0..Cardinality(Nodes)
    BY <1>2
  <2>2. \A k : k \in Reached <=> k \in 0..(n - 1)
    BY <1>4, <2>1 DEF Reached
  <2> QED BY <2>2
<1>6. Cardinality(Reached) = n
  <2>1. Cardinality(0..(n - 1)) = IF 0 > n - 1 THEN 0 ELSE (n - 1) - 0 + 1
    BY <1>2, FS_Interval
  <2> QED BY <1>2, <1>5, <2>1
<1>7. ASSUME NEW i \in 1..n PROVE nth[i - 1] = s[i] /\ i - 1 \in 0..(n - 1)
  <2>1. i - 1 \in Nat /\ (i - 1) + 1 = i /\ i - 1 \in 0..(n - 1)
    BY <1>2
  <2> QED BY <1>1, <1>3, <2>1 DEF NodeAt
<1>8. ASSUME NEW k \in 0..(n - 1) PROVE nth[k] = s[k + 1] /\ k + 1 \in 1..n
  <2>1. k \in Nat /\ k + 1 \in 1..n
    BY <1>2
  <2> QED BY <1>1, <1>3, <2>1 DEF NodeAt
<1>9. {nth[k] : k \in 0..(n - 1)} = {s[i] : i \in 1..n}
  <2>1. \A k \in 0..(n - 1) : nth[k] \in {s[i] : i \in 1..n}
    BY <1>8
  <2>2. \A i \in 1..n : s[i] \in {nth[k] : k \in 0..(n - 1)}
    BY <1>7
  <2> QED BY <2>1, <2>2
<1>10. Contents = [i \in 1..n |-> data[s[i]]]
  BY <1>6, <1>7 DEF Contents
<1> QED BY <1>1, <1>5, <1>9, <1>10 DEF NodesOf

-----------------------------------------------------------------------------
(* The steps keep the order.                                               *)

(* A step of t that leaves the nodes linked as they are keeps their order. *)
LEMMA StayInOrder ==
  ASSUME NEW s, InOrder(s), NEW t \in Threads,
         \A u \in Threads \ {t} : pc'[u] = pc[u] /\ node'[u] = node[u] /\ val'[u] = val[u],
         next' = next, live' \ Removed' = live \ Removed,
         ~Destroying' => start' = NodeAt(s, 1),
         Destroys(t)' => node'[t] = NodeAt(s, 1),
         At(t, "len", "body")' =>
           val'[t] \in 0..Cardinality(DOMAIN s) /\ node'[t] = NodeAt(s, val'[t] + 1)
  PROVE  InOrder(s)'
<1>1. ASSUME NEW u \in Threads, Destroys(u)' PROVE node'[u] = NodeAt(s, 1)
  BY <1>1 DEF InOrder, Destroys
<1>2. ASSUME NEW u \in Threads, At(u, "len", "body")'
      PROVE  val'[u] \in 0..Cardinality(DOMAIN s) /\ node'[u] = NodeAt(s, val'[u] + 1)
  BY <1>2 DEF InOrder, At
<1> QED BY <1>1, <1>2 DEF InOrder, NodeAt, NodesOf

(* What the threads will return.                                           *)
LEMMA NextResults ==
  ASSUME IInv, ResultsOK, [Next]_vars
  PROVE  ResultsOK'
<1> USE DEF ResultsOK, listVars, At
<1>1. ASSUME NEW t \in Threads, NEW op \in {"push", "pop", "len", "destroy"}, NEW v,
             op # "push" => v = NoData, Call(t, op, v)
      PROVE  ResultsOK'
  BY <1>1 DEF Call, Idle, IInv, TypeOK
<1>2. ASSUME NEW t \in Threads, Lock(t) PROVE ResultsOK'
  BY <1>2 DEF Lock, Goto, IInv, TypeOK, Labels
<1>3. ASSUME NEW t \in Threads, Unlock(t) \/ Return(t) \/ PushEnd(t) \/ PopEmpty(t) \/ PopFree(t)
      PROVE  ResultsOK'
  BY <1>3 DEF Unlock, Return, PushEnd, PopEmpty, PopFree, Goto, Idle, IInv, TypeOK, Labels
<1>4. ASSUME NEW t \in Threads, PopRead(t) PROVE ResultsOK'
  BY <1>4 DEF PopRead, Goto, IInv, TypeOK, Labels
<1>5. ASSUME NEW t \in Threads, PushNode(t) \/ PopAdvance(t) \/ DestroyReset(t) PROVE ResultsOK'
  <2>1. \A u \in Threads \ {t} : ~InCriticalSection(u) /\ pc[u].op # "destroy"
    <3>1. InCriticalSection(t) \/ pc[t].op = "destroy"
      BY <1>5 DEF PushNode, PopAdvance, DestroyReset, InCriticalSection
    <3> QED BY <3>1, HolderIsAlone
  <2>2. \A u \in Threads \ {t} : pc'[u] = pc[u] /\ val'[u] = val[u]
    BY <1>5 DEF PushNode, PopAdvance, DestroyReset, Goto, IInv, TypeOK
  <2>3. \A u \in Threads \ {t} : /\ pc[u] # [op |-> "pop", at |-> "advance"]
                                 /\ ~At(u, "destroy", "unlock") /\ ~At(u, "destroy", "reset")
    BY <2>1 DEF InCriticalSection
  <2>4. /\ pc'[t] \in {[op |-> "push", at |-> "end"], [op |-> "pop", at |-> "free"],
                       [op |-> "destroy", at |-> "return"]}
        /\ pc'[t].op = "destroy" => val'[t] = NoData
        /\ ~At(t, "destroy", "unlock")' /\ ~At(t, "destroy", "reset")'
    BY <1>5 DEF PushNode, PopAdvance, DestroyReset, Goto, IInv, TypeOK, Labels
  <2> QED BY <2>2, <2>3, <2>4
<1>6. ASSUME NEW t \in Threads, LenStep(t) PROVE ResultsOK'
  BY <1>6 DEF LenStep, Goto, IInv, TypeOK, Labels
<1>7. ASSUME NEW t \in Threads, DestroyStep(t) PROVE ResultsOK'
  BY <1>7 DEF DestroyStep, Goto, IInv, TypeOK, Labels
<1>8. CASE UNCHANGED vars
  BY <1>8 DEF vars
<1>9. ASSUME NEW t \in Threads, Body(t) PROVE ResultsOK'
  BY <1>9, <1>3, <1>4, <1>5, <1>6, <1>7 DEF Body
<1> QED BY <1>1, <1>2, <1>8, <1>9 DEF Next

(* The threads other than t are as they were.                              *)
OthersStay(t) ==
  \A u \in Threads \ {t} : pc'[u] = pc[u] /\ node'[u] = node[u] /\ val'[u] = val[u]

(* If t neither begins nor ends to destroy or to free, nothing moves.      *)
LEMMA QuietStep ==
  ASSUME NEW s, InOrder(s), NEW t \in Threads, OthersStay(t),
         UNCHANGED <<start, next, live>>,
         ~At(t, "pop", "free"), ~At(t, "pop", "free")',
         Destroys(t) => Destroys(t)',
         Destroys(t)' => node'[t] = NodeAt(s, 1),
         At(t, "len", "body")' =>
           val'[t] \in 0..Cardinality(DOMAIN s) /\ node'[t] = NodeAt(s, val'[t] + 1)
  PROVE  InOrder(s)'
<1>1. Removed' = Removed
  <2>1. \A u \in Threads : At(u, "pop", "free")' <=> At(u, "pop", "free")
    BY DEF OthersStay, At
  <2>2. \A u \in Threads : At(u, "pop", "free") => node'[u] = node[u]
    BY DEF OthersStay
  <2> QED BY <2>1, <2>2 DEF Removed
<1>2. Destroying => Destroying'
  BY DEF OthersStay, Destroying, Destroys
<1>3. ~Destroying' => start' = NodeAt(s, 1)
  BY <1>2 DEF InOrder
<1> QED BY <1>1, <1>3, StayInOrder DEF OthersStay

(* Those of the callers, the mutex and the queries.                        *)
LEMMA QuietKeepsOrder ==
  ASSUME IInv, NEW s \in Orders, InOrder(s), NEW t \in Threads,
         \/ \E v : \E op \in {"push", "pop", "len", "destroy"} : Call(t, op, v)
         \/ Lock(t) \/ Unlock(t) \/ Return(t) \/ PushEnd(t)
         \/ PopEmpty(t) \/ PopRead(t) \/ LenStep(t)
  PROVE  InOrder(s)'
<1> USE DEF listVars, At, Destroys
<1>1. pc \in [Threads -> Labels] /\ node \in [Threads -> Nodes \cup {NULL}]
      /\ val \in [Threads -> Data \cup {NoData} \cup Nat]
  BY DEF IInv, TypeOK
<1>2. Destroys(t) => node[t] = NodeAt(s, 1)
  BY DEF InOrder
<1>3. PICK n \in 0..Cardinality(Nodes) : s \in [1..n -> Nodes] /\ DOMAIN s = 1..n
                                          /\ Cardinality(DOMAIN s) = n
  BY OrderType
<1>4. n \in Nat
  BY ListAssumption, FS_CardinalityType
<1>5. ASSUME NEW v, NEW op \in {"push", "pop", "len", "destroy"}, Call(t, op, v)
      PROVE  InOrder(s)'
  <2>1. OthersStay(t) /\ UNCHANGED <<start, next, live>> /\ pc[t] = Idle
        /\ pc'[t] = [op |-> op, at |-> "lock"]
    BY <1>1, <1>5 DEF Call, OthersStay
  <2> QED BY <2>1, QuietStep DEF Idle
<1>6. CASE Lock(t)
  <2>1. /\ OthersStay(t) /\ UNCHANGED <<start, next, live>> /\ pc[t].at = "lock"
        /\ pc'[t] = [op |-> pc[t].op, at |-> "body"]
        /\ node'[t] = FirstNode(pc[t].op)
        /\ pc[t].op = "len" => val'[t] = 0
    BY <1>1, <1>6 DEF Lock, Goto, OthersStay
  <2>2. ~InCriticalSection(t) /\ \A u \in Threads : ~InCriticalSection(u)
    BY <1>6, ListAssumption DEF Lock, IInv, MutualExclusion
  <2>3. pc[t].op \in {"len", "destroy"} => start = NodeAt(s, 1)
    <3>1. ASSUME NEW u \in Threads, Destroys(u), pc[t].op \in {"len", "destroy"} PROVE FALSE
      <4>1. u # t
        BY <2>1, <3>1
      <4> QED BY <3>1, <4>1 DEF IInv, DestroyAlone, Idle
    <3> QED BY <3>1 DEF Destroying, InOrder
  <2>4. pc[t].op \in {"len", "destroy"} => node'[t] = NodeAt(s, 1)
    BY <2>1, <2>3 DEF FirstNode
  <2>5. pc[t].op = "len" =>
          val'[t] \in 0..Cardinality(DOMAIN s) /\ node'[t] = NodeAt(s, val'[t] + 1)
    BY <1>3, <1>4, <2>1, <2>4
  <2> QED BY <2>1, <2>4, <2>5, QuietStep
<1>7. CASE Unlock(t)
  <2>1. OthersStay(t) /\ UNCHANGED <<start, next, live>> /\ pc[t].at = "unlock" /\ node'[t] = node[t]
        /\ pc'[t] = [op |-> pc[t].op,
                     at |-> IF pc[t].op = "destroy" THEN "reset" ELSE "return"]
    BY <1>1, <1>7 DEF Unlock, Goto, OthersStay
  <2> QED BY <1>2, <2>1, QuietStep
<1>8. CASE Return(t)
  <2>1. OthersStay(t) /\ UNCHANGED <<start, next, live>> /\ pc[t].at = "return" /\ pc'[t] = Idle
    BY <1>1, <1>8 DEF Return, OthersStay
  <2> QED BY <2>1, QuietStep DEF Idle
<1>9. CASE PushEnd(t) \/ PopEmpty(t)
  <2>1. OthersStay(t) /\ UNCHANGED <<start, next, live>> /\ pc[t].op \in {"push", "pop"}
        /\ pc'[t] = [op |-> pc[t].op, at |-> "unlock"] /\ pc[t].at # "free"
    BY <1>1, <1>9 DEF PushEnd, PopEmpty, Goto, OthersStay
  <2> QED BY <2>1, QuietStep
<1>10. CASE PopRead(t)
  <2>1. OthersStay(t) /\ UNCHANGED <<start, next, live>> /\ pc[t] = [op |-> "pop", at |-> "body"]
        /\ pc'[t] = [op |-> "pop", at |-> "advance"]
    BY <1>1, <1>10 DEF PopRead, Goto, OthersStay
  <2> QED BY <2>1, QuietStep
<1>11. CASE LenStep(t)
  <2>1. OthersStay(t) /\ UNCHANGED <<start, next, live>> /\ pc[t] = [op |-> "len", at |-> "body"]
        /\ \/ /\ node[t] # NULL /\ val'[t] = val[t] + 1 /\ node'[t] = next[node[t]]
              /\ pc'[t] = pc[t]
           \/ pc'[t] = [op |-> "len", at |-> "unlock"]
    BY <1>1, <1>11 DEF LenStep, Goto, OthersStay
  <2>2. val[t] \in 0..n /\ node[t] = NodeAt(s, val[t] + 1)
    BY <1>3, <2>1 DEF InOrder
  <2>3. CASE pc'[t] = [op |-> "len", at |-> "unlock"]
    BY <2>1, <2>3, QuietStep
  <2>4. CASE pc'[t] = pc[t] /\ node[t] # NULL /\ val'[t] = val[t] + 1 /\ node'[t] = next[node[t]]
    <3>1. val[t] + 1 \in 1..n /\ node[t] = s[val[t] + 1]
      BY <1>3, <2>2, <2>4 DEF NodeAt
    <3>2. node'[t] = NodeAt(s, (val[t] + 1) + 1)
      BY <1>3, <2>4, <3>1 DEF InOrder
    <3>3. val'[t] \in 0..Cardinality(DOMAIN s) /\ node'[t] = NodeAt(s, val'[t] + 1)
      BY <1>3, <1>4, <2>4, <3>1, <3>2
    <3> QED BY <2>1, <2>4, <3>3, QuietStep
  <2> QED BY <2>1, <2>3, <2>4
<1> QED BY <1>5, <1>6, <1>7, <1>8, <1>9, <1>10, <1>11

(* linkedListPushBack links the new node behind the last one.              *)
LEMMA PushKeepsOrder ==
  ASSUME IInv, NEW s \in Orders, InOrder(s), NEW t \in Threads, PushNode(t)
  PROVE  \E r \in Orders :
           /\ InOrder(r)'
           /\ \E x \in Nodes \ live :
                /\ data' = [data EXCEPT ![x] = val[t]]
                /\ r[Cardinality(DOMAIN s) + 1] = x
           /\ DOMAIN r = 1..(Cardinality(DOMAIN s) + 1)
           /\ \A k \in DOMAIN s : r[k] = s[k]
<1>1. PICK n \in 0..Cardinality(Nodes) : s \in [1..n -> Nodes] /\ DOMAIN s = 1..n
                                          /\ Cardinality(DOMAIN s) = n
  BY OrderType
<1>2. n \in Nat
  BY ListAssumption, FS_CardinalityType
<1>3. PICK x \in Nodes \ live :
        /\ live' = live \cup {x} /\ data' = [data EXCEPT ![x] = val[t]]
        /\ \/ /\ Empty /\ start' = x
              /\ next' = [next EXCEPT ![x] = NULL]
           \/ /\ ~Empty /\ start' = start
              /\ next' = [next EXCEPT ![x] = NULL, ![end] = x]
  BY DEF PushNode
<1>4. pc[t] = [op |-> "push", at |-> "body"] /\ pc'[t] = [op |-> "push", at |-> "end"]
      /\ OthersStay(t)
  BY DEF PushNode, At, Goto, OthersStay, IInv, TypeOK
<1>5. \A u \in Threads \ {t} : /\ ~InCriticalSection(u) /\ ~Changing(u)
                               /\ pc[u].op # "destroy"
  <2>1. InCriticalSection(t)
    BY <1>4 DEF InCriticalSection
  <2> QED BY <2>1, HolderIsAlone
<1>6. \A u \in Threads : /\ ~At(u, "pop", "free") /\ ~At(u, "pop", "free")'
                         /\ ~Destroys(u) /\ ~Destroys(u)'
                         /\ ~At(u, "len", "body")'
  BY <1>4, <1>5 DEF At, Destroys, InCriticalSection, OthersStay
<1>7. Removed = {} /\ Removed' = {} /\ ~Destroying /\ ~Destroying'
  BY <1>6 DEF Removed, Destroying
<1>8. /\ \A i, j \in 1..n : s[i] = s[j] => i = j
      /\ \A i \in 1..n : next[s[i]] = NodeAt(s, i + 1)
      /\ NodesOf(s) = live /\ start = NodeAt(s, 1)
  BY <1>1, <1>7 DEF InOrder
<1>9. Linked(next, live, start, end)
  <2>1. \A u \in Threads : ~Changing(u)
    BY <1>4, <1>5 DEF Changing, At
  <2> QED BY <2>1 DEF IInv, Shape
<1>10. next \in [Nodes -> Nodes \cup {NULL}] /\ live \subseteq Nodes /\ NULL \notin Nodes
  BY ListAssumption DEF IInv, TypeOK
<1>11. next'[x] = NULL /\ \A i \in 1..n : next'[s[i]] = IF i = n THEN x ELSE s[i + 1]
  <2>1. CASE Empty
    <3>1. start = NULL
      BY <1>9, <2>1 DEF Empty, Linked
    <3>2. n = 0
      BY <1>1, <1>2, <1>8, <1>10, <3>1 DEF NodeAt
    <3> QED BY <1>3, <1>10, <2>1, <3>2
  <2>2. CASE ~Empty
    <3>1. end \in live /\ next[end] = NULL /\ end # x
      BY <1>3, <1>9, <1>10, <2>2 DEF Empty, Linked
    <3>2. PICK m \in 1..n : end = s[m]
      BY <1>1, <1>8, <3>1 DEF NodesOf
    <3>3. m = n
      <4>1. m + 1 \notin 1..n
        BY <1>1, <1>8, <1>10, <3>1, <3>2 DEF NodeAt
      <4> QED BY <1>2, <3>2, <4>1
    <3>4. next' = [next EXCEPT ![x] = NULL, ![end] = x]
      BY <1>3, <2>2
    <3>5. ASSUME NEW i \in 1..n, i # n PROVE next'[s[i]] = s[i + 1]
      <4>1. i + 1 \in 1..n /\ s[i] # s[n] /\ s[i] \in live
        <5>1. i + 1 \in 1..n /\ n \in 1..n
          BY <1>2, <3>5
        <5>2. s[i] # s[n]
          BY <1>8, <3>5, <5>1
        <5>3. s[i] \in live
          BY <1>1, <1>8 DEF NodesOf
        <5> QED BY <5>1, <5>2, <5>3
      <4>2. next'[s[i]] = next[s[i]]
        BY <1>3, <1>10, <3>2, <3>3, <3>4, <4>1
      <4> QED BY <1>1, <1>8, <4>1, <4>2 DEF NodeAt
    <3>6. next'[x] = NULL /\ next'[s[n]] = x
      BY <1>10, <3>1, <3>2, <3>3, <3>4
    <3> QED BY <3>5, <3>6
  <2> QED BY <2>1, <2>2
<1>12. x \in Nodes /\ x \notin NodesOf(s)
  BY <1>8
<1> DEFINE r == [k \in 1..(n + 1) |-> IF k = n + 1 THEN x ELSE s[k]]
<1>13. r \in [1..(n + 1) -> Nodes] /\ DOMAIN r = 1..(n + 1) /\ n + 1 \in Nat
       /\ r[n + 1] = x /\ \A k \in 1..n : r[k] = s[k]
  BY <1>1, <1>2, <1>12
<1> HIDE DEF r
<1>14. /\ r[Cardinality(DOMAIN s) + 1] = x /\ DOMAIN r = 1..(Cardinality(DOMAIN s) + 1)
       /\ \A k \in DOMAIN s : r[k] = s[k]
  BY <1>1, <1>13
<1>15. ASSUME NEW k \in 1..n PROVE k \in 1..(n + 1) /\ k # n + 1 /\ r[k] = s[k] /\ r[k] # x
  BY <1>1, <1>2, <1>12, <1>13 DEF NodesOf
<1>16. n + 1 \in 1..(n + 1) /\ \A k \in 1..(n + 1) : k \in 1..n \/ k = n + 1
  BY <1>2
<1>17. ASSUME NEW i \in 1..(n + 1), NEW j \in 1..(n + 1), r[i] = r[j] PROVE i = j
  BY <1>8, <1>13, <1>15, <1>16, <1>17
<1>18. r \in Orders
  BY <1>13, <1>17, OrderIsShort
<1>19. ASSUME NEW i \in 1..(n + 1) PROVE next'[r[i]] = NodeAt(r, i + 1)
  <2>1. CASE i = n + 1
    <3>1. NodeAt(r, i + 1) = NULL
      BY <1>2, <1>13, <2>1 DEF NodeAt
    <3> QED BY <1>11, <1>13, <2>1, <3>1
  <2>2. CASE i \in 1..n /\ i = n
    <3>1. NodeAt(r, i + 1) = x
      BY <1>13, <1>16, <2>2 DEF NodeAt
    <3> QED BY <1>11, <1>13, <2>2, <3>1
  <2>3. CASE i \in 1..n /\ i # n
    <3>1. i + 1 \in 1..n
      BY <1>2, <2>3
    <3>2. NodeAt(r, i + 1) = s[i + 1]
      BY <1>13, <1>15, <3>1 DEF NodeAt
    <3> QED BY <1>11, <1>13, <2>3, <3>2
  <2> QED BY <1>16, <2>1, <2>2, <2>3
<1>20. NodesOf(r) = NodesOf(s) \cup {x}
  BY <1>1, <1>13, <1>15, <1>16 DEF NodesOf
<1>21. start' = NodeAt(r, 1)
  <2>1. CASE n = 0
    <3>1. Empty
      BY <1>1, <1>8, <2>1 DEF NodeAt, Empty
    <3>2. NodeAt(r, 1) = x
      BY <1>13, <1>16, <2>1 DEF NodeAt
    <3> QED BY <1>3, <3>1, <3>2
  <2>2. CASE n # 0
    <3>1. 1 \in 1..n /\ start = s[1]
      BY <1>1, <1>2, <1>8, <2>2 DEF NodeAt
    <3>2. ~Empty
      BY <1>1, <1>9, <1>10, <3>1 DEF Empty, Linked
    <3>3. NodeAt(r, 1) = s[1]
      BY <1>13, <1>15, <3>1 DEF NodeAt
    <3> QED BY <1>3, <3>1, <3>2, <3>3
  <2> QED BY <2>1, <2>2
<1>22. NodesOf(r) = live' \ Removed'
  BY <1>3, <1>7, <1>8, <1>20
<1>23. InOrder(r)'
  <2>1. \A i, j \in DOMAIN r : r[i] = r[j] => i = j
    BY <1>13, <1>17
  <2>2. \A i \in DOMAIN r : next'[r[i]] = NodeAt(r, i + 1)
    BY <1>13, <1>19
  <2> QED BY <1>6, <1>21, <1>22, <2>1, <2>2 DEF InOrder, NodeAt, NodesOf
<1> QED BY <1>3, <1>14, <1>18, <1>23

(* linkedListPopFront moves the start on, linkedListDestroy frees the front*)
(* node: in both the order loses its first node.                           *)
LEMMA FrontGoes ==
  ASSUME IInv, NEW s \in Orders, InOrder(s), NEW t \in Threads,
         \/ PopAdvance(t)
         \/ DestroyStep(t) /\ node[t] # NULL
  PROVE  \E r \in Orders :
           /\ InOrder(r)'
           /\ DOMAIN r = 1..(Cardinality(DOMAIN s) - 1) /\ 1 \in DOMAIN s
           /\ \A k \in DOMAIN r : k + 1 \in DOMAIN s /\ r[k] = s[k + 1]
           /\ node[t] = s[1]
<1>1. \A u \in Threads \ {t} : /\ ~InCriticalSection(u) /\ ~Changing(u)
                               /\ pc[u].op # "destroy"
  <2>1. InCriticalSection(t)
    BY DEF PopAdvance, DestroyStep, InCriticalSection, At
  <2> QED BY <2>1, HolderIsAlone
<1>2. OthersStay(t) /\ next' = next /\ pc[t].at \in {"advance", "body"} /\ node[t] # NULL
      /\ pc[t].op \in {"pop", "destroy"}
  BY ListAssumption DEF PopAdvance, DestroyStep, At, Goto, OthersStay, IInv, TypeOK,
     Shape, ShapeAt
<1>3. \A u \in Threads \ {t} : /\ ~At(u, "pop", "free") /\ ~At(u, "pop", "free")'
                               /\ ~Destroys(u) /\ ~Destroys(u)'
                               /\ ~At(u, "len", "body")'
  BY <1>1, <1>2 DEF At, Destroys, InCriticalSection, OthersStay
<1>4. Removed = {}
  BY <1>2, <1>3 DEF Removed, At
<1>5. NodesOf(s) = live
  BY <1>4 DEF InOrder
<1>6. node[t] = NodeAt(s, 1)
  <2>1. CASE PopAdvance(t)
    <3>0. At(t, "pop", "advance") /\ ShapeAt(t)
      BY <2>1 DEF PopAdvance, IInv, Shape
    <3>1. node[t] = start /\ pc[t].op = "pop"
      BY <3>0 DEF At, ShapeAt
    <3>2. ~Destroying
      BY <1>3, <3>1 DEF Destroying, Destroys
    <3> QED BY <3>1, <3>2 DEF InOrder
  <2>2. CASE DestroyStep(t)
    BY <2>2 DEF DestroyStep, At, Destroys, InOrder
  <2> QED BY <2>1, <2>2
<1>7. PICK r \in Orders :
        /\ DOMAIN r = 1..(Cardinality(DOMAIN s) - 1) /\ 1 \in DOMAIN s
        /\ \A k \in DOMAIN r : k + 1 \in DOMAIN s /\ r[k] = s[k + 1]
        /\ \A i, j \in DOMAIN r : r[i] = r[j] => i = j
        /\ \A i \in DOMAIN r : next[r[i]] = NodeAt(r, i + 1)
        /\ NodesOf(r) = NodesOf(s) \ {s[1]}
        /\ NodeAt(r, 1) = next[s[1]]
  BY <1>2, <1>6, TailOrder
<1>8. node[t] = s[1]
  BY <1>6, <1>7 DEF NodeAt
<1>9. CASE PopAdvance(t)
  <2>1. /\ pc'[t] = [op |-> "pop", at |-> "free"] /\ node' = node /\ live' = live
        /\ start' = next[start] /\ node[t] = start
    <3>1. At(t, "pop", "advance") /\ ShapeAt(t)
      BY <1>9 DEF PopAdvance, IInv, Shape
    <3>2. node[t] = start
      BY <3>1 DEF ShapeAt
    <3> QED BY <1>9, <3>2 DEF PopAdvance, At, Goto, IInv, TypeOK
  <2>2. Removed' = {node[t]}
    <3>1. {u \in Threads : At(u, "pop", "free")}' = {t}
      BY <1>3, <2>1 DEF At
    <3> QED BY <2>1, <3>1 DEF Removed
  <2>3. NodesOf(r) = live' \ Removed'
    BY <1>5, <1>7, <1>8, <2>1, <2>2
  <2>4. start' = NodeAt(r, 1)
    BY <1>7, <1>8, <2>1
  <2>5. \A u \in Threads : ~Destroys(u)' /\ ~At(u, "len", "body")'
    BY <1>3, <2>1 DEF Destroys, At
  <2>6. InOrder(r)'
    BY <1>2, <1>7, <2>3, <2>4, <2>5 DEF InOrder, NodeAt, NodesOf
  <2> QED BY <1>7, <1>8, <2>6
<1>10. CASE DestroyStep(t) /\ node[t] # NULL
  <2>1. /\ pc'[t] = [op |-> "destroy", at |-> "body"] /\ node'[t] = next[node[t]]
        /\ live' = live \ {node[t]}
    BY <1>10 DEF DestroyStep, At, IInv, TypeOK
  <2>2. Removed' = {}
    BY <1>3, <2>1 DEF Removed, At
  <2>3. NodesOf(r) = live' \ Removed'
    BY <1>5, <1>7, <1>8, <2>1, <2>2
  <2>4. node'[t] = NodeAt(r, 1)
    BY <1>7, <1>8, <2>1
  <2>5. Destroying'
    BY <2>1 DEF Destroying, Destroys
  <2>6. ASSUME NEW u \in Threads PROVE /\ Destroys(u)' => node'[u] = NodeAt(r, 1)
                                       /\ ~At(u, "len", "body")'
    <3>1. ~At(t, "len", "body")'
      BY <2>1 DEF At
    <3> QED BY <1>3, <2>4, <3>1
  <2>7. InOrder(r)'
    <3>1. \A i \in DOMAIN r : next'[r[i]] = NodeAt(r, i + 1)
      BY <1>2, <1>7
    <3>2. \A i, j \in DOMAIN r : r[i] = r[j] => i = j
      BY <1>7
    <3>3. \A u \in Threads : Destroys(u)' => node'[u] = NodeAt(r, 1)
      BY <2>6
    <3>4. \A u \in Threads : ~At(u, "len", "body")'
      BY <2>6
    <3> QED BY <2>3, <2>5, <3>1, <3>2, <3>3, <3>4 DEF InOrder, NodeAt, NodesOf
  <2> QED BY <1>7, <1>8, <2>7
<1> QED BY <1>9, <1>10

(* The last step of a pop and those that end a destruction move no node.   *)
LEMMA EndingsKeepOrder ==
  ASSUME IInv, ResultsOK, NEW s \in Orders, InOrder(s), NEW t \in Threads,
         \/ PopFree(t)
         \/ DestroyStep(t) /\ node[t] = NULL
         \/ DestroyReset(t)
  PROVE  InOrder(s)'
<1>1. \A u \in Threads \ {t} : /\ ~InCriticalSection(u) /\ ~Changing(u)
                               /\ pc[u].op # "destroy"
  <2>1. InCriticalSection(t) \/ pc[t].op = "destroy"
    BY DEF PopFree, DestroyStep, DestroyReset, InCriticalSection, At
  <2> QED BY <2>1, HolderIsAlone
<1>2. OthersStay(t) /\ next' = next
  BY DEF PopFree, DestroyStep, DestroyReset, At, Goto, OthersStay, IInv, TypeOK
<1>3. \A u \in Threads \ {t} : /\ ~At(u, "pop", "free") /\ ~At(u, "pop", "free")'
                               /\ ~Destroys(u) /\ ~Destroys(u)'
  BY <1>1, <1>2 DEF At, Destroys, InCriticalSection, OthersStay
<1>4. CASE PopFree(t)
  <2>1. /\ pc[t] = [op |-> "pop", at |-> "free"] /\ live' = live \ {node[t]}
        /\ pc'[t] = [op |-> "pop", at |-> "unlock"] /\ start' = start
    BY <1>4 DEF PopFree, At, Goto, IInv, TypeOK
  <2>2. {u \in Threads : At(u, "pop", "free")} = {t}
    BY <1>3, <2>1 DEF At
  <2>3. Removed = {node[t]}
    BY <2>2 DEF Removed
  <2>4. Removed' = {} /\ ~Destroying /\ ~Destroying'
    BY <1>3, <2>1 DEF Removed, At, Destroying, Destroys
  <2>5. live' \ Removed' = live \ Removed
    BY <2>1, <2>3, <2>4
  <2>6. start' = NodeAt(s, 1)
    BY <2>1, <2>4 DEF InOrder
  <2>7. ~Destroys(t)' /\ ~At(t, "len", "body")'
    BY <2>1 DEF Destroys, At
  <2> QED BY <1>2, <2>5, <2>6, <2>7, StayInOrder DEF OthersStay
<1>5. CASE DestroyStep(t) /\ node[t] = NULL
  <2>1. /\ pc[t] = [op |-> "destroy", at |-> "body"]
        /\ pc'[t] = [op |-> "destroy", at |-> "unlock"] /\ node'[t] = node[t]
        /\ UNCHANGED <<start, next, live>>
    BY <1>5 DEF DestroyStep, At, Goto, IInv, TypeOK
  <2>2. Destroys(t) /\ node[t] = NodeAt(s, 1)
    BY <2>1 DEF InOrder, Destroys
  <2> QED BY <1>2, <2>1, <2>2, QuietStep DEF Destroys, At
<1>6. CASE DestroyReset(t)
  <2>1. /\ pc[t] = [op |-> "destroy", at |-> "reset"] /\ start' = NULL
        /\ pc'[t] = [op |-> "destroy", at |-> "return"]
        /\ UNCHANGED <<next, live>>
    BY <1>6 DEF DestroyReset, At, Goto, IInv, TypeOK
  <2>2. Destroys(t) /\ node[t] = NodeAt(s, 1) /\ node[t] = NULL
    BY <2>1 DEF InOrder, Destroys, ResultsOK, At
  <2>3. Removed = {} /\ Removed' = {}
    BY <1>3, <2>1 DEF Removed, At
  <2>4. ~Destroys(t)' /\ ~At(t, "len", "body")'
    BY <2>1 DEF Destroys, At
  <2> QED BY <1>2, <2>1, <2>2, <2>3, <2>4, StayInOrder DEF OthersStay
<1> QED BY <1>4, <1>5, <1>6

(* OrderInv holds of the empty list.                                       *)
LEMMA InitOrder == Init => OrderInv
<1> SUFFICES ASSUME Init PROVE OrderInv
  OBVIOUS
<1>1. PICK s : s \in [1..0 -> Nodes] /\ DOMAIN s = {}
  <2>1. 1..0 = {} /\ [i \in 1..0 |-> NULL] \in [1..0 -> Nodes]
    OBVIOUS
  <2>2. DOMAIN [i \in 1..0 |-> NULL] = {}
    BY <2>1
  <2> QED BY <2>1, <2>2
<1>2. s \in Orders
  BY <1>1, ListAssumption, FS_CardinalityType DEF Orders
<1>3. InOrder(s)
  BY <1>1 DEF Init, InOrder, NodesOf, NodeAt, Removed, Destroying, Destroys, At, Idle
<1>4. ResultsOK
  BY DEF Init, ResultsOK, At, Idle
<1> QED BY <1>2, <1>3, <1>4 DEF OrderInv, Ordered

(* Every step keeps OrderInv.                                              *)
LEMMA NextOrder == IInv /\ OrderInv /\ [Next]_vars => OrderInv'
<1> SUFFICES ASSUME IInv, OrderInv, [Next]_vars PROVE OrderInv'
  OBVIOUS
<1>1. ResultsOK'
  BY NextResults DEF OrderInv
<1>2. PICK s \in Orders : InOrder(s)
  BY DEF OrderInv, Ordered
<1>3. ASSUME NEW t \in Threads, NEW v, NEW op \in {"push", "pop", "len", "destroy"},
             Call(t, op, v)
      PROVE  Ordered'
  <2>1. InOrder(s)'
    BY <1>2, <1>3, QuietKeepsOrder
  <2> QED BY <2>1 DEF Ordered, Orders
<1>4. ASSUME NEW t \in Threads, Lock(t) PROVE Ordered'
  <2>1. InOrder(s)'
    BY <1>2, <1>4, QuietKeepsOrder
  <2> QED BY <2>1 DEF Ordered, Orders
<1>5. ASSUME NEW t \in Threads, Body(t) PROVE Ordered'
  <2>1. CASE PushNode(t)
    BY <1>2, <2>1, PushKeepsOrder DEF Ordered, Orders
  <2>2. CASE PopAdvance(t) \/ (DestroyStep(t) /\ node[t] # NULL)
    BY <1>2, <2>2, FrontGoes DEF Ordered, Orders
  <2>3. CASE PopFree(t) \/ (DestroyStep(t) /\ node[t] = NULL) \/ DestroyReset(t)
    <3>1. InOrder(s)'
      BY <1>2, <2>3, EndingsKeepOrder DEF OrderInv
    <3> QED BY <3>1 DEF Ordered, Orders
  <2>4. CASE Unlock(t) \/ Return(t) \/ PushEnd(t) \/ PopEmpty(t) \/ PopRead(t) \/ LenStep(t)
    <3>1. InOrder(s)'
      BY <1>2, <2>4, QuietKeepsOrder
    <3> QED BY <3>1 DEF Ordered, Orders
  <2>5. \/ PushNode(t) \/ PopAdvance(t) \/ PopFree(t) \/ DestroyStep(t) \/ DestroyReset(t)
        \/ Unlock(t) \/ Return(t) \/ PushEnd(t) \/ PopEmpty(t) \/ PopRead(t) \/ LenStep(t)
    BY <1>5 DEF Body
  <2>6. CASE DestroyStep(t)
    BY <2>2, <2>3, <2>6
  <2> QED BY <2>1, <2>2, <2>3, <2>4, <2>5, <2>6
<1>6. ASSUME UNCHANGED vars PROVE Ordered'
  <2>1. InOrder(s)'
    BY <1>2, <1>6 DEF vars, InOrder, NodeAt, NodesOf, Removed, Destroying, Destroys, At
  <2> QED BY <2>1 DEF Ordered, Orders
<1>7. Ordered'
  BY <1>3, <1>4, <1>5, <1>6 DEF Next
<1> QED BY <1>1, <1>7 DEF OrderInv

(* No node leaks: outside of a removal the allocated nodes are those the   *)
(* list reaches from its start.                                            *)
LEMMA OrderMeansNoLeak == IInv /\ OrderInv => NoLeak
<1> SUFFICES ASSUME IInv, OrderInv, \A t \in Threads : ~At(t, "pop", "free"), ~Destroying
             PROVE  live = {nth[k] : k \in Reached}
  BY DEF NoLeak
<1>1. PICK s \in Orders : InOrder(s)
  BY DEF OrderInv, Ordered
<1>2. Removed = {}
  BY DEF Removed
<1>3. NodesOf(s) = live
  BY <1>1, <1>2, ListAssumption DEF InOrder, IInv, TypeOK
<1>4. start = NodeAt(s, 1) /\ \A i \in DOMAIN s : next[s[i]] = NodeAt(s, i + 1)
  BY <1>1 DEF InOrder
<1> QED BY <1>3, <1>4, ReachOrder

(* In every reachable state the allocated nodes are the nodes of the list, *)
(* apart from the one a pop is about to free: linkedListPopFront and       *)
(* linkedListDestroy lose none, whatever the threads do at the same time.  *)
THEOREM NothingLeaks == Spec => []NoLeak
<1>1. Init => IInv /\ OrderInv
  BY InitIInv, InitOrder
<1>2. IInv /\ OrderInv /\ [Next]_vars => (IInv /\ OrderInv)'
  BY NextIInv, NextOrder
<1> QED BY <1>1, <1>2, OrderMeansNoLeak, PTL DEF Spec

-----------------------------------------------------------------------------
(* The FIFO queue                                                          *)

(* What the queue holds when the nodes of the list are in the order s.     *)
Values(s) == [i \in DOMAIN s |-> data[s[i]]]
Reads == \A s \in Orders : InOrder(s) =>
           AbstractQueue = IF Destroying THEN <<>> ELSE Values(s)

(* Whatever order the nodes are in, their data are the abstract queue.     *)
LEMMA ReadsValues == Reads
<1> SUFFICES ASSUME NEW s \in Orders, InOrder(s)
             PROVE  AbstractQueue = IF Destroying THEN <<>> ELSE Values(s)
  BY DEF Reads
<1>1. CASE Destroying
  BY <1>1 DEF AbstractQueue
<1>2. CASE ~Destroying
  <2>1. start = NodeAt(s, 1) /\ \A i \in DOMAIN s : next[s[i]] = NodeAt(s, i + 1)
    BY <1>2 DEF InOrder
  <2> QED BY <1>2, <2>1, ReachOrder DEF AbstractQueue, Values
<1> QED BY <1>1, <1>2

(* They are a sequence as long as the order.                               *)
LEMMA ValuesType ==
  ASSUME IInv, NEW s \in Orders
  PROVE  /\ Values(s) \in Seq(Data \cup {NoData})
         /\ Len(Values(s)) = Cardinality(DOMAIN s)
         /\ DOMAIN s = 1..Cardinality(DOMAIN s) /\ Cardinality(DOMAIN s) \in Nat
         /\ \A i \in DOMAIN s : s[i] \in Nodes /\ Values(s)[i] = data[s[i]]
<1>1. PICK n \in 0..Cardinality(Nodes) : s \in [1..n -> Nodes] /\ DOMAIN s = 1..n
                                          /\ Cardinality(DOMAIN s) = n
  BY OrderType
<1>2. n \in Nat
  BY ListAssumption, FS_CardinalityType
<1>3. \A i \in 1..n : s[i] \in Nodes /\ data[s[i]] \in Data \cup {NoData}
  BY <1>1 DEF IInv, TypeOK
<1>4. Values(s) \in [1..n -> Data \cup {NoData}]
  BY <1>1, <1>3 DEF Values
<1>5. Values(s) \in Seq(Data \cup {NoData}) /\ Len(Values(s)) = n
  BY <1>2, <1>4
<1> QED BY <1>1, <1>2, <1>3, <1>5 DEF Values

(* What a step of t does to the calls.                                     *)
LEMMA CallsOfOthers ==
  ASSUME NEW t \in Threads, OthersStay(t), NEW c, CallOf(t)' = c
  PROVE  AbstractCall' = [AbstractCall EXCEPT ![t] = c]
<1>1. \A u \in Threads \ {t} : CallOf(u)' = CallOf(u)
  BY DEF OthersStay, CallOf, Effective, At
<1> QED BY <1>1 DEF AbstractCall

(* The queue is as it was if the order, the data and who destroys are.     *)
LEMMA QueueStays ==
  ASSUME Reads, Reads', NEW s \in Orders, InOrder(s), InOrder(s)', data' = data,
         NEW t \in Threads, OthersStay(t), Destroys(t)' <=> Destroys(t)
  PROVE  AbstractQueue' = AbstractQueue
<1>1. Destroying' <=> Destroying
  BY DEF Destroying, Destroys, OthersStay
<1> QED BY <1>1 DEF Reads, Values, Orders

(* Steps that a user of the queue does not see.                            *)
LEMMA HiddenStep ==
  ASSUME Reads, Reads', NEW s \in Orders, InOrder(s), InOrder(s)',
         NEW t \in Threads, OthersStay(t), data' = data, closed' = closed,
         Destroys(t)' <=> Destroys(t), CallOf(t)' = CallOf(t)
  PROVE  UNCHANGED Fifo!vars
<1>1. AbstractCall' = AbstractCall
  <2>1. AbstractCall' = [AbstractCall EXCEPT ![t] = CallOf(t)]
    BY CallsOfOthers
  <2> QED BY <2>1 DEF AbstractCall
<1>2. AbstractQueue' = AbstractQueue
  BY QueueStays
<1> QED BY <1>1, <1>2 DEF Fifo!vars

(* A call begins in both.                                                  *)
LEMMA CallRefines ==
  ASSUME IInv, Reads, Reads', NEW s \in Orders, InOrder(s), InOrder(s)', NEW t \in Threads,
         NEW op \in {"push", "pop", "len", "destroy"}, NEW v, op # "push" => v = NoData,
         Call(t, op, v)
  PROVE  Fifo!Call(t, op, v)
<1>1. OthersStay(t) /\ pc[t] = Idle /\ pc'[t] = [op |-> op, at |-> "lock"] /\ val'[t] = v
      /\ data' = data
  BY DEF Call, OthersStay, listVars, IInv, TypeOK
<1>2. CallOf(t)' = [op |-> op, state |-> "pending", val |-> v]
  BY <1>1 DEF CallOf, Effective, At, Idle
<1>3. AbstractCall' = [AbstractCall EXCEPT ![t] = [op |-> op, state |-> "pending", val |-> v]]
  BY <1>1, <1>2, CallsOfOthers
<1>4. \A u \in Threads : pc[u] = Idle => AbstractCall[u] = Fifo!NoCall
  BY DEF AbstractCall, CallOf, Fifo!NoCall
<1>5. AbstractQueue' = AbstractQueue
  BY <1>1, QueueStays DEF Destroys, Idle
<1> QED BY <1>1, <1>3, <1>4, <1>5 DEF Call, Fifo!Call

(* A return ends in both.                                                  *)
LEMMA ReturnRefines ==
  ASSUME IInv, Reads, Reads', NEW s \in Orders, InOrder(s), InOrder(s)', NEW t \in Threads,
         Return(t)
  PROVE  Fifo!Return(t)
<1>1. OthersStay(t) /\ pc[t].at = "return" /\ pc'[t] = Idle /\ data' = data /\ closed' = closed
  BY DEF Return, OthersStay, listVars, IInv, TypeOK
<1>2. CallOf(t)' = Fifo!NoCall
  BY <1>1 DEF CallOf, Fifo!NoCall
<1>3. AbstractCall' = [AbstractCall EXCEPT ![t] = Fifo!NoCall]
  BY <1>1, <1>2, CallsOfOthers
<1>4. AbstractCall[t].state = "done"
  BY <1>1 DEF AbstractCall, CallOf, Effective, Idle
<1>5. AbstractQueue' = AbstractQueue
  BY <1>1, QueueStays DEF Destroys, Idle
<1> QED BY <1>1, <1>3, <1>4, <1>5 DEF Fifo!Return

(* The destruction takes effect when it has the mutex; otherwise the lock  *)
(* is not seen.                                                            *)
LEMMA LockRefines ==
  ASSUME IInv, ResultsOK, Reads, Reads', NEW s \in Orders, InOrder(s), InOrder(s)',
         NEW t \in Threads, Lock(t)
  PROVE  Fifo!Destroy(t) \/ UNCHANGED Fifo!vars
<1>1. /\ OthersStay(t) /\ pc[t] \in Labels /\ pc[t].at = "lock"
      /\ pc'[t] = [op |-> pc[t].op, at |-> "body"]
      /\ pc[t].op # "len" => val'[t] = val[t]
      /\ data' = data /\ closed' = closed
  BY DEF Lock, Goto, OthersStay, listVars, IInv, TypeOK
<1>2. pc[t] = [op |-> pc[t].op, at |-> "lock"]
  BY <1>1 DEF Labels
<1>3. CASE pc[t].op = "destroy"
  <2>1. CallOf(t) = [op |-> "destroy", state |-> "pending", val |-> NoData]
    BY <1>2, <1>3 DEF CallOf, Effective, At, Idle
  <2>2. val'[t] = NoData
    BY <1>1, <1>3 DEF ResultsOK
  <2>3. CallOf(t)' = [op |-> "destroy", state |-> "done", val |-> NoData]
    BY <1>1, <1>3, <2>2 DEF CallOf, Effective, At, Idle
  <2>4. AbstractCall[t] = [op |-> "destroy", state |-> "pending", val |-> NoData]
    BY <2>1 DEF AbstractCall
  <2>5. AbstractCall' = [AbstractCall EXCEPT ![t] =
                           [op |-> @.op, state |-> "done", val |-> NoData]]
    BY <1>1, <2>3, <2>4, CallsOfOthers
  <2>6. Destroying'
    BY <1>1, <1>3 DEF Destroying, Destroys
  <2>7. AbstractQueue' = <<>>
    BY <2>6 DEF AbstractQueue
  <2> QED BY <1>1, <2>4, <2>5, <2>7 DEF Fifo!Destroy, Fifo!Pending, Fifo!Done
<1>4. CASE pc[t].op # "destroy"
  <2>1. CallOf(t)' = CallOf(t)
    BY <1>1, <1>2, <1>4 DEF CallOf, Effective, At, Idle
  <2> QED BY <1>1, <1>4, <2>1, HiddenStep DEF Destroys
<1> QED BY <1>3, <1>4

(* Neither are an unlock, the assignment to list->end, the reading of the  *)
(* first node, free, and a step of a walk that goes on.                    *)
LEMMA WalkIsHidden ==
  ASSUME IInv, Reads, Reads', NEW s \in Orders, InOrder(s), InOrder(s)', NEW t \in Threads,
         \/ Unlock(t) \/ PushEnd(t) \/ PopRead(t) \/ PopFree(t)
         \/ LenStep(t) /\ node[t] # NULL
         \/ DestroyStep(t) /\ node[t] = NULL
  PROVE  UNCHANGED Fifo!vars
<1>1. OthersStay(t) /\ data' = data /\ closed' = closed
  BY DEF Unlock, PushEnd, PopRead, PopFree, LenStep, DestroyStep, Goto, OthersStay,
     listVars, IInv, TypeOK
<1>2. (Destroys(t)' <=> Destroys(t)) /\ CallOf(t)' = CallOf(t)
  <2> USE DEF Destroys, CallOf, Effective, At, Idle
  <2>1. CASE Unlock(t)
    <3>1. /\ pc[t] \in Labels /\ pc[t].at = "unlock" /\ val'[t] = val[t]
          /\ pc'[t] = [op |-> pc[t].op,
                       at |-> IF pc[t].op = "destroy" THEN "reset" ELSE "return"]
      BY <2>1 DEF Unlock, Goto, IInv, TypeOK
    <3> QED BY <3>1
  <2>2. CASE PushEnd(t)
    <3>1. /\ pc[t] = [op |-> "push", at |-> "end"] /\ val' = val
          /\ pc'[t] = [op |-> "push", at |-> "unlock"]
      BY <2>2 DEF PushEnd, Goto, IInv, TypeOK
    <3> QED BY <3>1
  <2>3. CASE PopRead(t)
    <3>1. /\ pc[t] = [op |-> "pop", at |-> "body"]
          /\ pc'[t] = [op |-> "pop", at |-> "advance"]
      BY <2>3 DEF PopRead, Goto, IInv, TypeOK
    <3> QED BY <3>1
  <2>4. CASE PopFree(t)
    <3>1. /\ pc[t] = [op |-> "pop", at |-> "free"] /\ val' = val
          /\ pc'[t] = [op |-> "pop", at |-> "unlock"]
      BY <2>4 DEF PopFree, Goto, IInv, TypeOK
    <3> QED BY <3>1
  <2>5. CASE LenStep(t) /\ node[t] # NULL
    BY <2>5 DEF LenStep
  <2>6. CASE DestroyStep(t) /\ node[t] = NULL
    <3>1. /\ pc[t] = [op |-> "destroy", at |-> "body"] /\ val' = val
          /\ pc'[t] = [op |-> "destroy", at |-> "unlock"]
      BY <2>6 DEF DestroyStep, Goto, IInv, TypeOK
    <3> QED BY <3>1
  <2> QED BY <2>1, <2>2, <2>3, <2>4, <2>5, <2>6
<1> QED BY <1>1, <1>2, HiddenStep

(* Nobody destroys the list while another call has the mutex.              *)
LEMMA NobodyDestroys ==
  ASSUME IInv, NEW t \in Threads, InCriticalSection(t), pc[t].op # "destroy",
         OthersStay(t), pc'[t].op = pc[t].op
  PROVE  ~Destroying /\ ~Destroying'
<1>1. \A u \in Threads : pc[u].op # "destroy"
  BY HolderIsAlone
<1>2. \A u \in Threads : pc'[u].op # "destroy"
  BY <1>1 DEF OthersStay
<1> QED BY <1>1, <1>2 DEF Destroying, Destroys

(* A push takes effect when the new node is linked.                        *)
LEMMA PushRefines ==
  ASSUME IInv, Reads, Reads', NEW s \in Orders, InOrder(s), NEW t \in Threads, PushNode(t)
  PROVE  Fifo!PushBack(t)
<1>1. /\ OthersStay(t) /\ pc[t] = [op |-> "push", at |-> "body"]
      /\ pc'[t] = [op |-> "push", at |-> "end"]
      /\ val'[t] = NoData /\ closed' = closed /\ val[t] \in Data \cup {NoData}
  BY DEF PushNode, At, Goto, OthersStay, IInv, TypeOK, LocalValues
<1>2. ~Destroying /\ ~Destroying'
  BY <1>1, NobodyDestroys DEF InCriticalSection
<1>3. PICK r \in Orders :
        /\ InOrder(r)'
        /\ \E x \in Nodes \ live :
             /\ data' = [data EXCEPT ![x] = val[t]]
             /\ r[Cardinality(DOMAIN s) + 1] = x
        /\ DOMAIN r = 1..(Cardinality(DOMAIN s) + 1)
        /\ \A k \in DOMAIN s : r[k] = s[k]
  BY PushKeepsOrder
<1>4. PICK n : /\ n = Cardinality(DOMAIN s) /\ n \in Nat /\ DOMAIN s = 1..n
               /\ Values(s) \in Seq(Data \cup {NoData}) /\ Len(Values(s)) = n
               /\ \A i \in 1..n : s[i] \in Nodes /\ Values(s)[i] = data[s[i]]
  BY ValuesType
<1>5. PICK x \in Nodes \ live : data' = [data EXCEPT ![x] = val[t]] /\ r[n + 1] = x
  BY <1>3, <1>4
<1>6. AbstractQueue = Values(s)
  BY <1>2 DEF Reads
<1>7. AbstractQueue' = [i \in 1..(n + 1) |-> data'[r[i]]]
  <2>1. DOMAIN r = 1..(n + 1)
    BY <1>3, <1>4
  <2> QED BY <1>2, <1>3, <2>1 DEF Reads, Values, Orders
<1>8. \A i \in 1..n : s[i] # x
  <2>1. NodesOf(s) \subseteq live
    BY DEF InOrder
  <2>2. \A i \in 1..n : s[i] \in NodesOf(s)
    BY <1>4 DEF NodesOf
  <2> QED BY <2>1, <2>2
<1>9. ASSUME NEW i \in 1..(n + 1)
      PROVE  data'[r[i]] = IF i = n + 1 THEN val[t] ELSE Values(s)[i]
  <2>0. data \in [Nodes -> Data \cup {NoData}]
    BY DEF IInv, TypeOK
  <2>1. CASE i = n + 1
    BY <1>5, <2>0, <2>1
  <2>2. CASE i # n + 1
    <3>1. i \in 1..n
      BY <1>4, <2>2
    <3>2. r[i] = s[i]
      BY <1>3, <1>4, <3>1
    <3> QED BY <1>4, <1>5, <1>8, <2>0, <2>2, <3>1, <3>2
  <2> QED BY <2>1, <2>2
<1>10. AbstractQueue' = Append(AbstractQueue, val[t])
  <2>1. Append(Values(s), val[t]) = [i \in 1..(n + 1) |-> IF i = n + 1 THEN val[t] ELSE Values(s)[i]]
    BY <1>1, <1>4
  <2> QED BY <1>6, <1>7, <1>9, <2>1
<1>11. AbstractCall[t] = [op |-> "push", state |-> "pending", val |-> val[t]]
  BY <1>1 DEF AbstractCall, CallOf, Effective, At, Idle
<1>12. CallOf(t)' = [op |-> "push", state |-> "done", val |-> NoData]
  BY <1>1 DEF CallOf, Effective, At, Idle
<1>13. AbstractCall' = [AbstractCall EXCEPT ![t] = [op |-> @.op, state |-> "done", val |-> NoData]]
  BY <1>1, <1>11, <1>12, CallsOfOthers
<1> QED BY <1>1, <1>10, <1>11, <1>13 DEF Fifo!PushBack, Fifo!Pending, Fifo!Done

(* A pop of the empty list takes effect when it sees that it is empty.     *)
LEMMA PopEmptyRefines ==
  ASSUME IInv, ResultsOK, Reads, Reads', NEW s \in Orders, InOrder(s), InOrder(s)',
         NEW t \in Threads, PopEmpty(t)
  PROVE  Fifo!PopFront(t)
<1>1. /\ OthersStay(t) /\ pc[t] = [op |-> "pop", at |-> "body"]
      /\ pc'[t] = [op |-> "pop", at |-> "unlock"] /\ Empty
      /\ val[t] = NoData /\ val'[t] = NoData /\ closed' = closed /\ data' = data
  BY DEF PopEmpty, At, Goto, OthersStay, IInv, TypeOK, ResultsOK, listVars
<1>2. ~Destroying /\ ~Destroying'
  BY <1>1, NobodyDestroys DEF InCriticalSection
<1>3. AbstractQueue' = AbstractQueue
  BY <1>1, QueueStays DEF Destroys
<1>4. start = NULL
  <2>1. \A u \in Threads \ {t} : ~Changing(u)
    BY <1>1, HolderIsAlone DEF InCriticalSection
  <2>2. Linked(next, live, start, end)
    BY <1>1, <2>1 DEF IInv, Shape, Changing, At
  <2> QED BY <1>1, <2>2 DEF Empty, Linked
<1>5. 1 \notin DOMAIN s
  <2>1. NodeAt(s, 1) = NULL
    BY <1>2, <1>4 DEF InOrder
  <2>2. \A i \in DOMAIN s : s[i] # NULL
    BY ValuesType, ListAssumption
  <2> QED BY <2>1, <2>2 DEF NodeAt
<1>6. AbstractQueue = <<>>
  <2>1. /\ AbstractQueue = Values(s) /\ Values(s) \in Seq(Data \cup {NoData})
        /\ Len(Values(s)) = 0
    BY <1>2, <1>5, ValuesType DEF Reads
  <2> QED BY <2>1
<1>7. AbstractCall[t] = [op |-> "pop", state |-> "pending", val |-> NoData]
  BY <1>1 DEF AbstractCall, CallOf, Effective, At, Idle
<1>8. CallOf(t)' = [op |-> "pop", state |-> "done", val |-> NoData]
  BY <1>1 DEF CallOf, Effective, At, Idle
<1>9. AbstractCall' = [AbstractCall EXCEPT ![t] = [op |-> @.op, state |-> "done", val |-> NoData]]
  BY <1>1, <1>7, <1>8, CallsOfOthers
<1> QED BY <1>1, <1>3, <1>6, <1>7, <1>9 DEF Fifo!PopFront, Fifo!Pending, Fifo!Done

(* Another one takes effect when it moves list->start on.                  *)
LEMMA PopRefines ==
  ASSUME IInv, ResultsOK, Reads, Reads', NEW s \in Orders, InOrder(s),
         NEW t \in Threads, PopAdvance(t)
  PROVE  Fifo!PopFront(t)
<1>1. /\ OthersStay(t) /\ pc[t] = [op |-> "pop", at |-> "advance"]
      /\ pc'[t] = [op |-> "pop", at |-> "free"]
      /\ val[t] = data[start] /\ val' = val /\ closed' = closed /\ data' = data
  BY DEF PopAdvance, At, Goto, OthersStay, IInv, TypeOK, ResultsOK
<1>2. ~Destroying /\ ~Destroying'
  BY <1>1, NobodyDestroys DEF InCriticalSection
<1>3. PICK r \in Orders :
        /\ InOrder(r)'
        /\ DOMAIN r = 1..(Cardinality(DOMAIN s) - 1) /\ 1 \in DOMAIN s
        /\ \A k \in DOMAIN r : k + 1 \in DOMAIN s /\ r[k] = s[k + 1]
  BY FrontGoes
<1>4. PICK n : /\ n = Cardinality(DOMAIN s) /\ n \in Nat /\ DOMAIN s = 1..n
               /\ Values(s) \in Seq(Data \cup {NoData}) /\ Len(Values(s)) = n
               /\ \A i \in 1..n : s[i] \in Nodes /\ Values(s)[i] = data[s[i]]
  BY ValuesType
<1>5. AbstractQueue = Values(s) /\ 1 \in 1..n
  BY <1>2, <1>3, <1>4 DEF Reads
<1>6. AbstractQueue' = [i \in 1..(n - 1) |-> data[r[i]]]
  BY <1>1, <1>2, <1>3, <1>4 DEF Reads, Values, Orders
<1>7. \A i \in 1..(n - 1) : data[r[i]] = Values(s)[i + 1]
  BY <1>3, <1>4
<1>8. AbstractQueue # <<>> /\ AbstractQueue' = Tail(AbstractQueue)
      /\ Head(AbstractQueue) = Values(s)[1]
  <2>1. PICK q \in Seq(Data \cup {NoData}) : q = Values(s) /\ Len(q) = n
    BY <1>4
  <2>2. q # <<>> /\ Head(q) = q[1]
    BY <1>4, <1>5, <2>1
  <2>3. /\ Tail(q) \in Seq(Data \cup {NoData}) /\ Len(Tail(q)) = n - 1
        /\ \A i \in 1..(n - 1) : Tail(q)[i] = q[i + 1]
    BY <2>1, <2>2, HeadTailProperties
  <2>4. Tail(q) = [i \in 1..(n - 1) |-> q[i + 1]]
    BY <2>3, LenProperties
  <2> QED BY <1>5, <1>6, <1>7, <2>1, <2>2, <2>4
<1>9. Head(AbstractQueue) = val[t]
  <2>1. start = s[1]
    BY <1>2, <1>4, <1>5 DEF InOrder, NodeAt
  <2> QED BY <1>1, <1>4, <1>5, <1>8, <2>1
<1>10. AbstractCall[t] = [op |-> "pop", state |-> "pending", val |-> NoData]
  BY <1>1 DEF AbstractCall, CallOf, Effective, At, Idle
<1>11. CallOf(t)' = [op |-> "pop", state |-> "done", val |-> val[t]]
  BY <1>1 DEF CallOf, Effective, At, Idle
<1>12. AbstractCall' = [AbstractCall EXCEPT ![t] = [op |-> @.op, state |-> "done", val |-> val[t]]]
  BY <1>1, <1>10, <1>11, CallsOfOthers
<1>13. Fifo!Pending(t, "pop") /\ Fifo!Done(t, Head(AbstractQueue))
  <2>1. Fifo!Pending(t, "pop")
    BY <1>10 DEF Fifo!Pending
  <2>2. Fifo!Done(t, val[t])
    BY <1>12 DEF Fifo!Done
  <2> QED BY <1>9, <2>1, <2>2
<1> QED BY <1>1, <1>8, <1>13 DEF Fifo!PopFront

(* The length is that of the queue when the walk has come to its end.      *)
LEMMA LengthRefines ==
  ASSUME IInv, Reads, Reads', NEW s \in Orders, InOrder(s), InOrder(s)',
         NEW t \in Threads, LenStep(t), node[t] = NULL
  PROVE  Fifo!Length(t)
<1>1. /\ OthersStay(t) /\ pc[t] = [op |-> "len", at |-> "body"]
      /\ pc'[t] = [op |-> "len", at |-> "unlock"]
      /\ val' = val /\ closed' = closed /\ data' = data
  BY DEF LenStep, At, Goto, OthersStay, IInv, TypeOK, listVars
<1>2. ~Destroying
  BY <1>1, NobodyDestroys DEF InCriticalSection
<1>3. PICK n : /\ n = Cardinality(DOMAIN s) /\ n \in Nat /\ DOMAIN s = 1..n
               /\ Len(Values(s)) = n /\ \A i \in 1..n : s[i] \in Nodes
  BY ValuesType
<1>4. val[t] \in 0..n /\ NodeAt(s, val[t] + 1) = NULL
  BY <1>1, <1>3 DEF InOrder, At
<1>5. val[t] = n
  <2>1. val[t] + 1 \notin 1..n
    BY <1>3, <1>4, ListAssumption DEF NodeAt
  <2> QED BY <1>3, <1>4, <2>1
<1>6. Len(AbstractQueue) = val[t]
  BY <1>2, <1>3, <1>5 DEF Reads
<1>7. AbstractQueue' = AbstractQueue
  BY <1>1, QueueStays DEF Destroys
<1>8. AbstractCall[t] = [op |-> "len", state |-> "pending", val |-> NoData]
  BY <1>1 DEF AbstractCall, CallOf, Effective, At, Idle
<1>9. CallOf(t)' = [op |-> "len", state |-> "done", val |-> val[t]]
  BY <1>1 DEF CallOf, Effective, At, Idle
<1>10. AbstractCall' = [AbstractCall EXCEPT ![t] = [op |-> @.op, state |-> "done", val |-> val[t]]]
  BY <1>1, <1>8, <1>9, CallsOfOthers
<1> QED BY <1>1, <1>6, <1>7, <1>8, <1>10 DEF Fifo!Length, Fifo!Pending, Fifo!Done

(* What linkedListDestroy does after it has the mutex is not seen.         *)
LEMMA DestructionIsHidden ==
  ASSUME IInv, ResultsOK, Reads', NEW s \in Orders, InOrder(s), NEW t \in Threads,
         \/ DestroyStep(t) /\ node[t] # NULL
         \/ DestroyReset(t) /\ InOrder(s)'
  PROVE  UNCHANGED Fifo!vars
<1>1. /\ OthersStay(t) /\ pc[t].op = "destroy" /\ pc'[t].op = "destroy" /\ val' = val
      /\ closed' = closed
  BY DEF DestroyStep, DestroyReset, Goto, OthersStay, At, IInv, TypeOK
<1>2. CallOf(t)' = CallOf(t) /\ Destroys(t)
  <2> USE DEF Destroys, CallOf, Effective, At, Idle
  <2>1. CASE DestroyStep(t) /\ node[t] # NULL
    BY <2>1 DEF DestroyStep
  <2>2. CASE DestroyReset(t)
    <3>1. /\ pc[t] = [op |-> "destroy", at |-> "reset"]
          /\ pc'[t] = [op |-> "destroy", at |-> "return"]
      BY <2>2 DEF DestroyReset, Goto, IInv, TypeOK
    <3> QED BY <1>1, <3>1
  <2> QED BY <2>1, <2>2
<1>3. AbstractCall' = AbstractCall
  <2>1. AbstractCall' = [AbstractCall EXCEPT ![t] = CallOf(t)]
    BY <1>1, <1>2, CallsOfOthers
  <2> QED BY <2>1 DEF AbstractCall
<1>4. AbstractQueue = <<>>
  BY <1>2 DEF AbstractQueue, Destroying
<1>5. AbstractQueue' = <<>>
  <2>1. CASE DestroyStep(t) /\ node[t] # NULL
    <3>1. Destroying'
      BY <1>2, <2>1 DEF DestroyStep, Destroying, Destroys
    <3> QED BY <3>1 DEF AbstractQueue
  <2>2. CASE DestroyReset(t) /\ InOrder(s)'
    <3>1. /\ ~Destroys(t)' /\ data' = data /\ node[t] = NULL
      BY <2>2 DEF DestroyReset, Destroys, At, Goto, IInv, TypeOK, ResultsOK
    <3>2. ~Destroying'
      <4>1. \A u \in Threads \ {t} : pc[u].op # "destroy"
        BY <1>1, HolderIsAlone
      <4> QED BY <1>1, <3>1, <4>1 DEF Destroying, Destroys, OthersStay
    <3>3. NodeAt(s, 1) = NULL
      BY <1>2, <3>1 DEF InOrder
    <3>4. 1 \notin DOMAIN s
      <4>1. \A i \in DOMAIN s : s[i] # NULL
        BY ValuesType, ListAssumption
      <4> QED BY <3>3, <4>1 DEF NodeAt
    <3>5. Values(s) \in Seq(Data \cup {NoData}) /\ Len(Values(s)) = 0
      BY <3>4, ValuesType
    <3>6. AbstractQueue' = Values(s)
      BY <2>2, <3>1, <3>2 DEF Reads, Values, Orders
    <3> QED BY <3>5, <3>6
  <2> QED BY <2>1, <2>2
<1> QED BY <1>1, <1>3, <1>4, <1>5 DEF Fifo!vars

(* Every step of the list is a step of the queue or is not seen.           *)
LEMMA NextFifo ==
  ASSUME IInv, OrderInv, Reads, Reads', [Next]_vars
  PROVE  [Fifo!Next]_(Fifo!vars)
<1> USE DEF Fifo!Next
<1>1. ResultsOK
  BY DEF OrderInv
<1>2. PICK s \in Orders : InOrder(s)
  BY DEF OrderInv, Ordered
<1>3. ASSUME NEW t \in Threads, NEW v, NEW op \in {"push", "pop", "len", "destroy"},
             op # "push" => v = NoData, op = "push" => v \in Data, Call(t, op, v)
      PROVE  Fifo!Next
  <2>1. InOrder(s)'
    BY <1>2, <1>3, QuietKeepsOrder
  <2>2. Fifo!Call(t, op, v)
    BY <1>2, <1>3, <2>1, CallRefines
  <2> QED BY <1>3, <2>2
<1>4. ASSUME NEW t \in Threads, Lock(t) PROVE [Fifo!Next]_(Fifo!vars)
  <2>1. InOrder(s)'
    BY <1>2, <1>4, QuietKeepsOrder
  <2>2. Fifo!Destroy(t) \/ UNCHANGED Fifo!vars
    BY <1>1, <1>2, <1>4, <2>1, LockRefines
  <2> QED BY <2>2
<1>5. ASSUME NEW t \in Threads, Body(t) PROVE [Fifo!Next]_(Fifo!vars)
  <2>1. CASE PushNode(t)
    BY <1>2, <2>1, PushRefines
  <2>2. CASE PopAdvance(t)
    BY <1>1, <1>2, <2>2, PopRefines
  <2>3. CASE PopEmpty(t)
    <3>1. InOrder(s)'
      BY <1>2, <2>3, QuietKeepsOrder
    <3> QED BY <1>1, <1>2, <2>3, <3>1, PopEmptyRefines
  <2>4. CASE LenStep(t)
    <3>1. InOrder(s)'
      BY <1>2, <2>4, QuietKeepsOrder
    <3>2. CASE node[t] = NULL
      BY <1>2, <2>4, <3>1, <3>2, LengthRefines
    <3>3. CASE node[t] # NULL
      BY <1>2, <2>4, <3>1, <3>3, WalkIsHidden
    <3> QED BY <3>2, <3>3
  <2>5. CASE Return(t)
    <3>1. InOrder(s)'
      BY <1>2, <2>5, QuietKeepsOrder
    <3>2. Fifo!Return(t)
      BY <1>2, <2>5, <3>1, ReturnRefines
    <3> QED BY <3>2
  <2>6. CASE Unlock(t) \/ PushEnd(t) \/ PopRead(t)
    <3>1. InOrder(s)'
      BY <1>2, <2>6, QuietKeepsOrder
    <3> QED BY <1>2, <2>6, <3>1, WalkIsHidden
  <2>7. CASE PopFree(t)
    <3>1. InOrder(s)'
      BY <1>1, <1>2, <2>7, EndingsKeepOrder
    <3> QED BY <1>2, <2>7, <3>1, WalkIsHidden
  <2>8. CASE DestroyStep(t)
    <3>1. CASE node[t] = NULL
      <4>1. InOrder(s)'
        BY <1>1, <1>2, <2>8, <3>1, EndingsKeepOrder
      <4> QED BY <1>2, <2>8, <3>1, <4>1, WalkIsHidden
    <3>2. CASE node[t] # NULL
      BY <1>1, <1>2, <2>8, <3>2, DestructionIsHidden
    <3> QED BY <3>1, <3>2
  <2>9. CASE DestroyReset(t)
    <3>1. InOrder(s)'
      BY <1>1, <1>2, <2>9, EndingsKeepOrder
    <3> QED BY <1>1, <1>2, <2>9, <3>1, DestructionIsHidden
  <2>10. \/ PushNode(t) \/ PopAdvance(t) \/ PopEmpty(t) \/ LenStep(t) \/ Return(t)
         \/ Unlock(t) \/ PushEnd(t) \/ PopRead(t)
         \/ PopFree(t) \/ DestroyStep(t) \/ DestroyReset(t)
    BY <1>5 DEF Body
  <2> QED BY <2>1, <2>2, <2>3, <2>4, <2>5, <2>6, <2>7, <2>8, <2>9, <2>10
<1>6. CASE UNCHANGED vars
  <2>1. InOrder(s)'
    BY <1>2, <1>6 DEF vars, InOrder, NodeAt, NodesOf, Removed, Destroying, Destroys, At
  <2>2. AbstractCall' = AbstractCall
    BY <1>6 DEF vars, AbstractCall, CallOf, Effective, At
  <2>3. (Destroying' <=> Destroying) /\ data' = data /\ closed' = closed
    BY <1>6 DEF vars, Destroying, Destroys
  <2>4. AbstractQueue' = AbstractQueue
    BY <1>2, <2>1, <2>3 DEF Reads, Values, Orders
  <2> QED BY <2>2, <2>3, <2>4 DEF Fifo!vars
<1> QED BY <1>3, <1>4, <1>5, <1>6 DEF Next

(* Whatever the threads do, and however their steps interleave: each call  *)
(* of the list returns what an atomic operation on a FIFO queue, at one    *)
(* instant between the call and its return, would have returned.           *)
THEOREM ListImplementsFifo == Spec => ImplementsFifo
<1>1. Init => Fifo!Init
  <2> SUFFICES ASSUME Init PROVE Fifo!Init
    OBVIOUS
  <2>1. PICK s \in Orders : InOrder(s)
    BY InitOrder DEF OrderInv, Ordered
  <2>2. NodesOf(s) = {} /\ ~Destroying
    BY <2>1 DEF Init, InOrder, Destroying, Destroys, Idle
  <2>3. Values(s) = <<>>
    <3>1. Len(Values(s)) = 0 /\ Values(s) \in Seq(Data \cup {NoData})
      BY <2>2, InitIInv, ValuesType DEF NodesOf
    <3> QED BY <3>1
  <2>4. AbstractQueue = <<>>
    BY <2>1, <2>2, <2>3, ReadsValues DEF Reads
  <2>5. AbstractCall = [t \in Threads |-> Fifo!NoCall]
    BY DEF Init, AbstractCall, CallOf, Fifo!NoCall
  <2> QED BY <2>4, <2>5 DEF Init, Fifo!Init
<1>2. Init => IInv /\ OrderInv
  BY InitIInv, InitOrder
<1>3. IInv /\ OrderInv /\ [Next]_vars => (IInv /\ OrderInv)'
  BY NextIInv, NextOrder
<1>4. IInv /\ OrderInv /\ Reads /\ Reads' /\ [Next]_vars => [Fifo!Next]_(Fifo!vars)
  BY NextFifo
<1> QED BY <1>1, <1>2, <1>3, <1>4, ReadsValues, PTL DEF Spec, ImplementsFifo, Fifo!Spec
=============================================================================
