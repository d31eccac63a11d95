------------------------------ MODULE LinkedList ------------------------------
(***************************************************************************)
(* The data-owning linked list of lib/linked_list.c, pointer by pointer,   *)
(* shared by threads through its mutex.  A step is one access to the list  *)
(* that another thread could see if the mutex did not keep it out.         *)
(***************************************************************************)
EXTENDS Naturals, Sequences, FiniteSets

CONSTANTS
  Threads,   (* the callers                                                *)
  Data,      (* the data pointers                                          *)
  NoData,    (* NULL as data                                               *)
  Nodes,     (* the addresses malloc can return: they bound the list       *)
  NULL,      (* NULL as a node                                             *)
  NoThread   (* the mutex is free                                          *)

ASSUME ListAssumption ==
  /\ NULL \notin Nodes /\ NoThread \notin Threads /\ NoData \notin Data
  /\ IsFiniteSet(Nodes)

VARIABLES
  start, end,  (* list->start, list->end                                   *)
  next, data,  (* the members of each node                                 *)
  live,        (* the nodes that are allocated                             *)
  lock,        (* the thread that holds list->mutex                        *)
  pc,          (* where each thread is                                     *)
  val,         (* its argument, or the result it will return               *)
  node,        (* its local variable of type node                          *)
  closed       (* linkedListDestroy has been called                        *)

listVars == <<start, end, next, data, live>>
vars == <<start, end, next, data, live, lock, pc, val, node, closed>>

Idle == [op |-> "none", at |-> "idle"]

Init ==
  /\ start = NULL /\ end = NULL
  /\ next = [n \in Nodes |-> NULL] /\ data = [n \in Nodes |-> NoData]
  /\ live = {} /\ lock = NoThread
  /\ pc = [t \in Threads |-> Idle]
  /\ val = [t \in Threads |-> NoData]
  /\ node = [t \in Threads |-> NULL]
  /\ closed = FALSE

(* if (!list->start || !list->end)                                         *)
Empty == start = NULL \/ end = NULL

At(t, op, label) == pc[t] = [op |-> op, at |-> label]

Goto(t, label) == pc' = [pc EXCEPT ![t] = [op |-> @.op, at |-> label]]

Pushing == {t \in Threads : pc[t] \in {[op |-> "push", at |-> "lock"],
                                       [op |-> "push", at |-> "body"]}}

-----------------------------------------------------------------------------
(* A thread calls one of the functions.  Pushes are bounded by Nodes, and  *)
(* linkedListDestroy is the last call, with no other call under way, as    *)
(* threadPoolDestroy makes it.                                             *)
Call(t, op, v) ==
  /\ pc[t] = Idle /\ ~closed
  /\ op = "push" => Cardinality(live) + Cardinality(Pushing) < Cardinality(Nodes)
  /\ op = "destroy" => \A u \in Threads : pc[u] = Idle
  /\ pc' = [pc EXCEPT ![t] = [op |-> op, at |-> "lock"]]
  /\ val' = [val EXCEPT ![t] = v]
  /\ closed' = (op = "destroy")
  /\ UNCHANGED <<listVars, lock, node>>

(* The loops of linkedListLen and linkedListDestroy start from list->start.*)
FirstNode(op) == IF op \in {"len", "destroy"} THEN start ELSE NULL

(* Mutant of Lock: it does not wait for the mutex.                         *)
LockAlways(t) ==
  /\ pc[t].at = "lock"
  /\ lock' = t
  /\ Goto(t, "body")
  /\ node' = [node EXCEPT ![t] = FirstNode(pc[t].op)]
  /\ val' = [val EXCEPT ![t] = IF pc[t].op = "len" THEN 0 ELSE @]
  /\ UNCHANGED <<listVars, closed>>

(* mutexLock, the first statement of all of them.                          *)
Lock(t) ==
  /\ pc[t].at = "lock" /\ lock = NoThread
  /\ lock' = t
  /\ Goto(t, "body")
  /\ node' = [node EXCEPT ![t] = FirstNode(pc[t].op)]
  /\ val' = [val EXCEPT ![t] = IF pc[t].op = "len" THEN 0 ELSE @]
  /\ UNCHANGED <<listVars, closed>>

(* mutexUnlock; all but linkedListDestroy then return.                     *)
Unlock(t) ==
  /\ pc[t].at = "unlock"
  /\ lock' = NoThread
  /\ Goto(t, IF pc[t].op = "destroy" THEN "reset" ELSE "return")
  /\ UNCHANGED <<listVars, val, node, closed>>

Return(t) ==
  /\ pc[t].at = "return"
  /\ pc' = [pc EXCEPT ![t] = Idle]
  /\ val' = [val EXCEPT ![t] = NoData]
  /\ node' = [node EXCEPT ![t] = NULL]
  /\ UNCHANGED <<listVars, lock, closed>>

-----------------------------------------------------------------------------
(* linkedListPushBack                                                      *)

(* Mutant of PushNode: the members of the new node are mixed up.           *)
PushSwapped(t) ==
  /\ At(t, "push", "body")
  /\ \E n \in Nodes \ live :
       /\ live' = live \cup {n}
       /\ next' = [next EXCEPT ![n] = val[t]]
       /\ start' = IF Empty THEN n ELSE start
       /\ node' = [node EXCEPT ![t] = n]
  /\ Goto(t, "end")
  /\ UNCHANGED <<end, data, lock, val, closed>>

(* newLinkedListNode, stored in list->start or in list->end->next.         *)
PushNode(t) ==
  /\ At(t, "push", "body")
  /\ \E n \in Nodes \ live :
       /\ live' = live \cup {n}
       /\ data' = [data EXCEPT ![n] = val[t]]
       /\ node' = [node EXCEPT ![t] = n]
       /\ \/ /\ Empty
             /\ start' = n
             /\ next' = [next EXCEPT ![n] = NULL]
          \/ /\ ~Empty
             /\ next' = [next EXCEPT ![n] = NULL, ![end] = n]
             /\ UNCHANGED start
  /\ val' = [val EXCEPT ![t] = NoData]
  /\ Goto(t, "end")
  /\ UNCHANGED <<end, lock, closed>>

(* list->end = the new node                                                *)
PushEnd(t) ==
  /\ At(t, "push", "end")
  /\ end' = node[t]
  /\ Goto(t, "unlock")
  /\ UNCHANGED <<start, next, data, live, lock, val, node, closed>>

-----------------------------------------------------------------------------
(* linkedListPopFront                                                      *)

(* Mutant of PopEmpty: it returns without unlocking.                       *)
PopEmptyLocked(t) ==
  /\ At(t, "pop", "body") /\ Empty
  /\ Goto(t, "return")
  /\ UNCHANGED <<listVars, lock, val, node, closed>>

(* The list is empty: NULL is returned.                                    *)
PopEmpty(t) ==
  /\ At(t, "pop", "body") /\ Empty
  /\ Goto(t, "unlock")
  /\ UNCHANGED <<listVars, lock, val, node, closed>>

(* Mutants of PopRead: list->end keeps the node that goes ...              *)
PopKeepsEnd(t) ==
  /\ At(t, "pop", "body") /\ ~Empty
  /\ node' = [node EXCEPT ![t] = start]
  /\ val' = [val EXCEPT ![t] = data[start]]
  /\ Goto(t, "advance")
  /\ UNCHANGED <<start, end, next, data, live, lock, closed>>

(* ... and the data of the last node is returned.                          *)
PopLastData(t) ==
  /\ At(t, "pop", "body") /\ ~Empty
  /\ node' = [node EXCEPT ![t] = start]
  /\ val' = [val EXCEPT ![t] = data[end]]
  /\ end' = IF start = end THEN NULL ELSE end
  /\ Goto(t, "advance")
  /\ UNCHANGED <<start, next, data, live, lock, closed>>

(* data = node->data, and the last node is taken out of list->end.         *)
PopRead(t) ==
  /\ At(t, "pop", "body") /\ ~Empty
  /\ node' = [node EXCEPT ![t] = start]
  /\ val' = [val EXCEPT ![t] = data[start]]
  /\ end' = IF start = end THEN NULL ELSE end
  /\ Goto(t, "advance")
  /\ UNCHANGED <<start, next, data, live, lock, closed>>

(* list->start = list->start->next                                         *)
PopAdvance(t) ==
  /\ At(t, "pop", "advance")
  /\ start' = next[start]
  /\ Goto(t, "free")
  /\ UNCHANGED <<end, next, data, live, lock, val, node, closed>>

(* Mutant of PopFree: the node is not freed.                               *)
PopNoFree(t) ==
  /\ At(t, "pop", "free")
  /\ Goto(t, "unlock")
  /\ UNCHANGED <<listVars, lock, val, node, closed>>

(* free(node)                                                              *)
PopFree(t) ==
  /\ At(t, "pop", "free")
  /\ live' = live \ {node[t]}
  /\ Goto(t, "unlock")
  /\ UNCHANGED <<start, end, next, data, lock, val, node, closed>>

-----------------------------------------------------------------------------
(* linkedListLen: one iteration of the loop, or its end.                   *)
LenStep(t) ==
  /\ At(t, "len", "body")
  /\ IF node[t] # NULL
       THEN /\ val' = [val EXCEPT ![t] = @ + 1]
            /\ node' = [node EXCEPT ![t] = next[node[t]]]
            /\ UNCHANGED pc
       ELSE Goto(t, "unlock") /\ UNCHANGED <<val, node>>
  /\ UNCHANGED <<listVars, lock, closed>>

(* linkedListDestroy: next is read before the node and its data are freed. *)
DestroyStep(t) ==
  /\ At(t, "destroy", "body")
  /\ IF node[t] # NULL
       THEN /\ live' = live \ {node[t]}
            /\ node' = [node EXCEPT ![t] = next[node[t]]]
            /\ UNCHANGED pc
       ELSE Goto(t, "unlock") /\ UNCHANGED <<live, node>>
  /\ UNCHANGED <<start, end, next, data, lock, val, closed>>

(* list->start = NULL and list->end = NULL, after mutexDestroy.            *)
DestroyReset(t) ==
  /\ At(t, "destroy", "reset")
  /\ start' = NULL /\ end' = NULL
  /\ Goto(t, "return")
  /\ UNCHANGED <<next, data, live, lock, val, node, closed>>

-----------------------------------------------------------------------------
(* The steps of a call that has begun.                                     *)
Body(t) ==
  \/ PushNode(t) \/ PushEnd(t)
  \/ PopEmpty(t) \/ PopRead(t) \/ PopAdvance(t) \/ PopFree(t)
  \/ LenStep(t) \/ DestroyStep(t)
  \/ Unlock(t) \/ DestroyReset(t) \/ Return(t)

Next == \E t \in Threads :
  \/ \E v \in Data : Call(t, "push", v)
  \/ \E op \in {"pop", "len", "destroy"} : Call(t, op, NoData)
  \/ Lock(t) \/ Body(t)

Spec == Init /\ [][Next]_vars

(* A thread inside a function runs on.  Nothing is assumed of mutexLock:   *)
(* pthread mutexes are not fair.                                           *)
FairSpec == Spec /\ \A t \in Threads : WF_vars(Body(t))

-----------------------------------------------------------------------------
(* Properties                                                              *)

Labels == [op : {"none", "push", "pop", "len", "destroy"},
           at : {"idle", "lock", "body", "end", "advance", "free", "unlock",
                 "reset", "return"}]

(* Pointers are NULL or addresses malloc has returned.                     *)
TypeOK ==
  /\ start \in Nodes \cup {NULL} /\ end \in Nodes \cup {NULL}
  /\ next \in [Nodes -> Nodes \cup {NULL}]
  /\ data \in [Nodes -> Data \cup {NoData}]
  /\ live \in SUBSET Nodes
  /\ lock \in Threads \cup {NoThread}
  /\ pc \in [Threads -> Labels]
  /\ val \in [Threads -> Data \cup {NoData} \cup Nat]
  /\ node \in [Threads -> Nodes \cup {NULL}]
  /\ closed \in BOOLEAN

InCriticalSection(t) == pc[t].at \in {"body", "end", "advance", "free", "unlock"}

(* The three asserts of linked_list.c (lines 50, 65 and 71) never fire:    *)
(* start and end are NULL together, and the last node has no successor.    *)
AssertsHold ==
  \A t \in Threads :
    /\ (At(t, "push", "body") \/ At(t, "pop", "body")) /\ Empty
         => start = NULL /\ end = NULL
    /\ At(t, "pop", "body") /\ ~Empty /\ start = end => next[start] = NULL

(* Every node a thread is about to read, write or free is allocated.       *)
NoDanglingAccess ==
  \A t \in Threads :
    /\ At(t, "push", "body") /\ ~Empty => end \in live
    /\ At(t, "pop", "body") /\ ~Empty => start \in live
    /\ At(t, "pop", "advance") \/ At(t, "pop", "free") => node[t] \in live
    /\ At(t, "pop", "advance") => start = node[t]
    /\ At(t, "len", "body") \/ At(t, "destroy", "body") => node[t] \in live \cup {NULL}

(* The inductive strengthening of the two invariants above.                *)

(* The holder of the mutex is the one thread between lock and unlock.      *)
MutualExclusion == \A t \in Threads : lock = t <=> InCriticalSection(t)

(* linkedListDestroy is alone, and nobody calls after it.                  *)
DestroyAlone ==
  \A t \in Threads : pc[t].op = "destroy" =>
     closed /\ \A u \in Threads \ {t} : pc[u] = Idle

(* The nodes of S hang together by f from first to last: each but the last *)
(* has a successor in S that no other has, and none points to the first.   *)
Linked(f, S, first, last) ==
  /\ first = NULL <=> last = NULL
  /\ {first, last} \subseteq S \cup {NULL}
  /\ last # NULL => f[last] = NULL
  /\ \A m \in S \ {last} : f[m] \in S \ {first}
  /\ \A m, n \in S \ {last} : f[m] = f[n] => m = n

(* What the list looks like between the calls and at each step of the one  *)
(* thread that changes it.                                                 *)
Changing(t) ==
  \/ At(t, "push", "end") \/ At(t, "pop", "advance") \/ At(t, "pop", "free")
  \/ pc[t].op = "destroy" /\ pc[t].at # "lock"

ShapeAt(t) ==
  /\ At(t, "push", "end") =>
       /\ node[t] \in live
       /\ Linked(next, live, start, node[t])
  /\ At(t, "pop", "advance") =>
       /\ node[t] = start /\ start \in live /\ end # start
       /\ Linked(next, live, start, IF end = NULL THEN start ELSE end)
  /\ At(t, "pop", "free") =>
       /\ node[t] \in live
       /\ Linked(next, live \ {node[t]}, start, end)
  /\ At(t, "len", "body") =>
       node[t] \in live \cup {NULL}
  /\ At(t, "destroy", "body") =>
       Linked(next, live, node[t], IF node[t] = NULL THEN NULL ELSE end)
  /\ At(t, "destroy", "unlock") \/ At(t, "destroy", "reset") =>
       Linked(next, live, NULL, NULL)
  /\ At(t, "destroy", "return") =>
       Linked(next, live, NULL, NULL) /\ start = NULL /\ end = NULL

Shape ==
  /\ (\A t \in Threads : ~Changing(t)) => Linked(next, live, start, end)
  /\ \A t \in Threads : ShapeAt(t)

(* What is to be pushed is data; what counts is a number.                  *)
LocalValues ==
  \A t \in Threads :
    /\ pc[t].op = "push" => val[t] \in Data \cup {NoData}
    /\ At(t, "len", "body") => val[t] \in Nat

(* The functions of linked_list.c preserve this under the mutex; asserts   *)
(* that hold and the absence of dangling accesses follow from it.          *)
IInv == TypeOK /\ MutualExclusion /\ DestroyAlone /\ Shape /\ LocalValues

(* The node reached from list->start after k steps.                        *)
nth[k \in Nat] == IF k = 0 THEN start
                  ELSE IF nth[k - 1] = NULL THEN NULL ELSE next[nth[k - 1]]

Reached == {k \in 0..Cardinality(Nodes) : nth[k] # NULL}

(* The data in the list, from start on.                                    *)
Contents == [i \in 1..Cardinality(Reached) |-> data[nth[i - 1]]]

Destroys(t) == pc[t].op = "destroy" /\ pc[t].at \in {"body", "unlock", "reset"}

Destroying == \E t \in Threads : Destroys(t)

(* No node leaks: outside of a removal the allocated nodes are the list.   *)
NoLeak ==
  (\A t \in Threads : ~At(t, "pop", "free")) /\ ~Destroying
     => live = {nth[k] : k \in Reached}

(* The inductive strengthening of NoLeak: some order has exactly the nodes *)
(* of the list in it, each followed by its successor.  linkedListDestroy   *)
(* walks along it and frees its front, linkedListLen has counted what it   *)
(* has passed, and a pop has read the data of its first node.              *)
Orders == UNION {[1..k -> Nodes] : k \in 0..Cardinality(Nodes)}

NodesOf(s) == {s[i] : i \in DOMAIN s}
NodeAt(s, k) == IF k \in DOMAIN s THEN s[k] ELSE NULL

Removed == {node[t] : t \in {u \in Threads : At(u, "pop", "free")}}

InOrder(s) ==
  /\ \A i, j \in DOMAIN s : s[i] = s[j] => i = j
  /\ \A i \in DOMAIN s : next[s[i]] = NodeAt(s, i + 1)
  /\ NodesOf(s) = live \ Removed
  /\ ~Destroying => start = NodeAt(s, 1)
  /\ \A t \in Threads : Destroys(t) => node[t] = NodeAt(s, 1)
  /\ \A t \in Threads : At(t, "len", "body") =>
       val[t] \in 0..Cardinality(DOMAIN s) /\ node[t] = NodeAt(s, val[t] + 1)

ResultsOK ==
  \A t \in Threads :
    /\ pc[t].op = "destroy" => val[t] = NoData
    /\ At(t, "pop", "lock") \/ At(t, "pop", "body") => val[t] = NoData
    /\ At(t, "pop", "advance") => val[t] = data[start]
    /\ At(t, "destroy", "unlock") \/ At(t, "destroy", "reset") => node[t] = NULL

Ordered == \E s \in Orders : InOrder(s)

OrderInv == Ordered /\ ResultsOK

(* The operation each thread is in, as FifoQueue sees it: a push takes     *)
(* effect when the new node is linked, a pop when start moves on, len and  *)
(* an empty pop when they are about to unlock, destroy when it has locked. *)
Effective(t) ==
  \/ pc[t].at \in {"end", "free", "unlock", "reset", "return"}
  \/ At(t, "destroy", "body")

CallOf(t) ==
  IF pc[t] = Idle THEN [op |-> "none", state |-> "idle", val |-> NoData]
  ELSE IF Effective(t) THEN [op |-> pc[t].op, state |-> "done", val |-> val[t]]
  ELSE [op |-> pc[t].op, state |-> "pending",
        val |-> IF pc[t].op = "push" THEN val[t] ELSE NoData]

AbstractCall == [t \in Threads |-> CallOf(t)]
AbstractQueue == IF Destroying THEN <<>> ELSE Contents

Fifo == INSTANCE FifoQueue WITH queue <- AbstractQueue, call <- AbstractCall

(* The list implements a FIFO queue: each call returns what an atomic      *)
(* operation on a queue would have returned.                               *)
ImplementsFifo == Fifo!Spec

(* The holder of the mutex gives it back: every walk of the list ends.     *)
MutexIsReleased == \A t \in Threads : (lock = t) ~> (lock # t)
=============================================================================
