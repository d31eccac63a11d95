------------------------------ MODULE FifoQueue ------------------------------
(***************************************************************************)
(* What lib/linked_list.c promises to the threads that share one list: a   *)
(* FIFO queue whose operations take effect at one instant between their    *)
(* call and their return.                                                  *)
(***************************************************************************)
EXTENDS Naturals, Sequences

CONSTANTS
  Threads,  (* the callers                                                 *)
  Data,     (* the data pointers                                           *)
  NoData    (* NULL                                                        *)

VARIABLES
  queue,    (* the data in the list, oldest first                          *)
  call,     (* the operation each thread is in                             *)
  closed    (* linkedListDestroy has been called                           *)

vars == <<queue, call, closed>>

(* A call is pending until it takes effect and done until it returns; val  *)
(* is its argument, then its result.                                       *)
NoCall == [op |-> "none", state |-> "idle", val |-> NoData]

Pending(t, op) == call[t].op = op /\ call[t].state = "pending"

Done(t, v) == call' = [call EXCEPT ![t] = [op |-> @.op, state |-> "done", val |-> v]]

Init == queue = <<>> /\ call = [t \in Threads |-> NoCall] /\ closed = FALSE

Call(t, op, v) ==
  /\ ~closed /\ call[t] = NoCall
  /\ op = "destroy" => \A u \in Threads : call[u] = NoCall
  /\ call' = [call EXCEPT ![t] = [op |-> op, state |-> "pending", val |-> v]]
  /\ closed' = (op = "destroy")
  /\ UNCHANGED queue

PushBack(t) ==
  /\ Pending(t, "push")
  /\ queue' = Append(queue, call[t].val)
  /\ Done(t, NoData)
  /\ UNCHANGED closed

PopFront(t) ==
  /\ Pending(t, "pop")
  /\ IF queue = <<>>
       THEN Done(t, NoData) /\ UNCHANGED queue
       ELSE Done(t, Head(queue)) /\ queue' = Tail(queue)
  /\ UNCHANGED closed

Length(t) ==
  /\ Pending(t, "len")
  /\ Done(t, Len(queue))
  /\ UNCHANGED <<queue, closed>>

Destroy(t) ==
  /\ Pending(t, "destroy")
  /\ queue' = <<>>
  /\ Done(t, NoData)
  /\ UNCHANGED closed

Return(t) ==
  /\ call[t].state = "done"
  /\ call' = [call EXCEPT ![t] = NoCall]
  /\ UNCHANGED <<queue, closed>>

Next == \E t \in Threads :
  \/ \E v \in Data : Call(t, "push", v)
  \/ \E op \in {"pop", "len", "destroy"} : Call(t, op, NoData)
  \/ PushBack(t) \/ PopFront(t) \/ Length(t) \/ Destroy(t) \/ Return(t)

Spec == Init /\ [][Next]_vars
=============================================================================
