------------------------------ MODULE ThreadPool ------------------------------
(***************************************************************************)
(* The thread pool of lib/thread_pool.c, with the condition variable of    *)
(* lib/threading.c.  Three kinds of threads meet here:                     *)
(*                                                                         *)
(*   - the owner, which runs newThreadPool and later threadPoolDestroy;    *)
(*   - the dispatchers, which call threadPoolDispatchWork (the server      *)
(*     thread is one of them);                                             *)
(*   - the workers, each in the loop of threadPoolWorker.                  *)
(*                                                                         *)
(* A job list is a sequence: its operations run under one mutex and module *)
(* LinkedList shows that they implement a FIFO queue.  A signal sent when  *)
(* the worker is not waiting is lost, as pthread_cond_signal prescribes,   *)
(* and a wait may end without a signal.  A pool of size 0, which runs the  *)
(* handler on the thread of the caller, has no state: the server modules   *)
(* model that branch where they dispatch.                                  *)
(***************************************************************************)
EXTENDS Naturals, Sequences, FiniteSets

CONSTANTS
  NWorkers,     (* pool->size, at least 1                                 *)
  Jobs,         (* the data pointers that are ever dispatched              *)
  Dispatchers,  (* the threads that call threadPoolDispatchWork            *)
  NoJob         (* the NULL that linkedListPopFront returns                *)

ASSUME PoolAssumption ==
  /\ NWorkers \in Nat \ {0}
  /\ NoJob \notin Jobs

Workers == 1..NWorkers

VARIABLES
  pc,        (* where each worker is in threadPoolWorker                   *)
  woken,     (* a signal has reached the waiting worker                    *)
  killed,    (* worker->killed                                             *)
  killAck,   (* worker->kill_ack                                           *)
  queue,     (* worker->jobs_list                                          *)
  holding,   (* the job the worker has popped and not yet finished         *)
  torn,      (* workers whose list and condition variable are freed        *)
  dispatch,  (* the local variables of each dispatcher                     *)
  owner,     (* where the owner is, and at which worker                    *)
  pushed,    (* history: what was pushed to each worker, in order          *)
  handled,   (* history: what each worker's handler has finished, in order *)
  dropped    (* history: what linkedListDestroy freed unhandled            *)

workerVars   == <<pc, woken, killAck, holding, handled>>
historyVars  == <<pushed, handled, dropped>>
vars == <<pc, woken, killed, killAck, queue, holding, torn, dispatch, owner,
          pushed, handled, dropped>>

-----------------------------------------------------------------------------
(* A dispatcher between two calls of threadPoolDispatchWork.               *)
Idle == [at |-> "idle", job |-> NoJob, best |-> 0, seen |-> <<>>]

(* Every job handed to the pool so far, in whatever stage it is.           *)
Dispatched == {dispatch[d].job : d \in Dispatchers}
              \cup UNION {{pushed[w][i] : i \in DOMAIN pushed[w]} : w \in Workers}

(* The job in the worker's handler, as a sequence.                         *)
Held(w) == IF holding[w] = NoJob THEN <<>> ELSE <<holding[w]>>

(* condSignal: wakes the worker if it waits, is lost otherwise.            *)
Signal(w) == woken' = [woken EXCEPT ![w] = @ \/ pc[w] = "wait"]

Init ==
  /\ pc = [w \in Workers |-> "unborn"]
  /\ woken = [w \in Workers |-> FALSE]
  /\ killed = [w \in Workers |-> FALSE]
  /\ killAck = [w \in Workers |-> FALSE]
  /\ queue = [w \in Workers |-> <<>>]
  /\ holding = [w \in Workers |-> NoJob]
  /\ torn = {}
  /\ dispatch = [d \in Dispatchers |-> Idle]
  /\ owner = [at |-> "create", k |-> 1]
  /\ pushed = [w \in Workers |-> <<>>]
  /\ handled = [w \in Workers |-> <<>>]
  /\ dropped = [w \in Workers |-> <<>>]

-----------------------------------------------------------------------------
(* newThreadPool: one iteration creates one worker and starts its thread;  *)
(* the jobs mutex it holds meanwhile only delays that worker's first pop.  *)
CreateWorker ==
  /\ owner.at = "create" /\ owner.k \in Workers
  /\ pc' = [pc EXCEPT ![owner.k] = "check"]
  /\ owner' = [at |-> "create", k |-> owner.k + 1]
  /\ UNCHANGED <<woken, killed, killAck, queue, holding, torn, dispatch,
                 historyVars>>

(* newThreadPool returns the pool.                                         *)
PoolCreated ==
  /\ owner.at = "create" /\ owner.k \notin Workers
  /\ owner' = [at |-> "running", k |-> 1]
  /\ UNCHANGED <<workerVars, killed, queue, torn, dispatch, pushed, dropped>>

-----------------------------------------------------------------------------
(* threadPoolWorker                                                        *)

(* The test of the while loop.                                             *)
CheckKilled(w) ==
  /\ pc[w] = "check"
  /\ pc' = [pc EXCEPT ![w] = IF killed[w] THEN "ack" ELSE "lock"]
  /\ UNCHANGED <<woken, killed, killAck, queue, holding, torn, dispatch, owner,
                 historyVars>>

(* condLockAndWait up to the sleep.  Nobody but the worker ever takes this *)
(* mutex, so the lock never blocks; the wait is entered whatever the queue *)
(* and the killed flag say.                                                *)
StartWait(w) ==
  /\ pc[w] = "lock"
  /\ pc' = [pc EXCEPT ![w] = "wait"]
  /\ UNCHANGED <<woken, killed, killAck, queue, holding, torn, dispatch, owner,
                 historyVars>>

(* Mutant of Wake: the loop test is repeated after the wait.               *)
WakeThenCheck(w) ==
  /\ pc[w] = "wait" /\ woken[w]
  /\ pc' = [pc EXCEPT ![w] = "check"]
  /\ woken' = [woken EXCEPT ![w] = FALSE]
  /\ UNCHANGED <<killed, killAck, queue, holding, torn, dispatch, owner,
                 historyVars>>

(* pthread_cond_wait returns because of a signal ...                       *)
Wake(w) ==
  /\ pc[w] = "wait" /\ woken[w]
  /\ pc' = [pc EXCEPT ![w] = "pop"]
  /\ woken' = [woken EXCEPT ![w] = FALSE]
  /\ UNCHANGED <<killed, killAck, queue, holding, torn, dispatch, owner,
                 historyVars>>

(* ... or spuriously.                                                      *)
SpuriousWake(w) ==
  /\ pc[w] = "wait" /\ ~woken[w]
  /\ pc' = [pc EXCEPT ![w] = "pop"]
  /\ UNCHANGED <<woken, killed, killAck, queue, holding, torn, dispatch, owner,
                 historyVars>>

(* Mutant of PopJob: the handler is called without the test for NULL.      *)
PopUnchecked(w) ==
  /\ pc[w] = "pop"
  /\ holding' = [holding EXCEPT
        ![w] = IF queue[w] = <<>> THEN NoJob ELSE Head(queue[w])]
  /\ queue' = [queue EXCEPT ![w] = IF @ = <<>> THEN @ ELSE Tail(@)]
  /\ pc' = [pc EXCEPT ![w] = "handle"]
  /\ UNCHANGED <<woken, killed, killAck, torn, dispatch, owner, historyVars>>

(* linkedListPopFront and the test for NULL: one job per wake-up.          *)
PopJob(w) ==
  /\ pc[w] = "pop"
  /\ \/ /\ queue[w] = <<>>
        /\ pc' = [pc EXCEPT ![w] = "unlock"]
        /\ UNCHANGED <<queue, holding>>
     \/ /\ queue[w] # <<>>
        /\ holding' = [holding EXCEPT ![w] = Head(queue[w])]
        /\ queue' = [queue EXCEPT ![w] = Tail(@)]
        /\ pc' = [pc EXCEPT ![w] = "handle"]
  /\ UNCHANGED <<woken, killed, killAck, torn, dispatch, owner, historyVars>>

(* worker->handler(data) returns; it has taken ownership of the data.      *)
HandlerReturns(w) ==
  /\ pc[w] = "handle"
  /\ handled' = [handled EXCEPT ![w] = Append(@, holding[w])]
  /\ holding' = [holding EXCEPT ![w] = NoJob]
  /\ pc' = [pc EXCEPT ![w] = "unlock"]
  /\ UNCHANGED <<woken, killed, killAck, queue, torn, dispatch, owner, pushed,
                 dropped>>

(* condUnlock, back to the loop test.                                      *)
Unlock(w) ==
  /\ pc[w] = "unlock"
  /\ pc' = [pc EXCEPT ![w] = "check"]
  /\ UNCHANGED <<woken, killed, killAck, queue, holding, torn, dispatch, owner,
                 historyVars>>

(* worker->kill_ack = 1, the last access of the thread to shared memory.   *)
AckKill(w) ==
  /\ pc[w] = "ack"
  /\ killAck' = [killAck EXCEPT ![w] = TRUE]
  /\ pc' = [pc EXCEPT ![w] = "done"]
  /\ UNCHANGED <<woken, killed, queue, holding, torn, dispatch, owner,
                 historyVars>>

-----------------------------------------------------------------------------
(* threadPoolDispatchWork                                                  *)

(* A call begins.  The pool is in use and each data pointer is handed over *)
(* once: ownership moves to the pool.                                      *)
StartDispatch(d, j) ==
  /\ owner.at = "running"
  /\ dispatch[d].at = "idle" /\ j \notin Dispatched
  /\ dispatch' = [dispatch EXCEPT
                    ![d] = [at |-> "scan", job |-> j, best |-> 0, seen |-> <<>>]]
  /\ UNCHANGED <<workerVars, killed, queue, torn, owner, pushed, dropped>>

(* Mutant of Better: the last worker wins a tie.                           *)
BetterOrEqual(s, len) == s.best = 0 \/ len <= s.seen[s.best]

(* The first worker wins a tie: a later one replaces it only if its list   *)
(* is strictly shorter.  best = 0 is the initial min_jobs = SIZE_MAX.      *)
Better(s, len) == s.best = 0 \/ len < s.seen[s.best]

(* One iteration of the search: linkedListLen of the next worker.          *)
ScanWorker(d) ==
  LET s == dispatch[d]
      i == Len(s.seen) + 1
      len == Len(queue[i])
  IN  /\ s.at = "scan" /\ i \in Workers
      /\ dispatch' = [dispatch EXCEPT
           ![d] = [at |-> IF i = NWorkers THEN "push" ELSE "scan",
                   job |-> s.job,
                   best |-> IF Better(s, len) THEN i ELSE s.best,
                   seen |-> Append(s.seen, len)]]
      /\ UNCHANGED <<workerVars, killed, queue, torn, owner, pushed, dropped>>

(* Mutant of PushJob: the job is pushed at the front.                      *)
PushFront(d) ==
  LET w == dispatch[d].best
      j == dispatch[d].job
  IN  /\ dispatch[d].at = "push"
      /\ queue' = [queue EXCEPT ![w] = <<j>> \o @]
      /\ pushed' = [pushed EXCEPT ![w] = Append(@, j)]
      /\ dispatch' = [dispatch EXCEPT
           ![d] = [at |-> "signal", job |-> NoJob, best |-> w, seen |-> <<>>]]
      /\ UNCHANGED <<workerVars, killed, torn, owner, dropped>>

(* linkedListPushBack on the list of the chosen worker.                    *)
PushJob(d) ==
  LET w == dispatch[d].best
      j == dispatch[d].job
  IN  /\ dispatch[d].at = "push"
      /\ queue' = [queue EXCEPT ![w] = Append(@, j)]
      /\ pushed' = [pushed EXCEPT ![w] = Append(@, j)]
      /\ dispatch' = [dispatch EXCEPT
           ![d] = [at |-> "signal", job |-> NoJob, best |-> w, seen |-> <<>>]]
      /\ UNCHANGED <<workerVars, killed, torn, owner, dropped>>

(* condSignal, without holding the mutex, and return.                      *)
SignalJob(d) ==
  /\ dispatch[d].at = "signal"
  /\ Signal(dispatch[d].best)
  /\ dispatch' = [dispatch EXCEPT ![d] = Idle]
  /\ UNCHANGED <<pc, killed, killAck, queue, holding, torn, owner, historyVars>>

-----------------------------------------------------------------------------
(* threadPoolDestroy                                                       *)

(* The call begins.  The owner has stopped the dispatchers first: nothing  *)
(* in the pool would protect a call that is still running (the tests spin  *)
(* on the server's kill_ack before they destroy its pool).                 *)
StartDestroy ==
  /\ owner.at = "running"
  /\ \A d \in Dispatchers : dispatch[d].at = "idle"
  /\ owner' = [at |-> "kill", k |-> 1]
  /\ UNCHANGED <<workerVars, killed, queue, torn, dispatch, pushed, dropped>>

(* worker->killed = 1                                                      *)
KillWorker ==
  /\ owner.at = "kill" /\ owner.k \in Workers
  /\ killed' = [killed EXCEPT ![owner.k] = TRUE]
  /\ owner' = [at |-> "signal", k |-> owner.k]
  /\ UNCHANGED <<workerVars, queue, torn, dispatch, pushed, dropped>>

(* Mutant of SignalKill: the signal is forgotten.                          *)
NoSignalKill ==
  /\ owner.at = "signal"
  /\ owner' = [at |-> "spin", k |-> owner.k]
  /\ UNCHANGED <<workerVars, killed, queue, torn, dispatch, pushed, dropped>>

(* condSignal, so that the worker can see the flag.                        *)
SignalKill ==
  /\ owner.at = "signal"
  /\ Signal(owner.k)
  /\ owner' = [at |-> "spin", k |-> owner.k]
  /\ UNCHANGED <<pc, killed, killAck, queue, holding, torn, dispatch,
                 historyVars>>

(* Mutant of TearDownWorker: no spin on kill_ack.                          *)
TearDownAtOnce ==
  /\ owner.at = "spin"
  /\ dropped' = [dropped EXCEPT ![owner.k] = queue[owner.k]]
  /\ queue' = [queue EXCEPT ![owner.k] = <<>>]
  /\ torn' = torn \cup {owner.k}
  /\ owner' = [at |-> "kill", k |-> owner.k + 1]
  /\ UNCHANGED <<workerVars, killed, dispatch, pushed>>

(* The spin on kill_ack ends; linkedListDestroy frees the jobs that are    *)
(* left, condDestroy and free give the worker's resources back.            *)
TearDownWorker ==
  /\ owner.at = "spin" /\ killAck[owner.k]
  /\ dropped' = [dropped EXCEPT ![owner.k] = queue[owner.k]]
  /\ queue' = [queue EXCEPT ![owner.k] = <<>>]
  /\ torn' = torn \cup {owner.k}
  /\ owner' = [at |-> "kill", k |-> owner.k + 1]
  /\ UNCHANGED <<workerVars, killed, dispatch, pushed>>

(* free(pool->workers) after the last worker.                              *)
FreePool ==
  /\ owner.at = "kill" /\ owner.k \notin Workers
  /\ owner' = [at |-> "done", k |-> owner.k]
  /\ UNCHANGED <<workerVars, killed, queue, torn, dispatch, pushed, dropped>>

-----------------------------------------------------------------------------
WorkerStep(w) ==
  \/ CheckKilled(w) \/ StartWait(w) \/ Wake(w) \/ PopJob(w)
  \/ HandlerReturns(w) \/ Unlock(w) \/ AckKill(w)

DispatcherStep(d) == ScanWorker(d) \/ PushJob(d) \/ SignalJob(d)

OwnerStep ==
  \/ CreateWorker \/ PoolCreated
  \/ KillWorker \/ SignalKill \/ TearDownWorker \/ FreePool

Next ==
  \/ \E w \in Workers : WorkerStep(w) \/ SpuriousWake(w)
  \/ \E d \in Dispatchers :
        DispatcherStep(d) \/ \E j \in Jobs : StartDispatch(d, j)
  \/ OwnerStep
  \/ StartDestroy

Spec == Init /\ [][Next]_vars

(* The operating system schedules every thread, handlers return, and the   *)
(* code of a call that has begun runs on.  Nobody has to call the pool, and*)
(* no wait has to end spuriously.                                          *)
Fairness ==
  /\ \A w \in Workers : WF_vars(WorkerStep(w))
  /\ \A d \in Dispatchers : WF_vars(DispatcherStep(d))
  /\ WF_vars(OwnerStep)

FairSpec == Spec /\ Fairness
-----------------------------------------------------------------------------
(* Properties                                                              *)

WorkerPC == {"unborn", "check", "lock", "wait", "pop", "handle", "unlock",
             "ack", "done"}

DispatcherState == [at : {"idle", "scan", "push", "signal"},
                    job : Jobs \cup {NoJob}, best : 0..NWorkers, seen : Seq(Nat)]

OwnerState == [at : {"create", "running", "kill", "signal", "spin", "done"},
               k : 1..(NWorkers + 1)]

(* Every variable ranges over what the C declarations allow.               *)
TypeOK ==
  /\ pc \in [Workers -> WorkerPC]
  /\ woken \in [Workers -> BOOLEAN]
  /\ killed \in [Workers -> BOOLEAN]
  /\ killAck \in [Workers -> BOOLEAN]
  /\ queue \in [Workers -> Seq(Jobs)]
  /\ holding \in [Workers -> Jobs \cup {NoJob}]
  /\ torn \in SUBSET Workers
  /\ dispatch \in [Dispatchers -> DispatcherState]
  /\ owner \in OwnerState
  /\ pushed \in [Workers -> Seq(Jobs)]
  /\ handled \in [Workers -> Seq(Jobs)]
  /\ dropped \in [Workers -> Seq(Jobs)]

(* Ownership of a job: what was pushed to a worker has been handled by it, *)
(* is in its handler, is still in its list or was freed with the list, in  *)
(* the order of the pushes, each job exactly once.                         *)
EachJobInOnePlace ==
  \A w \in Workers : pushed[w] = handled[w] \o Held(w) \o queue[w] \o dropped[w]

(* threadPoolDestroy frees a worker's list, mutex and condition variable   *)
(* only after the last access of that worker's thread to them, and no      *)
(* dispatcher is left that could still touch the pool.                     *)
NoUseAfterFree ==
  \A w \in torn : /\ pc[w] = "done" /\ holding[w] = NoJob /\ queue[w] = <<>>
                  /\ \A d \in Dispatchers : dispatch[d].at = "idle"

(* The inductive strengthening of the three invariants above.              *)

(* A worker holds a job exactly while its handler runs, and acknowledges   *)
(* the kill with its last step.                                            *)
WorkerFlags ==
  \A w \in Workers : /\ holding[w] # NoJob <=> pc[w] = "handle"
                     /\ killAck[w] => pc[w] = "done"

(* A dispatcher that is about to push knows its job and its worker, and    *)
(* calls the pool only between newThreadPool and threadPoolDestroy.        *)
DispatcherLocals ==
  \A d \in Dispatchers :
    /\ dispatch[d].at \in {"scan", "push"} => dispatch[d].job \in Jobs
    /\ dispatch[d].at \in {"push", "signal"} => dispatch[d].best \in Workers
    /\ dispatch[d].at # "idle" => owner.at = "running"

(* The owner creates and tears down the workers one by one, in order.      *)
OwnerProgress ==
  /\ owner.at = "create" => \A w \in owner.k .. NWorkers : pc[w] = "unborn"
  /\ owner.at \in {"create", "running"} => torn = {}
  /\ owner.at \in {"kill", "signal", "spin"} => torn = 1 .. (owner.k - 1)
  /\ owner.at \in {"signal", "spin"} => owner.k \in Workers

(* A worker's list is freed, with what was in it, when it is torn down.    *)
TornDown ==
  \A w \in Workers : IF w \in torn THEN killAck[w] /\ queue[w] = <<>>
                                   ELSE dropped[w] = <<>>

(* newThreadPool, threadPoolWorker, threadPoolDispatchWork and             *)
(* threadPoolDestroy together preserve this; the three invariants of the   *)
(* pool follow from it.                                                    *)
IInv == /\ TypeOK /\ WorkerFlags /\ DispatcherLocals /\ OwnerProgress
        /\ TornDown /\ EachJobInOnePlace

(* With one dispatcher the job goes to a list that, when it is pushed, is  *)
(* no longer than any list was when the search passed it, and to the first *)
(* of them in a tie, although the workers pop meanwhile.                   *)
DispatchToLeastLoaded ==
  \A d \in Dispatchers : dispatch[d].at = "push" =>
     LET s == dispatch[d] IN
     \A i \in Workers : /\ Len(queue[s.best]) <= s.seen[i]
                        /\ i < s.best => s.seen[s.best] < s.seen[i]

(* The inductive strengthening of DispatchToLeastLoaded: the best worker   *)
(* so far had the first of the shortest lists that were seen, and has not  *)
(* been given a job since.                                                 *)
SearchOK(s) ==
  /\ IF s.at = "push" THEN Len(s.seen) = NWorkers ELSE Len(s.seen) < NWorkers
  /\ s.best \in 0..Len(s.seen) /\ (s.best = 0 => Len(s.seen) = 0)
  /\ s.best # 0 => Len(queue[s.best]) <= s.seen[s.best]
  /\ \A i \in 1..Len(s.seen) : /\ s.seen[s.best] <= s.seen[i]
                               /\ i < s.best => s.seen[s.best] < s.seen[i]

SearchInv == \A d \in Dispatchers :
  dispatch[d].at \in {"scan", "push"} => SearchOK(dispatch[d])

(* A wake-up that reaches the worker is not wasted: the job at the front   *)
(* of its list at that time is handled.                                    *)
WakeupServesHead ==
  \A w \in Workers, j \in Jobs :
    (woken[w] /\ queue[w] # <<>> /\ Head(queue[w]) = j)
      ~> (\E i \in DOMAIN handled[w] : handled[w][i] = j)

(* A kill signal that finds the worker waiting ends its thread and lets    *)
(* threadPoolDestroy go on, whatever is still queued.                      *)
KillReachesWaitingWorker ==
  \A w \in Workers :
    (owner = [at |-> "signal", k |-> w] /\ pc[w] = "wait") ~> (w \in torn)

-----------------------------------------------------------------------------
(* What the documentation or an assert says and the code does not do: TLC  *)
(* refutes each of these; README.md tells with which constants, and how.   *)

(* lib/thread_pool.c:7 promises "wake up when there is work to do": while  *)
(* the pool is not destroyed, a job that was dispatched is handled.        *)
EveryJobHandled ==
  \A w \in Workers, j \in Jobs :
    (\E i \in DOMAIN queue[w] : queue[w][i] = j)
      ~> (owner.at # "running" \/ \E i \in DOMAIN handled[w] : handled[w][i] = j)

(* lib/thread_pool.c:51 promises "wake up worker so it can accept the kill *)
(* signal": a call of threadPoolDestroy returns.                           *)
DestroyReturns == (owner.at = "kill") ~> (owner.at = "done")
=============================================================================
