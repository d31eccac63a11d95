-------------------------- MODULE ThreadPool_proofs --------------------------
(***************************************************************************)
(* Proofs about ThreadPool, for every number of workers, jobs and          *)
(* dispatchers: IInv is inductive, and it implies three invariants; with   *)
(* one dispatcher the least loaded worker gets the job.                    *)
(***************************************************************************)
EXTENDS ThreadPool, SequenceTheorems, TLAPS

(* What popping the head does to the line of jobs of a worker.             *)
LEMMA PopKeepsOrder ==
  ASSUME NEW S, NEW a \in Seq(S), NEW q \in Seq(S), NEW d \in Seq(S),
         q # <<>>
  PROVE  a \o <<>> \o q \o d = a \o <<Head(q)>> \o Tail(q) \o d
<1>1. q = <<Head(q)>> \o Tail(q)
  <2>1. /\ Head(q) \in S /\ Tail(q) \in Seq(S)
        /\ Len(Tail(q)) = Len(q) - 1 /\ Len(q) \in Nat \ {0}
        /\ \A i \in 1 .. Len(Tail(q)) : Tail(q)[i] = q[i + 1]
    BY HeadTailProperties, EmptySeq
  <2>2. <<Head(q)>> \in Seq(S) /\ Len(<<Head(q)>>) = 1 /\ <<Head(q)>>[1] = q[1]
    BY <2>1
  <2> DEFINE t == <<Head(q)>> \o Tail(q)
  <2>3. /\ t \in Seq(S) /\ Len(t) = Len(q)
        /\ \A i \in 1 .. Len(q) : t[i] = q[i]
    BY <2>1, <2>2, ConcatProperties
  <2> QED BY <2>3, SeqEqual
<1>2. Head(q) \in S /\ Tail(q) \in Seq(S)
  BY HeadTailProperties
<1>3. a \o <<>> \o q = a \o <<Head(q)>> \o Tail(q)
  <2>1. a \o <<>> = a
    BY ConcatEmptySeq
  <2>2. <<Head(q)>> \in Seq(S)
    BY <1>2
  <2> QED BY <1>1, <1>2, <2>1, <2>2, ConcatAssociative
<1> QED BY <1>3

(* What finishing a job does to it.                                        *)
LEMMA HandlingKeepsOrder ==
  ASSUME NEW S, NEW a \in Seq(S), NEW j \in S
  PROVE  a \o <<j>> = Append(a, j) \o <<>>
BY AppendIsConcat, ConcatEmptySeq, AppendProperties

(* Freeing the list moves what is left in it to the dropped jobs.          *)
LEMMA FreeingKeepsOrder ==
  ASSUME NEW S, NEW a \in Seq(S), NEW q \in Seq(S)
  PROVE  a \o q \o <<>> = a \o <<>> \o q
<1>1. a \o q \in Seq(S)
  BY ConcatProperties
<1> QED BY <1>1, ConcatEmptySeq

(* IInv holds before newThreadPool has created the first worker.           *)
LEMMA InitIInv == Init => IInv
BY PoolAssumption DEF Init, IInv, TypeOK, WorkerFlags, DispatcherLocals,
   OwnerProgress, TornDown, EachJobInOnePlace, Held, Idle, Workers,
   WorkerPC, DispatcherState, OwnerState

(* Each step of a worker, of a dispatcher and of threadPoolDestroy keeps IInv. *)
LEMMA NextIInv == IInv /\ [Next]_vars => IInv'
<1> SUFFICES ASSUME IInv, [Next]_vars PROVE IInv'
  OBVIOUS
<1> USE PoolAssumption DEF IInv, workerVars, historyVars
<1>1. ASSUME CreateWorker PROVE IInv'
  <2>1. TypeOK'
    <3>1. owner' \in OwnerState
      BY <1>1 DEF CreateWorker, OwnerState, TypeOK, Workers
    <3>2. pc' \in [Workers -> WorkerPC]
      BY <1>1 DEF CreateWorker, WorkerPC, TypeOK
    <3> QED BY <1>1, <3>1, <3>2 DEF CreateWorker, TypeOK, historyVars
  <2>2. WorkerFlags'
    <3>1. pc[owner.k] = "unborn" /\ owner.k \in Workers
      BY <1>1 DEF CreateWorker, OwnerProgress, TypeOK, Workers
    <3> QED BY <1>1, <3>1 DEF CreateWorker, TypeOK, WorkerFlags
  <2>3. DispatcherLocals'
    BY <1>1 DEF CreateWorker, TypeOK, DispatcherLocals
  <2>4. OwnerProgress'
    <3>1. owner' = [at |-> "create", k |-> owner.k + 1] /\ owner.k \in 1 .. NWorkers
      BY <1>1 DEF CreateWorker, Workers
    <3>2. \A w \in (owner.k + 1) .. NWorkers :
             w \in owner.k .. NWorkers /\ w \in Workers /\ w # owner.k
      BY <3>1 DEF Workers
    <3>3. \A w \in (owner.k + 1) .. NWorkers : pc'[w] = "unborn"
      BY <1>1, <3>2 DEF CreateWorker, OwnerProgress, TypeOK
    <3>4. torn' = {}
      BY <1>1 DEF CreateWorker, OwnerProgress
    <3> QED BY <3>1, <3>3, <3>4 DEF OwnerProgress
  <2>5. TornDown'
    BY <1>1 DEF CreateWorker, TypeOK, TornDown
  <2>6. EachJobInOnePlace'
    BY <1>1 DEF CreateWorker, TypeOK, EachJobInOnePlace, Held
  <2> QED BY <2>1, <2>2, <2>3, <2>4, <2>5, <2>6
<1>2. ASSUME PoolCreated PROVE IInv'
  <2>1. TypeOK'
    <3>1. owner' \in OwnerState
      BY <1>2 DEF PoolCreated, OwnerState, TypeOK, OwnerProgress, Workers
    <3> QED BY <1>2, <3>1 DEF PoolCreated, TypeOK
  <2>2. WorkerFlags'
    BY <1>2 DEF PoolCreated, TypeOK, WorkerFlags
  <2>3. DispatcherLocals'
    BY <1>2 DEF PoolCreated, TypeOK, DispatcherLocals
  <2>4. OwnerProgress'
    BY <1>2 DEF PoolCreated, TypeOK, OwnerProgress
  <2>5. TornDown'
    BY <1>2 DEF PoolCreated, TypeOK, TornDown
  <2>6. EachJobInOnePlace'
    BY <1>2 DEF PoolCreated, TypeOK, EachJobInOnePlace, Held
  <2> QED BY <2>1, <2>2, <2>3, <2>4, <2>5, <2>6
<1>3. ASSUME NEW w \in Workers, CheckKilled(w) PROVE IInv'
  <2>1. TypeOK'
    BY <1>3 DEF CheckKilled, TypeOK, WorkerPC
  <2>2. WorkerFlags'
    BY <1>3 DEF CheckKilled, TypeOK, WorkerFlags
  <2>3. DispatcherLocals'
    BY <1>3 DEF CheckKilled, TypeOK, DispatcherLocals
  <2>4. OwnerProgress'
    BY <1>3 DEF CheckKilled, TypeOK, OwnerProgress
  <2>5. TornDown'
    BY <1>3 DEF CheckKilled, TypeOK, TornDown
  <2>6. EachJobInOnePlace'
    BY <1>3 DEF CheckKilled, TypeOK, EachJobInOnePlace, Held
  <2> QED BY <2>1, <2>2, <2>3, <2>4, <2>5, <2>6
<1>4. ASSUME NEW w \in Workers, StartWait(w) PROVE IInv'
  <2>1. TypeOK'
    BY <1>4 DEF StartWait, TypeOK, WorkerPC
  <2>2. WorkerFlags'
    BY <1>4 DEF StartWait, TypeOK, WorkerFlags
  <2>3. DispatcherLocals'
    BY <1>4 DEF StartWait, TypeOK, DispatcherLocals
  <2>4. OwnerProgress'
    BY <1>4 DEF StartWait, TypeOK, OwnerProgress
  <2>5. TornDown'
    BY <1>4 DEF StartWait, TypeOK, TornDown
  <2>6. EachJobInOnePlace'
    BY <1>4 DEF StartWait, TypeOK, EachJobInOnePlace, Held
  <2> QED BY <2>1, <2>2, <2>3, <2>4, <2>5, <2>6
<1>5. ASSUME NEW w \in Workers, Wake(w) PROVE IInv'
  <2>1. TypeOK'
    BY <1>5 DEF Wake, TypeOK, WorkerPC
  <2>2. WorkerFlags'
    BY <1>5 DEF Wake, TypeOK, WorkerFlags
  <2>3. DispatcherLocals'
    BY <1>5 DEF Wake, TypeOK, DispatcherLocals
  <2>4. OwnerProgress'
    BY <1>5 DEF Wake, TypeOK, OwnerProgress
  <2>5. TornDown'
    BY <1>5 DEF Wake, TypeOK, TornDown
  <2>6. EachJobInOnePlace'
    BY <1>5 DEF Wake, TypeOK, EachJobInOnePlace, Held
  <2> QED BY <2>1, <2>2, <2>3, <2>4, <2>5, <2>6
<1>6. ASSUME NEW w \in Workers, SpuriousWake(w) PROVE IInv'
  <2>1. TypeOK'
    BY <1>6 DEF SpuriousWake, TypeOK, WorkerPC
  <2>2. WorkerFlags'
    BY <1>6 DEF SpuriousWake, TypeOK, WorkerFlags
  <2>3. DispatcherLocals'
    BY <1>6 DEF SpuriousWake, TypeOK, DispatcherLocals
  <2>4. OwnerProgress'
    BY <1>6 DEF SpuriousWake, TypeOK, OwnerProgress
  <2>5. TornDown'
    BY <1>6 DEF SpuriousWake, TypeOK, TornDown
  <2>6. EachJobInOnePlace'
    BY <1>6 DEF SpuriousWake, TypeOK, EachJobInOnePlace, Held
  <2> QED BY <2>1, <2>2, <2>3, <2>4, <2>5, <2>6
<1>7. ASSUME NEW w \in Workers, PopJob(w) PROVE IInv'
  <2>1. TypeOK'
    <3>1. pc' \in [Workers -> WorkerPC]
      BY <1>7 DEF PopJob, TypeOK, WorkerPC
    <3>2. queue[w] # <<>> => Head(queue[w]) \in Jobs /\ Tail(queue[w]) \in Seq(Jobs)
      BY HeadTailProperties DEF TypeOK
    <3>3. queue' \in [Workers -> Seq(Jobs)] /\ holding' \in [Workers -> Jobs \cup {NoJob}]
      <4>1. CASE queue[w] = <<>>
        BY <1>7, <4>1 DEF PopJob, TypeOK
      <4>2. CASE queue[w] # <<>>
        <5>1. /\ queue' = [queue EXCEPT ![w] = Tail(queue[w])]
              /\ holding' = [holding EXCEPT ![w] = Head(queue[w])]
          BY <1>7, <4>2 DEF PopJob
        <5> QED BY <5>1, <4>2, <3>2 DEF TypeOK
      <4> QED BY <4>1, <4>2
    <3> QED BY <1>7, <3>1, <3>3 DEF PopJob, TypeOK, historyVars
  <2>2. WorkerFlags'
    BY <1>7 DEF PopJob, TypeOK, WorkerFlags
  <2>3. DispatcherLocals'
    BY <1>7 DEF PopJob, TypeOK, DispatcherLocals
  <2>4. OwnerProgress'
    <3>1. \A v \in Workers : pc[v] = "unborn" => pc'[v] = "unborn"
      BY <1>7 DEF PopJob, TypeOK
    <3>2. owner.k .. NWorkers \subseteq Workers
      BY DEF TypeOK, OwnerState, Workers
    <3>3. UNCHANGED <<owner, torn>>
      BY <1>7 DEF PopJob
    <3> QED BY <3>1, <3>2, <3>3 DEF OwnerProgress
  <2>5. TornDown'
    BY <1>7 DEF PopJob, TypeOK, TornDown
  <2>6. EachJobInOnePlace'
    <3>1. CASE queue[w] = <<>>
      BY <1>7, <3>1 DEF PopJob, EachJobInOnePlace, Held
    <3>2. CASE queue[w] # <<>>
      <4>1. /\ holding'[w] = Head(queue[w]) /\ queue'[w] = Tail(queue[w])
            /\ \A v \in Workers \ {w} : holding'[v] = holding[v] /\ queue'[v] = queue[v]
            /\ UNCHANGED <<pushed, handled, dropped>>
        BY <1>7, <3>2 DEF PopJob, TypeOK, historyVars
      <4>2. /\ handled[w] \in Seq(Jobs) /\ queue[w] \in Seq(Jobs)
            /\ dropped[w] \in Seq(Jobs) /\ Head(queue[w]) \in Jobs
        BY <3>2, HeadTailProperties DEF TypeOK
      <4>3. Held(w) = <<>> /\ Held(w)' = <<Head(queue[w])>>
        BY <1>7, <4>1, <4>2 DEF PopJob, WorkerFlags, Held
      <4>4. pushed'[w] = handled'[w] \o Held(w)' \o queue'[w] \o dropped'[w]
        <5>1. pushed[w] = handled[w] \o <<>> \o queue[w] \o dropped[w]
          BY <4>3 DEF EachJobInOnePlace
        <5>2. handled[w] \o <<>> \o queue[w] \o dropped[w]
                = handled[w] \o <<Head(queue[w])>> \o Tail(queue[w]) \o dropped[w]
          <6> DEFINE h == handled[w]
                     q == queue[w]
                     r == dropped[w]
          <6>1. h \in Seq(Jobs) /\ q \in Seq(Jobs) /\ r \in Seq(Jobs) /\ q # <<>>
            BY <3>2, <4>2
          <6> HIDE DEF h, q, r
          <6>2. h \o <<>> \o q \o r = h \o <<Head(q)>> \o Tail(q) \o r
            BY <6>1, PopKeepsOrder
          <6> QED BY <6>2 DEF h, q, r
        <5> QED BY <4>1, <4>3, <5>1, <5>2
      <4> QED BY <4>1, <4>4 DEF EachJobInOnePlace, Held
    <3> QED BY <3>1, <3>2
  <2> QED BY <2>1, <2>2, <2>3, <2>4, <2>5, <2>6
<1>8. ASSUME NEW w \in Workers, HandlerReturns(w) PROVE IInv'
  <2>1. TypeOK'
    <3>1. holding[w] \in Jobs /\ handled[w] \in Seq(Jobs)
      BY <1>8 DEF HandlerReturns, WorkerFlags, TypeOK
    <3>2. handled' \in [Workers -> Seq(Jobs)]
      BY <1>8, <3>1, AppendProperties DEF HandlerReturns, TypeOK
    <3> QED BY <1>8, <3>2 DEF HandlerReturns, TypeOK, WorkerPC
  <2>2. WorkerFlags'
    BY <1>8 DEF HandlerReturns, TypeOK, WorkerFlags
  <2>3. DispatcherLocals'
    BY <1>8 DEF HandlerReturns, TypeOK, DispatcherLocals
  <2>4. OwnerProgress'
    BY <1>8 DEF HandlerReturns, TypeOK, OwnerProgress
  <2>5. TornDown'
    BY <1>8 DEF HandlerReturns, TypeOK, TornDown
  <2>6. EachJobInOnePlace'
    <3>1. /\ handled'[w] = Append(handled[w], holding[w]) /\ holding'[w] = NoJob
          /\ \A v \in Workers \ {w} : holding'[v] = holding[v] /\ handled'[v] = handled[v]
          /\ UNCHANGED <<pushed, queue, dropped>>
      BY <1>8 DEF HandlerReturns, TypeOK
    <3>2. handled[w] \in Seq(Jobs) /\ holding[w] \in Jobs
      BY <1>8 DEF HandlerReturns, WorkerFlags, TypeOK
    <3>3. Held(w) = <<holding[w]>> /\ Held(w)' = <<>>
      BY <3>1, <3>2 DEF Held
    <3>4. pushed'[w] = handled'[w] \o Held(w)' \o queue'[w] \o dropped'[w]
      <4>1. pushed[w] = handled[w] \o <<holding[w]>> \o queue[w] \o dropped[w]
        BY <3>3 DEF EachJobInOnePlace
      <4>2. handled[w] \o <<holding[w]>> = Append(handled[w], holding[w]) \o <<>>
        BY <3>2, HandlingKeepsOrder
      <4> QED BY <3>1, <3>3, <4>1, <4>2
    <3> QED BY <3>1, <3>4 DEF EachJobInOnePlace, Held
  <2> QED BY <2>1, <2>2, <2>3, <2>4, <2>5, <2>6
<1>9. ASSUME NEW w \in Workers, Unlock(w) PROVE IInv'
  <2>1. TypeOK'
    BY <1>9 DEF Unlock, TypeOK, WorkerPC
  <2>2. WorkerFlags'
    BY <1>9 DEF Unlock, TypeOK, WorkerFlags
  <2>3. DispatcherLocals'
    BY <1>9 DEF Unlock, TypeOK, DispatcherLocals
  <2>4. OwnerProgress'
    BY <1>9 DEF Unlock, TypeOK, OwnerProgress
  <2>5. TornDown'
    BY <1>9 DEF Unlock, TypeOK, TornDown
  <2>6. EachJobInOnePlace'
    BY <1>9 DEF Unlock, TypeOK, EachJobInOnePlace, Held
  <2> QED BY <2>1, <2>2, <2>3, <2>4, <2>5, <2>6
<1>10. ASSUME NEW w \in Workers, AckKill(w) PROVE IInv'
  <2>1. TypeOK'
    BY <1>10 DEF AckKill, TypeOK, WorkerPC
  <2>2. WorkerFlags'
    BY <1>10 DEF AckKill, TypeOK, WorkerFlags
  <2>3. DispatcherLocals'
    BY <1>10 DEF AckKill, TypeOK, DispatcherLocals
  <2>4. OwnerProgress'
    BY <1>10 DEF AckKill, TypeOK, OwnerProgress
  <2>5. TornDown'
    BY <1>10 DEF AckKill, TypeOK, TornDown
  <2>6. EachJobInOnePlace'
    BY <1>10 DEF AckKill, TypeOK, EachJobInOnePlace, Held
  <2> QED BY <2>1, <2>2, <2>3, <2>4, <2>5, <2>6
<1>11. ASSUME NEW d \in Dispatchers, NEW j \in Jobs, StartDispatch(d, j) PROVE IInv'
  <2>1. TypeOK'
    <3>1. dispatch'[d] \in DispatcherState
      BY <1>11 DEF StartDispatch, DispatcherState, TypeOK
    <3> QED BY <1>11, <3>1 DEF StartDispatch, TypeOK
  <2>2. WorkerFlags'
    BY <1>11 DEF StartDispatch, Idle, TypeOK, WorkerFlags
  <2>3. DispatcherLocals'
    BY <1>11 DEF StartDispatch, Idle, TypeOK, DispatcherLocals
  <2>4. OwnerProgress'
    BY <1>11 DEF StartDispatch, Idle, TypeOK, OwnerProgress
  <2>5. TornDown'
    BY <1>11 DEF StartDispatch, Idle, TypeOK, TornDown
  <2>6. EachJobInOnePlace'
    BY <1>11 DEF StartDispatch, Idle, TypeOK, EachJobInOnePlace, Held
  <2> QED BY <2>1, <2>2, <2>3, <2>4, <2>5, <2>6
<1>12. ASSUME NEW d \in Dispatchers, ScanWorker(d) PROVE IInv'
  <2>1. TypeOK'
    <3> DEFINE s == dispatch[d]
               i == Len(s.seen) + 1
               len == Len(queue[i])
    <3>1. s \in DispatcherState /\ i \in Workers /\ len \in Nat
      BY <1>12 DEF ScanWorker, TypeOK, DispatcherState
    <3>2. dispatch'[d] = [at |-> IF i = NWorkers THEN "push" ELSE "scan",
                          job |-> s.job,
                          best |-> IF Better(s, len) THEN i ELSE s.best,
                          seen |-> Append(s.seen, len)]
      BY <1>12 DEF ScanWorker, TypeOK
    <3>3. Append(s.seen, len) \in Seq(Nat)
      BY <3>1 DEF DispatcherState
    <3>4. dispatch'[d] \in DispatcherState
      BY <3>1, <3>2, <3>3 DEF DispatcherState, Workers
    <3> QED BY <1>12, <3>4 DEF ScanWorker, TypeOK
  <2>2. WorkerFlags'
    BY <1>12 DEF ScanWorker, Better, TypeOK, WorkerFlags
  <2>3. DispatcherLocals'
    <3> DEFINE s == dispatch[d]
               i == Len(s.seen) + 1
               len == Len(queue[i])
    <3>1. /\ s \in DispatcherState /\ s.at = "scan" /\ i \in Workers
          /\ dispatch'[d] = [at |-> IF i = NWorkers THEN "push" ELSE "scan",
                             job |-> s.job,
                             best |-> IF Better(s, len) THEN i ELSE s.best,
                             seen |-> Append(s.seen, len)]
          /\ \A e \in Dispatchers \ {d} : dispatch'[e] = dispatch[e]
          /\ owner' = owner
      BY <1>12 DEF ScanWorker, TypeOK
    <3>2. dispatch'[d].best \in Workers
      BY <3>1 DEF Better, Workers, DispatcherState
    <3>3. dispatch'[d].job \in Jobs /\ owner'.at = "running"
      BY <3>1 DEF DispatcherLocals
    <3> QED BY <3>1, <3>2, <3>3 DEF DispatcherLocals
  <2>4. OwnerProgress'
    BY <1>12 DEF ScanWorker, Better, TypeOK, OwnerProgress
  <2>5. TornDown'
    BY <1>12 DEF ScanWorker, Better, TypeOK, TornDown
  <2>6. EachJobInOnePlace'
    BY <1>12 DEF ScanWorker, Better, TypeOK, EachJobInOnePlace, Held
  <2> QED BY <2>1, <2>2, <2>3, <2>4, <2>5, <2>6
<1>13. ASSUME NEW d \in Dispatchers, PushJob(d) PROVE IInv'
  <2>1. TypeOK'
    <3> DEFINE w == dispatch[d].best
               j == dispatch[d].job
    <3>1. w \in Workers /\ j \in Jobs
      BY <1>13 DEF PushJob, DispatcherLocals
    <3>2. dispatch'[d] \in DispatcherState
      BY <1>13, <3>1 DEF PushJob, DispatcherState, TypeOK, Workers
    <3>3. queue' \in [Workers -> Seq(Jobs)] /\ pushed' \in [Workers -> Seq(Jobs)]
      BY <1>13, <3>1, AppendProperties DEF PushJob, TypeOK
    <3> QED BY <1>13, <3>2, <3>3 DEF PushJob, TypeOK
  <2>2. WorkerFlags'
    BY <1>13 DEF PushJob, TypeOK, WorkerFlags
  <2>3. DispatcherLocals'
    BY <1>13 DEF PushJob, TypeOK, DispatcherLocals
  <2>4. OwnerProgress'
    BY <1>13 DEF PushJob, TypeOK, OwnerProgress
  <2>5. TornDown'
    <3>1. owner.at = "running" /\ torn = {}
      BY <1>13, SMTT(30) DEF PushJob, DispatcherLocals, OwnerProgress
    <3> QED BY <1>13, <3>1 DEF PushJob, TornDown
  <2>6. EachJobInOnePlace'
    <3> DEFINE w == dispatch[d].best
               j == dispatch[d].job
               a == handled[w] \o Held(w)
    <3>1. w \in Workers /\ j \in Jobs /\ dropped[w] = <<>>
      BY <1>13 DEF PushJob, DispatcherLocals, OwnerProgress, TornDown
    <3>2. /\ pushed'[w] = Append(pushed[w], j) /\ queue'[w] = Append(queue[w], j)
          /\ UNCHANGED <<handled, holding, dropped>>
          /\ \A v \in Workers \ {w} : pushed'[v] = pushed[v] /\ queue'[v] = queue[v]
      BY <1>13, <3>1, SMTT(30) DEF PushJob, TypeOK
    <3>3. a \in Seq(Jobs) /\ queue[w] \in Seq(Jobs)
      <4>1. Held(w) \in Seq(Jobs) /\ handled[w] \in Seq(Jobs) /\ queue[w] \in Seq(Jobs)
        BY <3>1 DEF Held, TypeOK
      <4> QED BY <4>1, ConcatProperties
    <3>4. pushed'[w] = a \o queue'[w] \o <<>>
      <4>1. pushed[w] = a \o queue[w] \o <<>>
        BY <3>1 DEF EachJobInOnePlace
      <4>2. Append(queue[w], j) \in Seq(Jobs) /\ a \o queue[w] \in Seq(Jobs)
        BY <3>1, <3>3, AppendProperties, ConcatProperties
      <4>3. a \o Append(queue[w], j) \in Seq(Jobs)
        BY <3>3, <4>2, ConcatProperties
      <4>4. /\ a \o queue[w] \o <<>> = a \o queue[w]
            /\ a \o Append(queue[w], j) \o <<>> = a \o Append(queue[w], j)
        BY <4>2, <4>3, ConcatEmptySeq
      <4>5. Append(a \o queue[w], j) = a \o Append(queue[w], j)
        <5>1. /\ Append(a \o queue[w], j) = a \o queue[w] \o <<j>>
              /\ Append(queue[w], j) = queue[w] \o <<j>>
          BY <3>1, <3>3, <4>2, AppendIsConcat
        <5>2. a \o queue[w] \o <<j>> = a \o (queue[w] \o <<j>>)
          <6> DEFINE q == queue[w]
                     l == <<j>>
          <6>1. a \in Seq(Jobs) /\ q \in Seq(Jobs) /\ l \in Seq(Jobs)
            BY <3>1, <3>3
          <6> HIDE DEF a, q, l
          <6>2. a \o q \o l = a \o (q \o l)
            BY <6>1, ConcatAssociative
          <6> QED BY <6>2 DEF q, l
        <5> QED BY <5>1, <5>2
      <4> QED BY <3>2, <4>1, <4>4, <4>5
    <3> QED BY <3>1, <3>2, <3>4 DEF EachJobInOnePlace, Held
  <2> QED BY <2>1, <2>2, <2>3, <2>4, <2>5, <2>6
<1>14. ASSUME NEW d \in Dispatchers, SignalJob(d) PROVE IInv'
  <2>1. TypeOK'
    <3>1. dispatch'[d] \in DispatcherState
      BY <1>14 DEF SignalJob, Idle, DispatcherState, TypeOK
    <3>2. woken' \in [Workers -> BOOLEAN]
      BY <1>14 DEF SignalJob, Signal, TypeOK
    <3> QED BY <1>14, <3>1, <3>2 DEF SignalJob, TypeOK, historyVars
  <2>2. WorkerFlags'
    BY <1>14 DEF SignalJob, Signal, Idle, TypeOK, WorkerFlags
  <2>3. DispatcherLocals'
    BY <1>14 DEF SignalJob, Signal, Idle, TypeOK, DispatcherLocals
  <2>4. OwnerProgress'
    BY <1>14 DEF SignalJob, Signal, Idle, TypeOK, OwnerProgress
  <2>5. TornDown'
    BY <1>14 DEF SignalJob, Signal, Idle, TypeOK, TornDown
  <2>6. EachJobInOnePlace'
    BY <1>14 DEF SignalJob, Signal, Idle, TypeOK, EachJobInOnePlace, Held
  <2> QED BY <2>1, <2>2, <2>3, <2>4, <2>5, <2>6
<1>15. ASSUME StartDestroy PROVE IInv'
  <2>1. TypeOK'
    <3>1. owner' \in OwnerState
      BY <1>15 DEF StartDestroy, OwnerState, TypeOK, OwnerProgress, Workers
    <3> QED BY <1>15, <3>1 DEF StartDestroy, TypeOK
  <2>2. WorkerFlags'
    BY <1>15 DEF StartDestroy, TypeOK, WorkerFlags
  <2>3. DispatcherLocals'
    BY <1>15 DEF StartDestroy, TypeOK, DispatcherLocals
  <2>4. OwnerProgress'
    BY <1>15 DEF StartDestroy, TypeOK, OwnerProgress
  <2>5. TornDown'
    BY <1>15 DEF StartDestroy, TypeOK, TornDown
  <2>6. EachJobInOnePlace'
    BY <1>15 DEF StartDestroy, TypeOK, EachJobInOnePlace, Held
  <2> QED BY <2>1, <2>2, <2>3, <2>4, <2>5, <2>6
<1>16. ASSUME KillWorker PROVE IInv'
  <2>1. TypeOK'
    <3>1. owner' \in OwnerState
      BY <1>16 DEF KillWorker, OwnerState, TypeOK, OwnerProgress, Workers
    <3> QED BY <1>16, <3>1 DEF KillWorker, TypeOK
  <2>2. WorkerFlags'
    BY <1>16 DEF KillWorker, TypeOK, WorkerFlags
  <2>3. DispatcherLocals'
    BY <1>16 DEF KillWorker, TypeOK, DispatcherLocals
  <2>4. OwnerProgress'
    BY <1>16 DEF KillWorker, TypeOK, OwnerProgress
  <2>5. TornDown'
    BY <1>16 DEF KillWorker, TypeOK, TornDown
  <2>6. EachJobInOnePlace'
    BY <1>16 DEF KillWorker, TypeOK, EachJobInOnePlace, Held
  <2> QED BY <2>1, <2>2, <2>3, <2>4, <2>5, <2>6
<1>17. ASSUME SignalKill PROVE IInv'
  <2>1. TypeOK'
    <3>1. owner' \in OwnerState
      BY <1>17 DEF SignalKill, OwnerState, TypeOK
    <3>2. woken' \in [Workers -> BOOLEAN]
      BY <1>17 DEF SignalKill, Signal, TypeOK
    <3> QED BY <1>17, <3>1, <3>2 DEF SignalKill, TypeOK, historyVars
  <2>2. WorkerFlags'
    BY <1>17 DEF SignalKill, Signal, TypeOK, WorkerFlags
  <2>3. DispatcherLocals'
    BY <1>17 DEF SignalKill, Signal, TypeOK, DispatcherLocals
  <2>4. OwnerProgress'
    BY <1>17 DEF SignalKill, Signal, TypeOK, OwnerProgress
  <2>5. TornDown'
    BY <1>17 DEF SignalKill, Signal, TypeOK, TornDown
  <2>6. EachJobInOnePlace'
    BY <1>17 DEF SignalKill, Signal, TypeOK, EachJobInOnePlace, Held
  <2> QED BY <2>1, <2>2, <2>3, <2>4, <2>5, <2>6
<1>18. ASSUME TearDownWorker PROVE IInv'
  <2>1. TypeOK'
    <3>1. owner.k \in Workers
      BY <1>18 DEF TearDownWorker, OwnerProgress
    <3>2. owner' \in OwnerState
      BY <1>18, <3>1 DEF TearDownWorker, OwnerState, Workers
    <3>3. queue' \in [Workers -> Seq(Jobs)] /\ dropped' \in [Workers -> Seq(Jobs)]
      BY <1>18, <3>1 DEF TearDownWorker, TypeOK
    <3> QED BY <1>18, <3>1, <3>2, <3>3 DEF TearDownWorker, TypeOK
  <2>2. WorkerFlags'
    BY <1>18 DEF TearDownWorker, TypeOK, WorkerFlags
  <2>3. DispatcherLocals'
    BY <1>18 DEF TearDownWorker, TypeOK, DispatcherLocals
  <2>4. OwnerProgress'
    <3>1. /\ owner.k \in 1 .. NWorkers /\ torn = 1 .. (owner.k - 1)
          /\ owner' = [at |-> "kill", k |-> owner.k + 1] /\ torn' = torn \cup {owner.k}
      BY <1>18 DEF TearDownWorker, OwnerProgress, Workers
    <3>2. torn' = 1 .. owner.k
      BY <3>1
    <3> QED BY <3>1, <3>2 DEF OwnerProgress
  <2>5. TornDown'
    BY <1>18 DEF TearDownWorker, TypeOK, TornDown
  <2>6. EachJobInOnePlace'
    <3> DEFINE w == owner.k
               a == handled[w] \o Held(w)
    <3>1. w \in Workers /\ w \notin torn /\ dropped[w] = <<>>
      BY <1>18 DEF TearDownWorker, OwnerProgress, TornDown, Workers
    <3>2. /\ queue'[w] = <<>> /\ dropped'[w] = queue[w]
          /\ \A v \in Workers \ {w} : queue'[v] = queue[v] /\ dropped'[v] = dropped[v]
          /\ UNCHANGED <<pushed, handled, holding>>
      BY <1>18, <3>1 DEF TearDownWorker, TypeOK
    <3>3. handled[w] \in Seq(Jobs) /\ Held(w) \in Seq(Jobs) /\ queue[w] \in Seq(Jobs)
      BY <3>1 DEF TypeOK, Held
    <3>4. a \in Seq(Jobs)
      BY <3>3, ConcatProperties
    <3>5. pushed[w] = a \o <<>> \o queue[w]
      <4>1. pushed[w] = a \o queue[w] \o <<>>
        BY <3>1 DEF EachJobInOnePlace
      <4>2. a \o queue[w] \o <<>> = a \o <<>> \o queue[w]
        BY <3>3, <3>4, FreeingKeepsOrder
      <4> QED BY <4>1, <4>2
    <3> QED BY <3>1, <3>2, <3>5 DEF EachJobInOnePlace, Held
  <2> QED BY <2>1, <2>2, <2>3, <2>4, <2>5, <2>6
<1>19. ASSUME FreePool PROVE IInv'
  <2>1. TypeOK'
    <3>1. owner' \in OwnerState
      BY <1>19 DEF FreePool, OwnerState, TypeOK, OwnerProgress, Workers
    <3> QED BY <1>19, <3>1 DEF FreePool, TypeOK
  <2>2. WorkerFlags'
    BY <1>19 DEF FreePool, TypeOK, WorkerFlags
  <2>3. DispatcherLocals'
    BY <1>19 DEF FreePool, TypeOK, DispatcherLocals
  <2>4. OwnerProgress'
    BY <1>19 DEF FreePool, TypeOK, OwnerProgress
  <2>5. TornDown'
    BY <1>19 DEF FreePool, TypeOK, TornDown
  <2>6. EachJobInOnePlace'
    BY <1>19 DEF FreePool, TypeOK, EachJobInOnePlace, Held
  <2> QED BY <2>1, <2>2, <2>3, <2>4, <2>5, <2>6
<1>20. CASE UNCHANGED vars
  BY <1>20 DEF vars, TypeOK, WorkerFlags, DispatcherLocals, OwnerProgress,
     TornDown, EachJobInOnePlace, Held
<1> QED
  BY <1>1, <1>2, <1>3, <1>4, <1>5, <1>6, <1>7, <1>8, <1>9, <1>10, <1>11, <1>12, <1>13, <1>14, <1>15, <1>16, <1>17, <1>18, <1>19, <1>20 DEF Next, WorkerStep, DispatcherStep, OwnerStep

(* IInv holds in every reachable state.                                    *)
THEOREM PoolInvariant == Spec => []IInv
BY InitIInv, NextIInv, PTL DEF Spec

(* Every variable keeps its type, whatever the threads do.                 *)
THEOREM TypeCorrect == Spec => []TypeOK
<1>1. IInv => TypeOK
  BY DEF IInv
<1> QED BY <1>1, PoolInvariant, PTL

(* Each job that was pushed is handled, in the handler, queued or freed    *)
(* with the list, exactly once and in order.                               *)
THEOREM JobsAreNeitherLostNorDuplicated == Spec => []EachJobInOnePlace
<1>1. IInv => EachJobInOnePlace
  BY DEF IInv
<1> QED BY <1>1, PoolInvariant, PTL

(* What threadPoolDestroy frees is not used any more.                      *)
THEOREM DestroyIsSafe == Spec => []NoUseAfterFree
<1>1. IInv => NoUseAfterFree
  <2> SUFFICES ASSUME IInv, NEW w \in torn
               PROVE  /\ pc[w] = "done" /\ holding[w] = NoJob /\ queue[w] = <<>>
                      /\ \A d \in Dispatchers : dispatch[d].at = "idle"
    BY DEF NoUseAfterFree
  <2>1. w \in Workers /\ killAck[w] /\ queue[w] = <<>>
    BY DEF IInv, TypeOK, TornDown
  <2>2. pc[w] = "done" /\ holding[w] = NoJob
    BY <2>1 DEF IInv, WorkerFlags
  <2>3. owner.at # "running"
    BY DEF IInv, OwnerProgress
  <2> QED BY <2>1, <2>2, <2>3 DEF IInv, DispatcherLocals, TypeOK, DispatcherState
<1> QED BY <1>1, PoolInvariant, PTL

-----------------------------------------------------------------------------
(* Where a job goes                                                        *)

(* A search stays right while no list grows.                               *)
LEMMA SearchStays ==
  ASSUME IInv, NEW d \in Dispatchers, SearchOK(dispatch[d]),
         dispatch[d].at \in {"scan", "push"}, dispatch'[d] = dispatch[d],
         \A w \in Workers : Len(queue'[w]) \in Nat /\ Len(queue'[w]) <= Len(queue[w])
  PROVE  SearchOK(dispatch[d])'
<1>1. PICK s \in DispatcherState : s = dispatch[d]
  BY DEF IInv, TypeOK
<1>2. SearchOK(s)
  BY <1>1
<1>3. ASSUME s.best # 0 PROVE Len(queue'[s.best]) <= s.seen[s.best]
  <2>1. s.seen \in Seq(Nat) /\ Len(s.seen) \in Nat /\ Len(s.seen) <= NWorkers
    BY <1>2, PoolAssumption DEF SearchOK, DispatcherState
  <2>2. s.best \in 1..Len(s.seen) /\ s.best \in Workers
    BY <1>2, <1>3, <2>1, PoolAssumption DEF SearchOK, Workers
  <2>3. Len(queue[s.best]) <= s.seen[s.best] /\ Len(queue[s.best]) \in Nat /\ s.seen[s.best] \in Nat
    <3>1. queue[s.best] \in Seq(Jobs)
      BY <2>2 DEF IInv, TypeOK
    <3>2. s.seen[s.best] \in Nat
      BY <2>1, <2>2
    <3> QED BY <1>2, <1>3, <3>1, <3>2 DEF SearchOK
  <2>4. Len(queue'[s.best]) \in Nat /\ Len(queue'[s.best]) <= Len(queue[s.best])
    BY <2>2
  <2> QED BY <2>3, <2>4
<1>4. SearchOK(s)'
  BY <1>2, <1>3 DEF SearchOK
<1> QED BY <1>1, <1>4 DEF SearchOK

(* The next worker replaces the best one only if its list is shorter.      *)
LEMMA ScanKeepsSearch ==
  ASSUME IInv, NEW d \in Dispatchers, SearchOK(dispatch[d]), ScanWorker(d)
  PROVE  SearchOK(dispatch[d])'
<1>1. PICK s \in DispatcherState : s = dispatch[d]
  BY DEF IInv, TypeOK
<1>2. PICK n \in Nat : n = Len(s.seen) /\ s.seen \in Seq(Nat)
  BY <1>1 DEF DispatcherState
<1>3. /\ s.at = "scan" /\ n + 1 \in Workers /\ queue' = queue
      /\ dispatch'[d] = [at |-> IF n + 1 = NWorkers THEN "push" ELSE "scan",
                         job |-> s.job,
                         best |-> IF Better(s, Len(queue[n + 1])) THEN n + 1 ELSE s.best,
                         seen |-> Append(s.seen, Len(queue[n + 1]))]
  BY <1>1, <1>2 DEF ScanWorker, IInv, TypeOK
<1>4. PICK len \in Nat : len = Len(queue[n + 1])
  BY <1>3 DEF IInv, TypeOK
<1>5. PICK r : r = dispatch'[d]
  OBVIOUS
<1>6. /\ r.at = (IF n + 1 = NWorkers THEN "push" ELSE "scan")
      /\ r.best = (IF Better(s, len) THEN n + 1 ELSE s.best)
      /\ r.seen = Append(s.seen, len)
  BY <1>3, <1>4, <1>5
<1>7. /\ Len(r.seen) = n + 1 /\ r.seen[n + 1] = len
      /\ \A i \in 1..n : r.seen[i] = s.seen[i] /\ s.seen[i] \in Nat
  BY <1>2, <1>4, <1>6
<1>8. /\ n < NWorkers /\ s.best \in 0..n /\ (s.best = 0 => n = 0)
      /\ s.best # 0 => Len(queue[s.best]) <= s.seen[s.best]
      /\ \A i \in 1..n : /\ s.seen[s.best] <= s.seen[i]
                         /\ i < s.best => s.seen[s.best] < s.seen[i]
  BY <1>1, <1>2, <1>3 DEF SearchOK
<1>9. NWorkers \in Nat /\ n + 1 <= NWorkers
  BY <1>3, PoolAssumption DEF Workers
<1>10. IF r.at = "push" THEN Len(r.seen) = NWorkers ELSE Len(r.seen) < NWorkers
  BY <1>6, <1>7, <1>9
<1>11. CASE Better(s, len)
  <2>1. r.best = n + 1
    BY <1>6, <1>11
  <2>2. ASSUME NEW i \in 1..n PROVE len < s.seen[i]
    <3>1. s.best \in 1..n
      BY <1>8
    <3>2. len < s.seen[s.best]
      BY <1>11, <3>1 DEF Better
    <3>3. s.seen[s.best] <= s.seen[i] /\ s.seen[s.best] \in Nat /\ s.seen[i] \in Nat
      BY <1>7, <1>8, <3>1
    <3> QED BY <3>2, <3>3
  <2>3. ASSUME NEW i \in 1..(n + 1)
        PROVE  r.seen[r.best] <= r.seen[i] /\ (i < r.best => r.seen[r.best] < r.seen[i])
    <3>1. CASE i = n + 1
      BY <1>7, <2>1, <3>1
    <3>2. CASE i \in 1..n
      BY <1>7, <2>1, <2>2, <3>2
    <3> QED BY <3>1, <3>2
  <2>4. Len(queue[r.best]) <= r.seen[r.best]
    BY <1>4, <1>7, <2>1
  <2>5. r.best \in 0..(n + 1) /\ r.best # 0
    BY <2>1
  <2> QED BY <1>3, <1>5, <1>7, <1>10, <2>3, <2>4, <2>5 DEF SearchOK
<1>12. CASE ~Better(s, len)
  <2>1. r.best = s.best /\ s.best \in 1..n /\ ~(len < s.seen[s.best])
    BY <1>6, <1>8, <1>12 DEF Better
  <2>2. s.seen[s.best] <= len
    BY <1>7, <2>1
  <2>3. ASSUME NEW i \in 1..(n + 1)
        PROVE  r.seen[r.best] <= r.seen[i] /\ (i < r.best => r.seen[r.best] < r.seen[i])
    <3>1. CASE i = n + 1
      BY <1>7, <2>1, <2>2, <3>1
    <3>2. CASE i \in 1..n
      BY <1>7, <1>8, <2>1, <3>2
    <3> QED BY <3>1, <3>2
  <2>4. Len(queue[r.best]) <= r.seen[r.best]
    BY <1>7, <1>8, <2>1
  <2>5. r.best \in 0..(n + 1) /\ r.best # 0
    BY <2>1
  <2> QED BY <1>3, <1>5, <1>7, <1>10, <2>3, <2>4, <2>5 DEF SearchOK
<1> QED BY <1>11, <1>12

(* No list grows in the steps of the workers and of the owner.             *)
LEMMA ListsShrink ==
  ASSUME IInv, \/ \E w \in Workers : WorkerStep(w) \/ SpuriousWake(w)
               \/ OwnerStep
               \/ StartDestroy
  PROVE  /\ dispatch' = dispatch
         /\ \A w \in Workers : Len(queue'[w]) \in Nat /\ Len(queue'[w]) <= Len(queue[w])
<1> USE DEF workerVars, historyVars
<1>1. \A w \in Workers : queue[w] \in Seq(Jobs) /\ Len(queue[w]) \in Nat
  BY DEF IInv, TypeOK
<1>2. ASSUME NEW w \in Workers, PopJob(w)
      PROVE  /\ dispatch' = dispatch
             /\ \A v \in Workers : Len(queue'[v]) \in Nat /\ Len(queue'[v]) <= Len(queue[v])
  <2>1. queue' = queue \/ (queue[w] # <<>> /\ queue' = [queue EXCEPT ![w] = Tail(@)])
    BY <1>2 DEF PopJob
  <2>2. queue[w] # <<>> => Len(Tail(queue[w])) \in Nat /\ Len(Tail(queue[w])) <= Len(queue[w])
    <3>1. PICK q \in Seq(Jobs) : q = queue[w]
      BY <1>1
    <3>2. q # <<>> => Len(Tail(q)) \in Nat /\ Len(Tail(q)) = Len(q) - 1
      BY HeadTailProperties
    <3> QED BY <1>1, <3>1, <3>2
  <2>3. dispatch' = dispatch
    BY <1>2 DEF PopJob
  <2>4. ASSUME NEW v \in Workers
        PROVE  Len(queue'[v]) \in Nat /\ Len(queue'[v]) <= Len(queue[v])
    <3>1. Len(queue[v]) \in Nat
      BY <1>1
    <3>2. \/ queue'[v] = queue[v]
          \/ v = w /\ queue[w] # <<>> /\ queue'[v] = Tail(queue[w])
      BY <2>1 DEF IInv, TypeOK
    <3>3. CASE queue'[v] = queue[v]
      <4>1. Len(queue'[v]) = Len(queue[v])
        BY <3>3
      <4> QED BY <3>1, <4>1
    <3>4. CASE v = w /\ queue[w] # <<>> /\ queue'[v] = Tail(queue[w])
      <4>1. Len(queue'[v]) = Len(Tail(queue[w])) /\ Len(queue[v]) = Len(queue[w])
        BY <3>4
      <4> QED BY <2>2, <3>4, <4>1
    <3> QED BY <3>2, <3>3, <3>4
  <2> QED BY <2>3, <2>4
<1>3. CASE TearDownWorker
  BY <1>1, <1>3 DEF TearDownWorker, IInv, TypeOK
<1>4. CASE \/ \E w \in Workers : \/ CheckKilled(w) \/ StartWait(w) \/ Wake(w)
                                 \/ HandlerReturns(w) \/ Unlock(w) \/ AckKill(w)
                                 \/ SpuriousWake(w)
           \/ CreateWorker \/ PoolCreated \/ KillWorker \/ SignalKill \/ FreePool
           \/ StartDestroy
  BY <1>1, <1>4 DEF CheckKilled, StartWait, Wake, HandlerReturns, Unlock, AckKill,
     SpuriousWake, CreateWorker, PoolCreated, KillWorker, SignalKill, FreePool, StartDestroy
<1> QED BY <1>2, <1>3, <1>4 DEF WorkerStep, OwnerStep

(* With one dispatcher each step keeps the search right.                   *)
LEMMA NextSearch ==
  ASSUME \A d, e \in Dispatchers : d = e,
         IInv, SearchInv, [Next]_vars
  PROVE  SearchInv'
<1> SUFFICES ASSUME NEW d \in Dispatchers, dispatch'[d].at \in {"scan", "push"}
             PROVE  SearchOK(dispatch[d])'
  BY DEF SearchInv
<1>1. dispatch[d].at \in {"scan", "push"} => SearchOK(dispatch[d])
  BY DEF SearchInv
<1>2. ASSUME \/ \E w \in Workers : WorkerStep(w) \/ SpuriousWake(w)
             \/ OwnerStep
             \/ StartDestroy
      PROVE  SearchOK(dispatch[d])'
  BY <1>1, <1>2, ListsShrink, SearchStays
<1>3. ASSUME NEW j \in Jobs, StartDispatch(d, j) PROVE SearchOK(dispatch[d])'
  <2>1. dispatch'[d] = [at |-> "scan", job |-> j, best |-> 0, seen |-> <<>>]
    BY <1>3 DEF StartDispatch, IInv, TypeOK
  <2> QED BY <2>1, PoolAssumption DEF SearchOK
<1>4. ASSUME ScanWorker(d) PROVE SearchOK(dispatch[d])'
  BY <1>1, <1>4, ScanKeepsSearch DEF ScanWorker
<1>5. ~PushJob(d)
  <2>1. PushJob(d) => dispatch'[d].at = "signal"
    BY DEF PushJob, IInv, TypeOK
  <2> QED BY <2>1
<1>6. ~SignalJob(d)
  <2>1. SignalJob(d) => dispatch'[d].at = "idle"
    BY DEF SignalJob, Idle, IInv, TypeOK
  <2> QED BY <2>1
<1>7. ASSUME UNCHANGED vars PROVE SearchOK(dispatch[d])'
  BY <1>1, <1>7 DEF vars, SearchOK
<1>8. ASSUME NEW e \in Dispatchers, DispatcherStep(e) \/ \E j \in Jobs : StartDispatch(e, j)
      PROVE  SearchOK(dispatch[d])'
  <2>1. e = d
    OBVIOUS
  <2> QED BY <1>3, <1>4, <1>5, <1>6, <1>8, <2>1 DEF DispatcherStep
<1> QED BY <1>2, <1>7, <1>8 DEF Next

(* If one thread dispatches, as the server thread does, its job goes to a  *)
(* list that is no longer, when the job is pushed, than any list was when  *)
(* the search passed it, to the first such list in a tie: for any number   *)
(* of workers and however they pop meanwhile.                              *)
THEOREM OneDispatcherBalances ==
  ASSUME \A d, e \in Dispatchers : d = e
  PROVE  Spec => []DispatchToLeastLoaded
<1>1. Init => SearchInv
  BY DEF Init, SearchInv, Idle
<1>2. IInv /\ SearchInv /\ [Next]_vars => SearchInv'
  BY NextSearch
<1>3. IInv /\ SearchInv => DispatchToLeastLoaded
  <2> SUFFICES ASSUME IInv, SearchInv, NEW d \in Dispatchers, dispatch[d].at = "push",
                      NEW i \in Workers
               PROVE  /\ Len(queue[dispatch[d].best]) <= dispatch[d].seen[i]
                      /\ i < dispatch[d].best =>
                           dispatch[d].seen[dispatch[d].best] < dispatch[d].seen[i]
    BY DEF DispatchToLeastLoaded
  <2>1. PICK s \in DispatcherState : s = dispatch[d]
    BY DEF IInv, TypeOK
  <2>2. SearchOK(s) /\ s.at = "push"
    BY <2>1 DEF SearchInv
  <2>3. s.seen \in Seq(Nat) /\ Len(s.seen) = NWorkers /\ s.best \in Workers /\ s.best # 0
    BY <2>1, <2>2, PoolAssumption DEF SearchOK, DispatcherState, IInv, DispatcherLocals, Workers
  <2>4. /\ Len(queue[s.best]) <= s.seen[s.best] /\ s.seen[s.best] <= s.seen[i]
        /\ i < s.best => s.seen[s.best] < s.seen[i]
    BY <2>2, <2>3 DEF SearchOK, Workers
  <2>5. Len(queue[s.best]) \in Nat /\ s.seen[s.best] \in Nat /\ s.seen[i] \in Nat
    <3>1. queue[s.best] \in Seq(Jobs)
      BY <2>3 DEF IInv, TypeOK
    <3>2. Len(queue[s.best]) \in Nat
      BY <3>1
    <3>3. s.best \in 1..Len(s.seen) /\ i \in 1..Len(s.seen)
      BY <2>3 DEF Workers
    <3>4. s.seen[s.best] \in Nat /\ s.seen[i] \in Nat
      BY <2>3, <3>3, LenProperties
    <3> QED BY <3>2, <3>4
  <2> QED BY <2>1, <2>4, <2>5
<1> QED BY <1>1, <1>2, <1>3, PoolInvariant, PTL DEF Spec
=============================================================================
