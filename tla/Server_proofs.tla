---------------------------- MODULE Server_proofs ----------------------------
(***************************************************************************)
(* Proofs about Server, for any connections, descriptors, capacity, limit  *)
(* and addresses.  With any handlers and timeouts: the set stays within    *)
(* its arrays, never has more entries of an address than max_conns_per_ip, *)
(* and without workers an answer goes where the request came from.  If no  *)
(* handler discards a connection: the time of last use is never stored     *)
(* through NULL.  If there are no timeouts either: each open connection is *)
(* in the set, at most max_concurrent_connections are open, and all are    *)
(* closed when kill_ack is set.                                            *)
(***************************************************************************)
EXTENDS Server, SlotArray_proofs

(* What adding to the set and removing from it preserve.                   *)
EntriesOK == SetOK /\ EntriesWithinLimit

(* The kernel finds the lowest free descriptor.                            *)
LEMMA NewFdIsFree ==
  ASSUME FreeFds # {}
  PROVE  NewFd \in FreeFds
<1>1. FreeFds \in SUBSET Nat
  BY ServerAssumption DEF FreeFds, Fds
<1> DEFINE free == FreeFds
<1> HIDE DEF free
<1>2. \E f \in free : \A g \in free : f <= g
  BY <1>1, SetHasMinimum, Zenon DEF free
<1> QED BY <1>2 DEF NewFd, free

(* What server.c:319 compares with, max_conns_per_ip as a size_t, is a number. *)
LEMMA UnsignedIsNat == Unsigned(MaxPerIp) \in Nat
BY ServerAssumption DEF Unsigned

(* The number of entries of an address is a number.                        *)
LEMMA CountIsNat ==
  ASSUME SetOK, NEW k
  PROVE  CountOfKey(k) \in Nat
BY SlotsFinite, ServerAssumption DEF SetOK, CountOfKey

(* mcfsSetRemove keeps the arrays, and leaves no more of any address.      *)
LEMMA RemoveKeepsEntries ==
  ASSUME EntriesOK, NEW ps \in [0..(Cap - 1) -> Pfd], NEW p, Remove(ps, p)
  PROVE  EntriesOK'
<1> DEFINE i == Find(ps, len, p)
<1>1. len \in 0..Cap /\ len \in Nat /\ Cap \in Nat
  BY ServerAssumption DEF EntriesOK, SetOK
<1>2. CASE i = NotFound
  BY <1>1, <1>2 DEF Remove, EntriesOK, SetOK, EntriesWithinLimit, CountOfKey
<1>3. CASE i # NotFound
  <2>1. i \in 0..(len - 1)
    BY <1>1, <1>3, FindProperties
  <2>2. pfds' = Shift(ps, len, i) /\ ips' = Shift(ips, len, i) /\ len' = len - 1
    BY <1>3 DEF Remove
  <2> HIDE DEF i
  <2>3. pfds' \in [0..(Cap - 1) -> Pfd]
    BY <1>1, <2>1, <2>2, ShiftType
  <2>4. ips \in [0..(Cap - 1) -> Keys]
    BY DEF EntriesOK, SetOK
  <2>5. ips' \in [0..(Cap - 1) -> Keys]
    BY <1>1, <2>1, <2>2, <2>4, ShiftType
  <2>6. SetOK'
    BY <1>1, <2>1, <2>2, <2>3, <2>5 DEF SetOK
  <2>7. ASSUME NEW k \in Keys PROVE CountOfKey(k)' <= Unsigned(MaxPerIp)
    <3>1. CountOfKey(k)' <= CountOfKey(k)
      BY <1>1, <2>1, <2>2, <2>4, ShiftCount DEF CountOfKey
    <3>2. CountOfKey(k) <= Unsigned(MaxPerIp)
      BY DEF EntriesOK, EntriesWithinLimit
    <3>3. CountOfKey(k) \in Nat /\ CountOfKey(k)' \in Nat
      BY <2>6, CountIsNat, SlotsFinite, ServerAssumption DEF EntriesOK, SetOK, CountOfKey
    <3> QED BY <3>1, <3>2, <3>3, UnsignedIsNat
  <2> QED BY <2>6, <2>7 DEF EntriesOK, EntriesWithinLimit, Keys
<1> QED BY <1>2, <1>3

(* The slot that the walk visits, and the removal of what is in it.        *)
LEMMA SlotOK ==
  ASSUME SetOK, idx < end, idx \in 0..Cap, end \in 0..Cap
  PROVE  /\ idx \in 0..(Cap - 1) /\ Slot \in Pfd
         /\ SlotReset \in [0..(Cap - 1) -> Pfd]
<1>1. idx \in 0..(Cap - 1) /\ Slot \in Pfd
  BY ServerAssumption DEF SetOK, Slot
<1>2. Fresh(pfds[idx].fd) \in Pfd
  BY <1>1 DEF Slot, Fresh, Pfd
<1> QED BY <1>1, <1>2 DEF SetOK, SlotReset

(* The removal of the entry that the walk visits keeps the set in order.   *)
LEMMA DropSlotOK ==
  ASSUME EntriesOK, LoopOK, AtSlot, DropSlot
  PROVE  EntriesOK'
BY SlotOK, RemoveKeepsEntries DEF EntriesOK, LoopOK, AtSlot, DropSlot

(* So does every step that leaves the set alone.                           *)
LEMMA SetUnchanged ==
  ASSUME EntriesOK, UNCHANGED set
  PROVE  EntriesOK'
BY DEF EntriesOK, SetOK, EntriesWithinLimit, CountOfKey, set

(* Closing a descriptor leaves each descriptor with one connection or none.*)
LEMMA CloseFdOK ==
  ASSUME NetOK, NEW f, CloseFd(f)
  PROVE  connAt' \in [Fds -> Conns \cup {NoConn}]
BY DEF NetOK, CloseFd

(* What dispatching puts among the jobs of the pool is a job.              *)
LEMMA DispatchOK ==
  ASSUME HandlerOK, NEW isClosed \in BOOLEAN, SlotConn \in Conns, Slot \in Pfd,
         Dispatch(isClosed)
  PROVE  BagToSet(jobs)' \subseteq Job
BY DEF HandlerOK, Dispatch, BagToSet, SetToBag, Job, Pfd, (+)

(* IInv is proved part by part.                                            *)
Parts == NetOK /\ EntriesOK /\ LoopOK /\ HandlerOK
PendingOK == \A c \in Conns : pending[c] <= sent[c]
WalkOK == pc \in {"handle", "handleLast"} => idx < end

(* IInv, by the parts that the steps below are proved to keep.             *)
LEMMA IInvParts == IInv <=> Parts /\ PendingOK /\ WalkOK
BY DEF IInv, TypeOK, Parts, EntriesOK, PendingOK, WalkOK

(* IInv holds when runServer is called.                                    *)
LEMMA InitIInv == Init => IInv
<1> SUFFICES ASSUME Init PROVE IInv
  OBVIOUS
<1> USE ServerAssumption
<1>1. NetOK
  BY DEF Init, NetOK
<1>2. SetOK
  <2>1. \E k : k \in Keys
    BY DEF Keys
  <2>2. (CHOOSE k \in Keys : TRUE) \in Keys
    BY <2>1
  <2>3. Fresh(0) \in Pfd
    BY DEF Fresh, Pfd, Fds
  <2> QED BY <2>2, <2>3 DEF Init, SetOK
<1>3. EntriesWithinLimit
  <2>1. \A k : SlotsOf(ips, len, k) = {}
    BY DEF Init, SlotsOf
  <2> QED BY <2>1, FS_EmptySet, UnsignedIsNat DEF EntriesWithinLimit, CountOfKey
<1>4. LoopOK /\ HandlerOK
  BY DEF Init, LoopOK, HandlerOK, EmptyBag, BagToSet, SetToBag
<1>5. PendingOK /\ WalkOK
  BY DEF Init, PendingOK, WalkOK
<1> QED BY <1>1, <1>2, <1>3, <1>4, <1>5 DEF IInv, TypeOK, PendingOK, WalkOK

(* What the peers do touches neither the set nor the walk.                 *)
LEMMA PeerKeepsIInv ==
  ASSUME IInv, NEW c \in Conns,
         Connect(c) \/ Send(c) \/ \E how \in {"fin", "rst"} : Leave(c, how)
  PROVE  IInv'
<1> USE ServerAssumption
<1>1. NetOK /\ EntriesOK /\ LoopOK /\ HandlerOK /\ PendingOK /\ WalkOK
  BY IInvParts DEF Parts
<1>2. UNCHANGED <<connAt, set, pc, walk, flags, signals, jobs, history>>
  BY DEF Connect, Send, Leave
<1>3. EntriesOK'
  BY <1>1, <1>2, SetUnchanged
<1>4. LoopOK' /\ HandlerOK' /\ WalkOK'
  BY <1>1, <1>2 DEF LoopOK, HandlerOK, WalkOK, walk, signals, history
<1>5. NetOK' /\ PendingOK'
  <2>1. CASE Connect(c)
    <3>1. backlog' \in Seq(Conns)
      BY <1>1, <2>1 DEF Connect, NetOK
    <3>2. peer' \in [Conns -> {"idle", "open", "fin", "rst"}]
      BY <1>1, <2>1 DEF Connect, NetOK
    <3> QED BY <1>1, <2>1, <3>1, <3>2 DEF Connect, NetOK, PendingOK
  <2>2. CASE Send(c)
    <3>1. sent[c] \in 0..MaxRequests /\ pending[c] \in 0..MaxRequests
      BY <1>1 DEF NetOK
    <3>2. pending[c] <= sent[c] /\ sent[c] < MaxRequests
      BY <1>1, <2>2 DEF Send, PendingOK
    <3>3. sent[c] + 1 \in 0..MaxRequests /\ pending[c] + 1 \in 0..MaxRequests
      BY <3>1, <3>2
    <3>4. sent' = [sent EXCEPT ![c] = sent[c] + 1]
          /\ pending' = [pending EXCEPT ![c] = pending[c] + 1]
      BY <2>2 DEF Send
    <3>5. NetOK'
      BY <1>1, <2>2, <3>3, <3>4 DEF Send, NetOK
    <3>6. \A d \in Conns : pending'[d] <= sent'[d]
      BY <1>1, <3>1, <3>2, <3>4 DEF NetOK, PendingOK
    <3> QED BY <3>5, <3>6 DEF PendingOK
  <2>3. ASSUME NEW how \in {"fin", "rst"}, Leave(c, how) PROVE NetOK' /\ PendingOK'
    <3>1. peer' \in [Conns -> {"idle", "open", "fin", "rst"}]
      BY <1>1, <2>3 DEF Leave, NetOK
    <3> QED BY <1>1, <2>3, <3>1 DEF Leave, NetOK, PendingOK
  <2> QED BY <2>1, <2>2, <2>3
<1> QED BY <1>3, <1>4, <1>5, IInvParts DEF Parts, IInv, TypeOK, EntriesOK, PendingOK, WalkOK

(* Steps of the loop that only move the thread or set a signal.            *)
LEMMA LoopKeepsIInv ==
  ASSUME IInv, Kill \/ Launch \/ Bind \/ LoopTest \/ AcceptDone \/ SkipSlot \/ WalkDone
               \/ Keep \/ ExpireDone
  PROVE  IInv'
<1> USE ServerAssumption
<1>1. NetOK /\ EntriesOK /\ LoopOK /\ HandlerOK /\ PendingOK /\ WalkOK
  BY IInvParts DEF Parts
<1>2. UNCHANGED <<net, connAt, set, flags, jobs, history>>
  BY DEF Kill, Launch, Bind, LoopTest, AcceptDone, SkipSlot, WalkDone, Keep, ExpireDone
<1>3. NetOK' /\ HandlerOK' /\ PendingOK'
  BY <1>1, <1>2 DEF NetOK, HandlerOK, PendingOK, net, history
<1>4. EntriesOK'
  BY <1>1, <1>2, SetUnchanged
<1>5. LoopOK' /\ WalkOK'
  <2>1. CASE Kill \/ Launch \/ Bind \/ LoopTest \/ AcceptDone \/ ExpireDone
    BY <1>1, <2>1 DEF Kill, Launch, Bind, LoopTest, AcceptDone, ExpireDone, LoopOK, WalkOK,
                      walk, signals
  <2>2. CASE SkipSlot
    BY <1>1, <2>2 DEF SkipSlot, AtSlot, LoopOK, WalkOK, signals
  <2>3. CASE WalkDone
    BY <1>1, <2>3 DEF WalkDone, LoopOK, WalkOK, signals
  <2>4. CASE Keep
    BY <1>1, <2>4 DEF Keep, LoopOK, WalkOK, signals, EntriesOK, SetOK
  <2> QED BY <2>1, <2>2, <2>3, <2>4
<1> QED BY <1>3, <1>4, <1>5, IInvParts DEF Parts, IInv, TypeOK, EntriesOK, PendingOK, WalkOK

(* The queue and the entries when a connection is accepted.                *)
LEMMA AcceptKeepsIInv ==
  ASSUME IInv, AcceptConn \/ AcceptRefuse \/ AcceptFail
  PROVE  IInv'
<1> USE ServerAssumption
<1>1. NetOK /\ EntriesOK /\ LoopOK /\ HandlerOK /\ PendingOK /\ WalkOK
  BY IInvParts DEF Parts
<1>2. UNCHANGED <<peer, sent, pending, pc, walk, flags, signals, jobs, answers>>
  BY DEF AcceptConn, AcceptRefuse, AcceptFail, history
<1>3. CanAccept /\ backlog' = Tail(backlog)
  BY DEF AcceptConn, AcceptRefuse, AcceptFail
<1>4. backlog \in Seq(Conns) /\ backlog # <<>> /\ len < Cap /\ FreeFds # {}
  BY <1>1, <1>3 DEF CanAccept, NetOK
<1>5. backlog' \in Seq(Conns) /\ Head(backlog) \in Conns
  BY <1>3, <1>4
<1>6. NewFd \in Fds
  BY <1>4, NewFdIsFree DEF FreeFds
<1>7. NetOK' /\ PendingOK'
  <2>1. connAt' \in [Fds -> Conns \cup {NoConn}]
    BY <1>1, <1>5, <1>6 DEF AcceptConn, AcceptRefuse, AcceptFail, NetOK
  <2> QED BY <1>1, <1>2, <1>5, <2>1 DEF NetOK, PendingOK
<1>8. HandlerOK'
  BY <1>1, <1>2, <1>5 DEF AcceptConn, AcceptRefuse, AcceptFail, HandlerOK, history
<1>9. LoopOK' /\ WalkOK'
  BY <1>1, <1>2 DEF LoopOK, WalkOK, walk, signals
<1>10. EntriesOK'
  <2>1. CASE UNCHANGED set
    BY <1>1, <2>1, SetUnchanged
  <2>2. CASE ~UNCHANGED set
    <3>1. /\ pfds' = [pfds EXCEPT ![len] = Fresh(NewFd)]
          /\ ips' = [ips EXCEPT ![len] = HeadKey] /\ len' = len + 1
          /\ CountOfKey(HeadKey) < Unsigned(MaxPerIp)
      BY <2>2 DEF AcceptConn, AcceptRefuse, AcceptFail, BelowLimit
    <3>2. HeadKey \in Keys
      BY <1>5 DEF HeadKey, Keys
    <3>3. Fresh(NewFd) \in Pfd
      BY <1>6 DEF Fresh, Pfd
    <3>4. len \in 0..(Cap - 1) /\ ips \in [0..(Cap - 1) -> Keys] /\ Cap \in Nat
      BY <1>1, <1>4 DEF EntriesOK, SetOK
    <3>5. SetOK'
      BY <1>1, <3>1, <3>2, <3>3, <3>4 DEF EntriesOK, SetOK
    <3>6. ASSUME NEW k \in Keys PROVE CountOfKey(k)' <= Unsigned(MaxPerIp)
      <4>1. CountOfKey(k)' = IF k = HeadKey THEN CountOfKey(k) + 1 ELSE CountOfKey(k)
        <5> DEFINE old == SlotsOf(ips, len, k)
                   new == SlotsOf(ips', len', k)
        <5>1. new = IF k = HeadKey THEN old \cup {len} ELSE old
          BY <3>1, <3>2, <3>4 DEF SlotsOf
        <5>2. len \notin old
          BY <3>4 DEF SlotsOf
        <5>3. IsFiniteSet(old)
          BY <3>4, SlotsFinite
        <5> HIDE DEF old, new
        <5>4. Cardinality(new) = IF k = HeadKey THEN Cardinality(old) + 1 ELSE Cardinality(old)
          BY <5>1, <5>2, <5>3, FS_AddElement
        <5> QED BY <5>4 DEF old, new, CountOfKey
      <4>2. CountOfKey(k) <= Unsigned(MaxPerIp) /\ CountOfKey(k) \in Nat
        BY <1>1, CountIsNat DEF EntriesOK, EntriesWithinLimit
      <4> QED BY <3>1, <4>1, <4>2, UnsignedIsNat
    <3> QED BY <3>5, <3>6 DEF EntriesOK, EntriesWithinLimit, Keys
  <2> QED BY <2>1, <2>2
<1> QED BY <1>7, <1>8, <1>9, <1>10, IInvParts
        DEF Parts, IInv, TypeOK, EntriesOK, PendingOK, WalkOK

(* What poll writes into the pollfds is of their type.                     *)
LEMMA PollKeepsIInv ==
  ASSUME IInv, Poll
  PROVE  IInv'
<1> USE ServerAssumption
<1>1. NetOK /\ EntriesOK /\ LoopOK /\ HandlerOK /\ PendingOK /\ WalkOK
  BY IInvParts DEF Parts
<1>2. UNCHANGED <<net, connAt, ips, len, flags, signals, jobs, history>>
  BY DEF Poll
<1>3. NetOK' /\ HandlerOK' /\ PendingOK' /\ LoopOK' /\ WalkOK'
  BY <1>1, <1>2 DEF Poll, NetOK, HandlerOK, PendingOK, LoopOK, WalkOK, net, history, signals,
                    EntriesOK, SetOK
<1>4. pfds' \in [0..(Cap - 1) -> Pfd]
  <2>1. \A f : EventsAt(f) \in SUBSET Events
    BY DEF EventsAt, Events
  <2>2. \A i \in 0..(Cap - 1) : pfds[i] \in Pfd
    BY <1>1 DEF EntriesOK, SetOK
  <2>3. \A i \in 0..(Cap - 1) : [fd |-> pfds[i].fd, revents |-> EventsAt(pfds[i].fd)] \in Pfd
    BY <2>1, <2>2 DEF Pfd
  <2>4. DOMAIN pfds = 0..(Cap - 1)
    BY <1>1 DEF EntriesOK, SetOK
  <2> QED BY <2>2, <2>3, <2>4 DEF Poll
<1>5. EntriesOK'
  BY <1>1, <1>2, <1>4 DEF EntriesOK, SetOK, EntriesWithinLimit, CountOfKey
<1> QED BY <1>3, <1>5, IInvParts DEF Parts, IInv, TypeOK, EntriesOK, PendingOK, WalkOK

(* The slot is reset in place, by the walk or after the handler.           *)
LEMMA ResetKeepsIInv ==
  ASSUME IInv, ResetSlot \/ AfterHandle
  PROVE  IInv'
<1> USE ServerAssumption
<1>1. NetOK /\ EntriesOK /\ LoopOK /\ HandlerOK /\ PendingOK /\ WalkOK
  BY IInvParts DEF Parts
<1>2. UNCHANGED <<net, connAt, ips, len, end, signals, jobs, history>>
  BY DEF ResetSlot, AfterHandle, walk
<1>3. idx < end /\ idx \in 0..Cap /\ end \in 0..Cap
  BY <1>1 DEF ResetSlot, AfterHandle, AtSlot, WalkOK, LoopOK
<1>4. pfds' \in [0..(Cap - 1) -> Pfd]
  <2>1. SlotReset \in [0..(Cap - 1) -> Pfd] /\ pfds \in [0..(Cap - 1) -> Pfd]
    BY <1>1, <1>3, SlotOK DEF EntriesOK, SetOK
  <2>2. pfds' = SlotReset \/ pfds' = pfds
    BY DEF ResetSlot, AfterHandle
  <2> QED BY <2>1, <2>2
<1>5. EntriesOK'
  BY <1>1, <1>2, <1>4 DEF EntriesOK, SetOK, EntriesWithinLimit, CountOfKey
<1>6. NetOK' /\ HandlerOK' /\ PendingOK'
  BY <1>1, <1>2 DEF ResetSlot, AfterHandle, NetOK, HandlerOK, PendingOK, net, history
<1>7. LoopOK' /\ WalkOK'
  <2>1. idx' \in {idx, idx + 1} /\ pc' = "walk"
    BY DEF ResetSlot, AfterHandle, walk, AtSlot
  <2>2. idx' \in 0..Cap
    BY <1>3, <2>1
  <2> QED BY <1>1, <1>2, <2>1, <2>2 DEF LoopOK, WalkOK, signals
<1> QED BY <1>5, <1>6, <1>7, IInvParts DEF Parts, IInv, TypeOK, EntriesOK, PendingOK, WalkOK

(* Receiving: the slot is dropped or handed on, and its fd closed or kept. *)
LEMMA ReceiveKeepsIInv ==
  ASSUME IInv, RecvEnd \/ RecvLast \/ RecvData \/ RecvReject \/ RecvNothing
  PROVE  IInv'
<1> USE ServerAssumption
<1>1. NetOK /\ EntriesOK /\ LoopOK /\ HandlerOK /\ PendingOK /\ WalkOK
  BY IInvParts DEF Parts
<1>2. UNCHANGED <<backlog, peer, sent, signals, history, walk>>
  BY DEF RecvEnd, RecvLast, RecvData, RecvReject, RecvNothing, DropSlot, net
<1>3. AtSlot /\ idx < end /\ idx \in 0..Cap /\ end \in 0..Cap
  BY <1>1 DEF RecvEnd, RecvLast, RecvData, RecvReject, RecvNothing, Receiving, Readable,
              AtSlot, LoopOK
<1>4. Slot \in Pfd
  BY <1>1, <1>3, SlotOK DEF EntriesOK
<1>5. EntriesOK'
  <2>1. CASE DropSlot
    BY <1>1, <1>3, <2>1, DropSlotOK
  <2>2. CASE UNCHANGED set
    BY <1>1, <2>2, SetUnchanged
  <2> QED BY <2>1, <2>2 DEF RecvEnd, RecvLast, RecvData, RecvReject, RecvNothing
<1>6. connAt' \in [Fds -> Conns \cup {NoConn}]
  <2>1. CASE CloseFd(Slot.fd)
    BY <1>1, <2>1, CloseFdOK
  <2>2. CASE UNCHANGED connAt
    BY <1>1, <2>2 DEF NetOK
  <2> QED BY <2>1, <2>2 DEF RecvEnd, RecvLast, RecvData, RecvReject, RecvNothing
<1>7. /\ pending' \in [Conns -> 0..MaxRequests]
      /\ \A c \in Conns : pending'[c] <= pending[c]
  <2>1. CASE UNCHANGED pending
    BY <1>1, <2>1 DEF NetOK
  <2>2. ASSUME NEW c \in Conns, NEW n \in 0..pending[c],
               pending' = [pending EXCEPT ![c] = pending[c] - n]
        PROVE  /\ pending' \in [Conns -> 0..MaxRequests]
               /\ \A d \in Conns : pending'[d] <= pending[d]
    BY <1>1, <2>2 DEF NetOK
  <2>3. ASSUME NEW c \in Conns, pending' = [pending EXCEPT ![c] = 0]
        PROVE  /\ pending' \in [Conns -> 0..MaxRequests]
               /\ \A d \in Conns : pending'[d] <= pending[d]
    BY <1>1, <2>3 DEF NetOK
  <2>4. CASE RecvEnd \/ RecvNothing
    BY <2>1, <2>4 DEF RecvEnd, RecvNothing, net
  <2>5. CASE RecvLast
    BY <2>3, <2>5 DEF RecvLast
  <2>6. CASE RecvData
    <3>1. PICK c \in Conns : \E n \in 1..pending[c] :
                 pending' = [pending EXCEPT ![c] = pending[c] - n]
      BY <2>6 DEF RecvData
    <3>2. PICK n \in 1..pending[c] : pending' = [pending EXCEPT ![c] = pending[c] - n]
      BY <3>1
    <3>3. n \in 0..pending[c]
      BY <1>1 DEF NetOK
    <3> QED BY <3>2, <3>3, <2>2
  <2>7. CASE RecvReject
    <3>1. PICK c \in Conns : \E n \in 1..pending[c] :
                 pending' = [pending EXCEPT ![c] = pending[c] - n]
      BY <2>7 DEF RecvReject
    <3>2. PICK n \in 1..pending[c] : pending' = [pending EXCEPT ![c] = pending[c] - n]
      BY <3>1
    <3>3. n \in 0..pending[c]
      BY <1>1 DEF NetOK
    <3> QED BY <3>2, <3>3, <2>2
  <2> QED BY <2>4, <2>5, <2>6, <2>7
<1>8. NetOK' /\ PendingOK'
  <2>1. NetOK'
    BY <1>1, <1>2, <1>6, <1>7 DEF NetOK
  <2>2. ASSUME NEW c \in Conns PROVE pending'[c] <= sent'[c]
    <3>1. pending[c] \in Nat /\ pending'[c] \in Nat /\ sent[c] \in Nat
      BY <1>1, <1>7 DEF NetOK
    <3>2. pending[c] <= sent[c] /\ pending'[c] <= pending[c] /\ sent'[c] = sent[c]
      BY <1>1, <1>2, <1>7 DEF PendingOK
    <3> QED BY <3>1, <3>2
  <2> QED BY <2>1, <2>2 DEF PendingOK
<1>9. HandlerOK' /\ LoopOK' /\ WalkOK'
  <2>1. BagToSet(jobs)' \subseteq Job /\ flags' \subseteq flags
        /\ pc' \in {"walk", "handle", "handleLast", "crashed"}
    <3>1. CASE RecvEnd \/ RecvReject \/ RecvNothing
      BY <1>1, <1>3, <3>1 DEF RecvEnd, RecvReject, RecvNothing, HandlerOK, AtSlot
    <3>2. CASE RecvLast
      <4>1. SlotConn \in Conns /\ Dispatch(TRUE) /\ UNCHANGED flags
        BY <3>2 DEF RecvLast, Receiving
      <4> QED BY <1>1, <1>4, <4>1, DispatchOK DEF Dispatch
    <3>3. CASE RecvData
      <4>1. /\ SlotConn \in Conns /\ UNCHANGED flags
            /\ Dispatch(FALSE) \/ (pc' = "crashed" /\ UNCHANGED jobs)
        BY <3>3 DEF RecvData, Receiving
      <4> QED BY <1>1, <1>4, <4>1, DispatchOK DEF Dispatch, HandlerOK
    <3> QED BY <3>1, <3>2, <3>3
  <2> QED BY <1>1, <1>2, <1>3, <2>1 DEF HandlerOK, LoopOK, WalkOK, walk, signals, history
<1> QED BY <1>5, <1>8, <1>9, IInvParts DEF Parts, IInv, TypeOK, EntriesOK, PendingOK, WalkOK

(* A timeout removes an entry, whatever it closes; the end closes the rest.*)
LEMMA CloseKeepsIInv ==
  ASSUME IInv, Expire \/ Shutdown
  PROVE  IInv'
<1> USE ServerAssumption
<1>1. NetOK /\ EntriesOK /\ LoopOK /\ HandlerOK /\ PendingOK /\ WalkOK
  BY IInvParts DEF Parts
<1>2. UNCHANGED <<peer, sent, pending, walk, flags, started, killed, jobs, history>>
  BY DEF Expire, Shutdown, net, signals
<1>3. HandlerOK' /\ PendingOK'
  BY <1>1, <1>2 DEF HandlerOK, PendingOK, history
<1>4. LoopOK' /\ WalkOK'
  BY <1>1, <1>2 DEF Expire, Shutdown, LoopOK, WalkOK, walk, signals
<1>5. NetOK'
  <2>1. connAt' \in [Fds -> Conns \cup {NoConn}]
    BY <1>1 DEF Expire, Shutdown, CloseFd, NetOK
  <2>2. backlog' \in Seq(Conns)
    <3>1. <<>> \in Seq(Conns) /\ backlog \in Seq(Conns)
      BY <1>1 DEF NetOK
    <3> QED BY <3>1 DEF Expire, Shutdown, net
  <2> QED BY <1>1, <1>2, <2>1, <2>2 DEF NetOK
<1>6. EntriesOK'
  <2>1. CASE Expire
    <3>1. pfds \in [0..(Cap - 1) -> Pfd] /\ Remove(pfds, Slot)
      BY <1>1, <2>1 DEF Expire, EntriesOK, SetOK
    <3> QED BY <1>1, <3>1, RemoveKeepsEntries
  <2>2. CASE Shutdown
    <3>1. SetOK' /\ len' = 0
      BY <1>1, <2>2 DEF Shutdown, EntriesOK, SetOK
    <3>2. \A k : SlotsOf(ips', len', k) = {}
      BY <3>1 DEF SlotsOf
    <3> QED BY <3>1, <3>2, FS_EmptySet, UnsignedIsNat
            DEF EntriesOK, EntriesWithinLimit, CountOfKey, Keys
  <2> QED BY <2>1, <2>2
<1> QED BY <1>3, <1>4, <1>5, <1>6, IInvParts
        DEF Parts, IInv, TypeOK, EntriesOK, PendingOK, WalkOK

(* Workers touch connections and history, never the set.                   *)
LEMMA HandlerKeepsIInv ==
  ASSUME IInv, HandlerStep
  PROVE  IInv'
<1> USE ServerAssumption
<1>1. NetOK /\ EntriesOK /\ LoopOK /\ HandlerOK /\ PendingOK /\ WalkOK
  BY IInvParts DEF Parts
<1>2. PICK j \in BagToSet(jobs) : Handle(j)
  BY DEF HandlerStep
<1>3. j \in Job
  BY <1>1 DEF HandlerOK
<1>4. UNCHANGED <<net, set, pc, walk, signals, refused>>
  BY <1>2 DEF Handle
<1>5. EntriesOK' /\ LoopOK' /\ WalkOK' /\ PendingOK'
  BY <1>1, <1>4, SetUnchanged DEF LoopOK, WalkOK, PendingOK, net, walk, signals
<1>6. connAt' \in [Fds -> Conns \cup {NoConn}]
  BY <1>1, <1>2, CloseFdOK DEF Handle, NetOK
<1>7. BagToSet(jobs)' \subseteq Job
  <2>1. jobs' = jobs (-) SetToBag({j})
    BY <1>2 DEF Handle
  <2>2. DOMAIN (jobs (-) SetToBag({j})) \subseteq DOMAIN jobs
    BY DEF (-)
  <2> QED BY <1>1, <2>1, <2>2 DEF HandlerOK, BagToSet
<1>8. answers' \subseteq Answer
  <2>1. connAt[j.fd] \in Conns \cup {NoConn}
    BY <1>1, <1>3 DEF NetOK, Job
  <2> QED BY <1>1, <1>2, <1>3, <2>1 DEF Handle, HandlerOK, Answer, Job
<1>9. flags' \subseteq HandlerFlags
  BY <1>1, <1>2 DEF Handle, HandlerOK
<1> QED BY <1>1, <1>4, <1>5, <1>6, <1>7, <1>8, <1>9, IInvParts
        DEF Parts, IInv, TypeOK, EntriesOK, PendingOK, WalkOK, NetOK, HandlerOK, net

(* Each step of the server thread, of a peer and of a handler keeps IInv.  *)
LEMMA NextIInv == IInv /\ [Next]_vars => IInv'
<1> SUFFICES ASSUME IInv, [Next]_vars PROVE IInv'
  OBVIOUS
<1>1. CASE ServerStep
  BY <1>1, LoopKeepsIInv, AcceptKeepsIInv, PollKeepsIInv, ResetKeepsIInv, ReceiveKeepsIInv,
     CloseKeepsIInv DEF ServerStep
<1>2. CASE UNCHANGED vars
  BY <1>2 DEF vars, net, set, walk, signals, history, IInv, TypeOK, NetOK, SetOK, LoopOK,
              HandlerOK, EntriesWithinLimit, CountOfKey
<1> QED BY <1>1, <1>2, LoopKeepsIInv, PeerKeepsIInv, HandlerKeepsIInv DEF Next

(* IInv holds in every reachable state.                                    *)
THEOREM ServerInvariant == Spec => []IInv
BY InitIInv, NextIInv, PTL DEF Spec

(* The set never outgrows its arrays, and the walk stays inside them.      *)
THEOREM TypeCorrect == Spec => []TypeOK
<1>1. IInv => TypeOK
  BY DEF IInv
<1> QED BY <1>1, ServerInvariant, PTL

(* Whatever times out, is discarded or leaves slots behind, the set never  *)
(* has more entries of an address than max_conns_per_ip.                   *)
THEOREM AddressesWithinLimit == Spec => []EntriesWithinLimit
<1>1. IInv => EntriesWithinLimit
  BY DEF IInv
<1> QED BY <1>1, ServerInvariant, PTL

-----------------------------------------------------------------------------
(* Without workers every answer goes to where its request came from.       *)

(* A dispatch onto an empty queue leaves a job of the slot, no other.      *)
LEMMA DispatchedJob ==
  ASSUME NEW isClosed, BagToSet(jobs) = {}, Dispatch(isClosed)
  PROVE  BagToSet(jobs)' = {[from |-> SlotConn, fd |-> Slot.fd, closed |-> isClosed]}
BY DEF Dispatch, BagToSet, SetToBag, (+)

(* A job leaves the queue when it is handled, and none comes.              *)
LEMMA HandledJob ==
  ASSUME NEW j, jobs' = jobs (-) SetToBag({j})
  PROVE  BagToSet(jobs)' \subseteq BagToSet(jobs)
BY DEF BagToSet, (-)

(* JobsInv is kept by each step, whatever times out or is discarded.       *)
LEMMA NextJobsInv ==
  ASSUME ~Pooled, IInv, JobsInv, [Next]_vars
  PROVE  JobsInv'
<1> USE ServerAssumption
<1>1. NetOK /\ LoopOK /\ HandlerOK /\ EntriesOK
  BY IInvParts DEF Parts
<1>2. CASE HandlerStep
  <2>1. PICK j \in BagToSet(jobs) : Handle(j)
    BY <1>2 DEF HandlerStep
  <2>2. BagToSet(jobs)' \subseteq BagToSet(jobs) /\ pc' = pc
    BY <2>1, HandledJob DEF Handle
  <2>3. \A f \in Fds : connAt'[f] \in {connAt[f], NoConn}
    BY <1>1, <2>1 DEF Handle, CloseFd, NetOK
  <2>4. \A k \in BagToSet(jobs)' : k.fd \in Fds
    BY <1>1, <2>2 DEF HandlerOK, Job
  <2>5. \A k \in BagToSet(jobs)' : connAt'[k.fd] \in {k.from, NoConn}
    BY <2>2, <2>3, <2>4 DEF JobsInv
  <2>6. \A a \in answers' : a.from = a.to
    BY <2>1 DEF Handle, JobsInv
  <2> QED BY <2>2, <2>5, <2>6 DEF JobsInv
<1>3. CASE RecvLast \/ RecvData
  <2>1. pc \notin {"handle", "handleLast"} /\ BagToSet(jobs) = {} /\ UNCHANGED answers
    BY <1>3 DEF RecvLast, RecvData, Receiving, Readable, AtSlot, JobsInv, history
  <2>2. \/ pc' \in {"handle", "handleLast"} /\ \E isClosed \in BOOLEAN : Dispatch(isClosed)
        \/ UNCHANGED jobs
    BY <1>3 DEF RecvLast, RecvData, Dispatch
  <2>3. Slot \in Pfd
    BY <1>1, <1>3, SlotOK DEF EntriesOK, LoopOK, RecvLast, RecvData, Receiving, Readable, AtSlot
  <2>4. \A f \in Fds : connAt'[f] \in {connAt[f], NoConn}
    BY <1>1, <1>3 DEF RecvLast, RecvData, CloseFd, NetOK
  <2>5. CASE UNCHANGED jobs
    BY <2>1, <2>5 DEF JobsInv
  <2>6. CASE pc' \in {"handle", "handleLast"} /\ \E isClosed \in BOOLEAN : Dispatch(isClosed)
    <3>1. PICK isClosed \in BOOLEAN : Dispatch(isClosed)
      BY <2>6
    <3>2. BagToSet(jobs)' = {[from |-> SlotConn, fd |-> Slot.fd, closed |-> isClosed]}
      BY <2>1, <3>1, DispatchedJob
    <3>3. connAt'[Slot.fd] \in {SlotConn, NoConn}
      BY <2>3, <2>4 DEF Pfd, SlotConn
    <3> QED BY <2>1, <2>6, <3>2, <3>3 DEF JobsInv
  <2> QED BY <2>2, <2>5, <2>6
<1>4. CASE AfterHandle
  <2>1. BagToSet(jobs) = {}
    BY <1>4 DEF AfterHandle, BagToSet, EmptyBag, SetToBag
  <2> QED BY <1>4, <2>1 DEF AfterHandle, JobsInv, history
<1>5. CASE \/ Kill \/ Launch \/ Bind \/ LoopTest \/ AcceptDone \/ SkipSlot \/ WalkDone
           \/ Keep \/ ExpireDone \/ AcceptConn \/ AcceptRefuse \/ AcceptFail \/ Poll \/ ResetSlot
           \/ RecvEnd \/ RecvReject \/ RecvNothing \/ Expire \/ Shutdown
  <2>1. UNCHANGED <<jobs, answers>>
    BY <1>5 DEF Kill, Launch, Bind, LoopTest, AcceptDone, SkipSlot, WalkDone, Keep, ExpireDone,
                AcceptConn, AcceptRefuse, AcceptFail, Poll, ResetSlot, RecvEnd, RecvReject,
                RecvNothing, Expire, Shutdown, history
  <2>2. CASE Kill
    BY <2>1, <2>2 DEF Kill, JobsInv
  <2>3. pc \notin {"handle", "handleLast"} \/ Kill
    BY <1>5 DEF Launch, Bind, LoopTest, AcceptDone, SkipSlot, WalkDone, Keep, ExpireDone,
                AcceptConn, AcceptRefuse, AcceptFail, Poll, ResetSlot, RecvEnd, RecvReject,
                RecvNothing, Expire, Shutdown, AtSlot, Readable, Receiving, CanAccept
  <2> QED BY <2>1, <2>2, <2>3 DEF JobsInv
<1>6. CASE \E c \in Conns : Connect(c) \/ Send(c) \/ \E how \in {"fin", "rst"} : Leave(c, how)
  BY <1>6 DEF Connect, Send, Leave, JobsInv, history
<1>7. CASE UNCHANGED vars
  BY <1>7 DEF vars, history, JobsInv
<1> QED BY <1>2, <1>3, <1>4, <1>5, <1>6, <1>7 DEF Next, ServerStep

(* What was received from a connection is answered on that connection, if  *)
(* the handler runs on the server's thread.                                *)
THEOREM InlineAnswersReachTheRequester ==
  ASSUME ~Pooled
  PROVE  Spec => []AnswersReachTheRequester
<1>1. Init => JobsInv
  BY DEF Init, JobsInv, EmptyBag, BagToSet, SetToBag
<1>2. IInv /\ JobsInv /\ [Next]_vars => JobsInv'
  BY NextJobsInv
<1>3. JobsInv => AnswersReachTheRequester
  BY DEF JobsInv, AnswersReachTheRequester
<1> QED BY <1>1, <1>2, <1>3, ServerInvariant, PTL DEF Spec

-----------------------------------------------------------------------------
(* Connections and the slots of the walk, if no handler discards one.      *)

(* The elements behind the first of a sequence, and the first.             *)
LEMMA TailProperties ==
  ASSUME NEW T, NEW s \in Seq(T), s # <<>>
  PROVE  /\ DOMAIN Tail(s) \subseteq Nat \ {0} /\ 1 \in DOMAIN s /\ Head(s) = s[1]
         /\ \A i \in DOMAIN Tail(s) : i + 1 \in DOMAIN s /\ Tail(s)[i] = s[i + 1]
OBVIOUS

(* A step that opens no connection keeps them distinct.                    *)
LEMMA ClosingKeepsDistinct ==
  ASSUME NetOK, ConnsDistinct,
         \A f \in Fds : connAt'[f] \in {connAt[f], NoConn},
         backlog' = backlog \/ backlog' = <<>> \/ (backlog # <<>> /\ backlog' = Tail(backlog)),
         \A c \in Conns : peer[c] # "idle" => peer'[c] # "idle"
  PROVE  ConnsDistinct'
<1>1. \A f \in OpenFds' : f \in OpenFds /\ connAt'[f] = connAt[f] /\ connAt[f] \in Conns
  BY DEF OpenFds, NetOK
<1>2. /\ \A i, j \in DOMAIN backlog' : backlog'[i] = backlog'[j] => i = j
      /\ \A c : Queued(c)' => Queued(c)
  <2>1. CASE backlog' = backlog
    BY <2>1 DEF ConnsDistinct, Queued
  <2>2. CASE backlog' = <<>>
    BY <2>2 DEF Queued
  <2>3. CASE backlog # <<>> /\ backlog' = Tail(backlog)
    <3>1. /\ DOMAIN backlog' \subseteq Nat
          /\ \A i \in DOMAIN backlog' : i + 1 \in DOMAIN backlog /\ backlog'[i] = backlog[i + 1]
      BY <2>3, TailProperties DEF NetOK
    <3>2. ASSUME NEW i \in DOMAIN backlog', NEW j \in DOMAIN backlog', backlog'[i] = backlog'[j]
          PROVE  i + 1 = j + 1
      <4>1. /\ i + 1 \in DOMAIN backlog /\ j + 1 \in DOMAIN backlog
            /\ backlog[i + 1] = backlog[j + 1]
        BY <3>1, <3>2
      <4> QED BY <4>1 DEF ConnsDistinct
    <3> QED BY <3>1, <3>2 DEF Queued
  <2> QED BY <2>1, <2>2, <2>3
<1> QED BY <1>1, <1>2 DEF ConnsDistinct

(* A connection is made behind those that wait.                            *)
LEMMA ConnectKeepsDistinct ==
  ASSUME NetOK, ConnsDistinct, NEW c \in Conns, Connect(c)
  PROVE  ConnsDistinct'
<1>1. backlog' = Append(backlog, c) /\ backlog \in Seq(Conns) /\ ~Queued(c)
      /\ peer' = [peer EXCEPT ![c] = "open"] /\ connAt' = connAt /\ peer[c] = "idle"
  BY DEF Connect, NetOK, ConnsDistinct
<1>2. \A d : Queued(d)' <=> Queued(d) \/ d = c
  BY <1>1 DEF Queued
<1>3. \A i, j \in DOMAIN backlog' : backlog'[i] = backlog'[j] => i = j
  BY <1>1 DEF Queued, ConnsDistinct
<1>4. \A f \in OpenFds : connAt[f] # c /\ connAt[f] \in Conns
  BY <1>1 DEF ConnsDistinct, OpenFds, NetOK
<1>5. \A d \in Conns : peer'[d] = IF d = c THEN "open" ELSE peer[d]
  BY <1>1 DEF NetOK
<1>6. OpenFds' = OpenFds
  BY <1>1 DEF OpenFds
<1> QED BY <1>1, <1>2, <1>3, <1>4, <1>5, <1>6 DEF ConnsDistinct

(* It is accepted as the first of them, onto a free descriptor.            *)
LEMMA AcceptKeepsDistinct ==
  ASSUME NetOK, ConnsDistinct, AcceptConn
  PROVE  ConnsDistinct'
<1>1. /\ backlog \in Seq(Conns) /\ backlog # <<>> /\ backlog' = Tail(backlog)
      /\ FreeFds # {} /\ connAt' = [connAt EXCEPT ![NewFd] = Head(backlog)] /\ peer' = peer
  BY DEF AcceptConn, CanAccept, NetOK
<1>2. NewFd \in Fds /\ Head(backlog) \in Conns /\ Head(backlog) # NoConn
  BY <1>1, NewFdIsFree, ServerAssumption DEF FreeFds
<1>3. OpenFds' = OpenFds \cup {NewFd}
  BY <1>1, <1>2 DEF OpenFds, NetOK
<1>4. \A f \in OpenFds' : connAt'[f] = IF f = NewFd THEN Head(backlog) ELSE connAt[f]
  BY <1>1, <1>3 DEF NetOK, OpenFds
<1>5. /\ \A i \in DOMAIN backlog' : backlog'[i] = backlog[i + 1] /\ i + 1 \in DOMAIN backlog
      /\ 1 \in DOMAIN backlog /\ Head(backlog) = backlog[1]
      /\ DOMAIN backlog' \subseteq Nat \ {0}
  BY <1>1, TailProperties
<1>6. Queued(Head(backlog)) /\ \A c : Queued(c)' => Queued(c)
  BY <1>5, Zenon DEF Queued
<1>7. \A i, j \in DOMAIN backlog' : backlog'[i] = backlog'[j] => i = j
  <2>1. ASSUME NEW i \in DOMAIN backlog', NEW j \in DOMAIN backlog', backlog'[i] = backlog'[j]
        PROVE  i + 1 = j + 1
    <3>1. /\ i + 1 \in DOMAIN backlog /\ j + 1 \in DOMAIN backlog
          /\ backlog[i + 1] = backlog[j + 1]
      BY <1>5, <2>1
    <3> QED BY <3>1 DEF ConnsDistinct
  <2> QED BY <1>5, <2>1
<1>8. \A i \in DOMAIN backlog' : backlog'[i] # Head(backlog)
  <2>1. ASSUME NEW i \in DOMAIN backlog', backlog'[i] = Head(backlog) PROVE FALSE
    <3>1. i + 1 \in DOMAIN backlog /\ backlog[i + 1] = backlog[1] /\ 1 \in DOMAIN backlog
      BY <1>5, <2>1
    <3>2. i + 1 = 1
      BY <3>1, Zenon DEF ConnsDistinct
    <3> QED BY <1>5, <3>2
  <2> QED BY <2>1
<1>9. \A f, g \in OpenFds' : connAt'[f] = connAt'[g] => f = g
  BY <1>3, <1>4, <1>6 DEF ConnsDistinct
<1>10. ASSUME NEW f \in OpenFds' PROVE ~Queued(connAt[f])' /\ peer'[connAt'[f]] # "idle"
  <2>1. CASE f = NewFd
    BY <1>1, <1>2, <1>4, <1>6, <1>8, <2>1 DEF ConnsDistinct, Queued
  <2>2. CASE f # NewFd
    <3>1. f \in OpenFds /\ connAt'[f] = connAt[f]
      BY <1>3, <1>4, <2>2
    <3> QED BY <1>1, <1>6, <3>1 DEF ConnsDistinct
  <2> QED BY <2>1, <2>2
<1> QED BY <1>1, <1>6, <1>7, <1>9, <1>10 DEF ConnsDistinct

(* Steps that leave the connections, or what is known of them, alone.      *)
LEMMA DistinctUnchanged ==
  ASSUME ConnsDistinct, UNCHANGED <<backlog, peer, connAt>>
  PROVE  ConnsDistinct'
BY DEF ConnsDistinct, Queued, OpenFds

(* The connections stay distinct, whatever the peers, the handlers and the *)
(* server do.                                                              *)
LEMMA NextDistinct ==
  ASSUME IInv, ConnsDistinct, [Next]_vars
  PROVE  ConnsDistinct'
<1>1. NetOK /\ HandlerOK
  BY IInvParts DEF Parts
<1>2. CASE \E c \in Conns : Connect(c)
  BY <1>1, <1>2, ConnectKeepsDistinct
<1>3. CASE AcceptConn
  BY <1>1, <1>3, AcceptKeepsDistinct
<1>4. CASE \E c \in Conns : Send(c) \/ \E how \in {"fin", "rst"} : Leave(c, how)
  <2>1. PICK c \in Conns : Send(c) \/ \E how \in {"fin", "rst"} : Leave(c, how)
    BY <1>4
  <2>2. /\ UNCHANGED <<backlog, connAt>>
        /\ \A d \in Conns : peer[d] # "idle" => peer'[d] # "idle"
    BY <1>1, <2>1 DEF Send, Leave, NetOK
  <2> QED BY <1>1, <2>2, ClosingKeepsDistinct
<1>5. CASE \/ Kill \/ Launch \/ Bind \/ LoopTest \/ AcceptDone \/ Poll \/ SkipSlot \/ ResetSlot
           \/ RecvNothing \/ AfterHandle \/ WalkDone \/ Keep \/ ExpireDone \/ RecvData
           \/ UNCHANGED vars
  <2>1. UNCHANGED <<backlog, peer, connAt>>
    BY <1>5 DEF Kill, Launch, Bind, LoopTest, AcceptDone, Poll, SkipSlot, ResetSlot, RecvNothing,
                AfterHandle, WalkDone, Keep, ExpireDone, RecvData, vars, net
  <2> QED BY <2>1, DistinctUnchanged
<1>6. CASE AcceptRefuse \/ AcceptFail
  <2>1. backlog # <<>> /\ backlog' = Tail(backlog) /\ UNCHANGED <<peer, connAt>>
    BY <1>6 DEF AcceptRefuse, AcceptFail, CanAccept
  <2> QED BY <1>1, <2>1, ClosingKeepsDistinct
<1>7. CASE RecvEnd \/ RecvLast \/ RecvReject \/ Expire \/ Shutdown \/ HandlerStep
  <2>1. \A f \in Fds : connAt'[f] \in {connAt[f], NoConn}
    <3>1. CASE \E f : CloseFd(f)
      BY <1>1, <3>1 DEF CloseFd, NetOK
    <3>2. CASE UNCHANGED connAt
      BY <3>2
    <3>3. CASE Shutdown
      BY <3>3 DEF Shutdown
    <3>4. CASE HandlerStep
      BY <3>1, <3>2, <3>4 DEF HandlerStep, Handle
    <3> QED BY <1>7, <3>1, <3>2, <3>3, <3>4 DEF RecvEnd, RecvLast, RecvReject, Expire
  <2>2. UNCHANGED peer /\ (backlog' = backlog \/ backlog' = <<>>)
    BY <1>7 DEF RecvEnd, RecvLast, RecvReject, Expire, Shutdown, HandlerStep, Handle, net
  <2> QED BY <1>1, <2>1, <2>2, ClosingKeepsDistinct
<1> QED BY <1>2, <1>3, <1>4, <1>5, <1>6, <1>7 DEF Next, ServerStep

(* WalkBacked is kept by steps that move nothing in the array, when they   *)
(* close connections, abort them, or add to what there is to receive.      *)
Forward == /\ \A f \in Fds : Usable(f)' => Usable(f) /\ connAt'[f] = connAt[f]
           /\ \A f \in Fds : Usable(f)' /\ Drained(f)' => Drained(f)

(* The walk goes on to the next slot.                                      *)
LEMMA ForwardKeepsWalk ==
  ASSUME IInv, WalkBacked, UNCHANGED <<set, pc, walk>>, Forward
  PROVE  WalkBacked'
<1>1. SetOK /\ idx \in 0..Cap /\ end \in 0..Cap
  BY DEF IInv, TypeOK, LoopOK
<1>2. UNCHANGED <<pfds, len, pc, idx, end>>
  BY DEF set, walk
<1>3. CASE ~Walking
  BY <1>2, <1>3 DEF WalkBacked, Walking
<1>4. CASE Walking
  <2>1. \A i \in 0..(end - 1) : pfds[i].fd \in Fds
    BY <1>1, ServerAssumption DEF SetOK, Pfd
  <2>2. len <= end /\ EventsOK /\ SlotsBacked
    BY <1>4 DEF WalkBacked
  <2>3. EventsOK'
    BY <1>2, <2>1, <2>2 DEF EventsOK, Forward
  <2>4. SlotsBacked'
    BY <1>1, <1>2, <2>1, <2>2 DEF SlotsBacked, Forward, Visited
  <2> QED BY <1>2, <2>2, <2>3, <2>4 DEF WalkBacked
<1> QED BY <1>3, <1>4

(* The peers and the handlers go forward.                                  *)
LEMMA PeersGoForward ==
  ASSUME IInv, ConnsDistinct,
         \/ \E c \in Conns : Connect(c) \/ Send(c) \/ \E how \in {"fin", "rst"} : Leave(c, how)
         \/ Kill \/ HandlerStep
  PROVE  Forward /\ UNCHANGED <<set, pc, walk>>
<1>1. NetOK /\ HandlerOK
  BY IInvParts DEF Parts
<1>2. CASE \E c \in Conns : Connect(c)
  <2>1. PICK c \in Conns : Connect(c)
    BY <1>2
  <2>2. /\ peer[c] = "idle" /\ peer' = [peer EXCEPT ![c] = "open"]
        /\ UNCHANGED <<pending, connAt, set, pc, walk>>
    BY <2>1 DEF Connect
  <2>3. \A f \in OpenFds : connAt[f] # c /\ connAt[f] \in Conns
    BY <1>1, <2>2 DEF ConnsDistinct, OpenFds, NetOK
  <2>4. OpenFds' = OpenFds /\ \A f \in OpenFds : peer'[connAt[f]] = peer[connAt[f]]
    BY <1>1, <2>2, <2>3 DEF OpenFds, NetOK
  <2> QED BY <2>2, <2>4 DEF Forward, Usable, Drained
<1>3. CASE \E c \in Conns : Send(c)
  <2>1. PICK c \in Conns : Send(c)
    BY <1>3
  <2>2. /\ pending' = [pending EXCEPT ![c] = pending[c] + 1]
        /\ UNCHANGED <<peer, connAt, set, pc, walk>>
    BY <2>1 DEF Send
  <2>3. \A d \in Conns : pending'[d] = 0 => pending[d] = 0
    BY <1>1, <2>2 DEF NetOK
  <2>4. \A f \in OpenFds : connAt[f] \in Conns
    BY <1>1 DEF OpenFds, NetOK
  <2> QED BY <2>2, <2>3, <2>4 DEF Forward, Usable, Drained, OpenFds
<1>4. CASE \E c \in Conns, how \in {"fin", "rst"} : Leave(c, how)
  <2>1. PICK c \in Conns, how \in {"fin", "rst"} : Leave(c, how)
    BY <1>4
  <2>2. /\ peer' = [peer EXCEPT ![c] = how] /\ peer[c] # "rst" 
        /\ UNCHANGED <<pending, connAt, set, pc, walk>>
    BY <2>1 DEF Leave
  <2>3. \A d \in Conns : peer'[d] = IF d = c THEN how ELSE peer[d]
    BY <1>1, <2>2 DEF NetOK
  <2>4. \A f \in OpenFds : connAt[f] \in Conns
    BY <1>1 DEF OpenFds, NetOK
  <2> QED BY <2>2, <2>3, <2>4 DEF Forward, Usable, Drained, OpenFds
<1>5. CASE Kill
  BY <1>5 DEF Kill, Forward, Usable, Drained, OpenFds, net
<1>6. CASE HandlerStep
  <2>1. PICK j \in BagToSet(jobs) : Handle(j)
    BY <1>6 DEF HandlerStep
  <2>2. UNCHANGED <<peer, pending, set, pc, walk>>
    BY <2>1 DEF Handle, net
  <2>3. \A f \in Fds : connAt'[f] \in {connAt[f], NoConn}
    BY <1>1, <2>1 DEF Handle, CloseFd, NetOK
  <2> QED BY <2>2, <2>3 DEF Forward, Usable, Drained, OpenFds
<1> QED BY <1>2, <1>3, <1>4, <1>5, <1>6

(* Poll fills in the events, and each slot stands for itself.              *)
LEMMA PollStartsWalk ==
  ASSUME IInv, ConnsDistinct, Poll
  PROVE  WalkBacked'
<1>1. NetOK /\ SetOK
  BY IInvParts DEF Parts, EntriesOK
<1>2. /\ pc' = "walk" /\ idx' = 0 /\ end' = len /\ len' = len /\ len \in 0..Cap
      /\ UNCHANGED <<peer, pending, connAt>>
  BY <1>1 DEF Poll, net, SetOK
<1>3. ASSUME NEW i \in 0..(len - 1)
      PROVE  /\ pfds'[i].fd = pfds[i].fd /\ pfds[i].fd \in Fds
             /\ pfds'[i].revents = EventsAt(pfds[i].fd)
  BY <1>1, <1>2, ServerAssumption DEF Poll, SetOK, Pfd
<1>4. ASSUME NEW f \in Fds, Usable(f)
      PROVE  EventsAt(f) \subseteq {"IN"} /\ ("IN" \in EventsAt(f) => ~Drained(f))
  <2>1. connAt[f] # NoConn /\ peer[connAt[f]] # "rst" /\ connAt[f] \in Conns
    BY <1>1, <1>4 DEF Usable, OpenFds, NetOK
  <2>2. EventsAt(f) = {e \in {"IN"} : pending[connAt[f]] > 0 \/ peer[connAt[f]] = "fin"}
    BY <2>1 DEF EventsAt
  <2>3. pending[connAt[f]] \in Nat
    BY <1>1, <2>1 DEF NetOK
  <2> QED BY <2>2, <2>3 DEF Drained
<1>5. \A f \in Fds : (Usable(f)' <=> Usable(f)) /\ (Drained(f)' <=> Drained(f))
  BY <1>2 DEF Usable, Drained, OpenFds
<1>6. EventsOK'
  <2> SUFFICES ASSUME NEW i \in 0..(len - 1), Usable(pfds[i].fd)'
               PROVE  pfds'[i].revents \subseteq {"IN"}
    BY <1>2 DEF EventsOK
  <2>1. Usable(pfds[i].fd)
    BY <1>2, <1>3 DEF Usable, OpenFds
  <2> QED BY <1>3, <1>4, <2>1
<1>7. SlotsBacked'
  <2> SUFFICES ASSUME NEW i \in 0..(len - 1), Usable(pfds[i].fd)', "IN" \in pfds'[i].revents
               PROVE  ~Drained(pfds[i].fd)'
    BY <1>2 DEF SlotsBacked
  <2>1. Usable(pfds[i].fd)
    BY <1>2, <1>3 DEF Usable, OpenFds
  <2> QED BY <1>2, <1>3, <1>4, <2>1 DEF Drained
<1> QED BY <1>2, <1>6, <1>7, ServerAssumption DEF WalkBacked

(* The events of a slot are reset: one slot less that is readable.         *)
LEMMA ResetKeepsWalk ==
  ASSUME IInv, WalkBacked, ResetSlot
  PROVE  WalkBacked'
<1>1. SetOK /\ idx \in 0..Cap /\ end \in 0..Cap /\ idx < end /\ pc = "walk" /\ Cap \in Nat
  BY ServerAssumption DEF IInv, TypeOK, LoopOK, ResetSlot, AtSlot
<1>2. UNCHANGED <<peer, pending, connAt, len, pc, idx, end>>
  BY DEF ResetSlot, net, walk
<1>3. "IN" \notin pfds[idx].revents
  BY DEF ResetSlot, Slot
<1>4. ASSUME NEW i \in 0..(Cap - 1)
      PROVE  /\ i # idx => pfds'[i] = pfds[i]
             /\ i = idx => pfds'[i].fd = pfds[i].fd /\ pfds'[i].revents = {}
  BY <1>1 DEF ResetSlot, SlotReset, SetOK, Fresh
<1>5. \A f : (Usable(f)' <=> Usable(f)) /\ (Drained(f)' <=> Drained(f))
  BY <1>2 DEF Usable, Drained, OpenFds
<1>6. len <= end /\ EventsOK /\ SlotsBacked
  BY <1>1 DEF WalkBacked, Walking
<1>7. EventsOK'
  <2> SUFFICES ASSUME NEW i \in 0..(end - 1), Usable(pfds[i].fd)'
               PROVE  pfds'[i].revents \subseteq {"IN"}
    BY <1>2 DEF EventsOK
  <2>1. i \in 0..(Cap - 1)
    BY <1>1
  <2>2. pfds'[i].fd = pfds[i].fd /\ (pfds'[i].revents = {} \/ pfds'[i] = pfds[i])
    BY <1>4, <2>1
  <2>3. Usable(pfds[i].fd)
    BY <1>2, <2>2 DEF Usable, OpenFds
  <2> QED BY <1>6, <2>2, <2>3 DEF EventsOK
<1>8. SlotsBacked'
  <2> SUFFICES ASSUME NEW i \in idx..(end - 1), Usable(pfds[i].fd)', "IN" \in pfds'[i].revents
               PROVE  \E j \in 0..(len - 1) :
                        pfds'[j] = pfds'[i] /\ (Drained(pfds[i].fd)' => j < idx)
    BY <1>1, <1>2 DEF SlotsBacked, Visited
  <2>1. i \in 0..(Cap - 1) /\ i # idx /\ pfds'[i] = pfds[i]
    <3>1. i \in 0..(Cap - 1) /\ i \in 0..(end - 1)
      BY <1>1
    <3>2. pfds'[i].revents = {} \/ (pfds'[i] = pfds[i] /\ i # idx)
      BY <1>4, <3>1
    <3> QED BY <3>1, <3>2
  <2>2. PICK j \in 0..(len - 1) : pfds[j] = pfds[i] /\ (Drained(pfds[i].fd) => Visited(j))
    BY <1>5, <1>6, <2>1 DEF SlotsBacked
  <2>3. j \in 0..(Cap - 1) /\ j # idx
    BY <1>1, <1>3, <2>1, <2>2, ServerAssumption DEF SetOK
  <2> QED BY <1>1, <1>4, <1>5, <2>1, <2>2, <2>3 DEF Visited
<1> QED BY <1>1, <1>2, <1>6, <1>7, <1>8 DEF WalkBacked

(* The walk passes a slot: what was visited stays visited.                 *)
LEMMA PassingKeepsWalk ==
  ASSUME IInv, WalkBacked, NoDiscard, SkipSlot \/ AfterHandle
  PROVE  WalkBacked'
<1>1. SetOK /\ idx \in 0..Cap /\ end \in 0..Cap /\ Walking /\ flags \subseteq HandlerFlags
  BY DEF IInv, TypeOK, LoopOK, HandlerOK, SkipSlot, AfterHandle, AtSlot, Walking
<1>2. /\ UNCHANGED <<peer, pending, connAt, pfds, len, end>> /\ pc' = "walk"
      /\ idx' = idx + 1 \/ (idx' = idx /\ pc # "handle")
  <2>1. CASE SkipSlot
    BY <2>1 DEF SkipSlot, AtSlot, net, set
  <2>2. CASE AfterHandle
    <3>1. ~("discard_conn" \in flags \/ (pc = "handle" /\ Slot.revents # {"IN"}))
      BY <1>1 DEF NoDiscard, WalkBacked, Slot
    <3> QED BY <2>2, <3>1 DEF AfterHandle, net
  <2> QED BY <2>1, <2>2
<1>3. \A f : (Usable(f)' <=> Usable(f)) /\ (Drained(f)' <=> Drained(f))
  BY <1>2 DEF Usable, Drained, OpenFds
<1>4. len <= end /\ EventsOK /\ SlotsBacked
  BY <1>1 DEF WalkBacked
<1>5. \A j \in 0..(len - 1) : Visited(j) => Visited(j)'
  BY <1>1, <1>2 DEF Visited
<1>6. SlotsBacked'
  BY <1>1, <1>2, <1>3, <1>4, <1>5 DEF SlotsBacked
<1> QED BY <1>2, <1>3, <1>4, <1>6 DEF WalkBacked, EventsOK

(* What the reset of the slot does to the array, and what its removal does.*)
LEMMA SlotResetProperties ==
  ASSUME IInv, AtSlot, NEW i \in 0..(Cap - 1)
  PROVE  /\ i # idx => SlotReset[i] = pfds[i]
         /\ i = idx => SlotReset[i] = Fresh(Slot.fd)
         /\ SlotReset[i].fd = pfds[i].fd
<1>1. pfds \in [0..(Cap - 1) -> Pfd] /\ idx \in 0..Cap /\ end \in 0..Cap /\ idx < end
      /\ Cap \in Nat
  BY ServerAssumption DEF IInv, TypeOK, SetOK, LoopOK, AtSlot
<1> QED BY <1>1 DEF SlotReset, Slot, Fresh

(* server.c:404: the slot is reset, and the first entry that is equal to it*)
(* is removed, if there is one.                                            *)
LEMMA DropSlotCases ==
  ASSUME IInv, AtSlot, DropSlot
  PROVE  /\ UNCHANGED <<idx, end>>
         /\ \/ pfds' = SlotReset /\ len' = len /\ len <= idx
                 /\ Find(SlotReset, len, Fresh(Slot.fd)) = NotFound
            \/ \E r \in 0..(len - 1) : /\ pfds' = Shift(SlotReset, len, r) /\ len' = len - 1
                                       /\ SlotReset[r] = Fresh(Slot.fd)
                                       /\ Find(SlotReset, len, Fresh(Slot.fd)) # NotFound
<1>1. len \in 0..Cap /\ idx \in 0..Cap /\ end \in 0..Cap /\ idx < end /\ Cap \in Nat
  BY ServerAssumption DEF IInv, TypeOK, SetOK, LoopOK, AtSlot
<1> DEFINE r == Find(SlotReset, len, Fresh(Slot.fd))
<1>2. UNCHANGED <<idx, end>> /\ Remove(SlotReset, Fresh(Slot.fd))
  BY DEF DropSlot, walk
<1>3. CASE r = NotFound
  <2>1. \A i \in 0..(len - 1) : SlotReset[i] # Fresh(Slot.fd)
    BY <1>1, <1>3, FindProperties DEF NotFound
  <2>2. idx \notin 0..(len - 1)
    BY <1>1, <2>1, SlotResetProperties
  <2> QED BY <1>1, <1>2, <1>3, <2>2 DEF Remove
<1>4. CASE r # NotFound
  <2>1. r \in 0..(len - 1) /\ SlotReset[r] = Fresh(Slot.fd)
    BY <1>1, <1>4, FindProperties
  <2> QED BY <1>2, <1>4, <2>1 DEF Remove
<1> QED BY <1>3, <1>4

(* A slot of the rest of the walk that is readable after a removal was in  *)
(* the rest of it before; and no slot has other events than one had.       *)
LEMMA DroppedFrom ==
  ASSUME IInv, AtSlot, DropSlot, len <= end, NEW i \in 0..(end - 1)
  PROVE  \/ pfds'[i].revents = {}
         \/ \E k \in 0..(end - 1) : pfds'[i] = pfds[k] /\ (idx <= i => idx < k)
<1>1. SetOK /\ len \in 0..Cap /\ idx \in 0..Cap /\ end \in 0..Cap /\ idx < end /\ Cap \in Nat
  BY ServerAssumption DEF IInv, TypeOK, SetOK, LoopOK, AtSlot
<1>2. DOMAIN SlotReset = 0..(Cap - 1)
  BY <1>1 DEF SlotReset, SetOK
<1>3. \E k \in 0..(end - 1) : pfds'[i] = SlotReset[k] /\ i <= k
  <2>1. CASE pfds' = SlotReset
    BY <1>1, <2>1
  <2>2. CASE \E r \in 0..(len - 1) : pfds' = Shift(SlotReset, len, r)
    <3>1. PICK r \in 0..(len - 1) : pfds' = Shift(SlotReset, len, r)
      BY <2>2
    <3>2. i \in 0..(Cap - 1)
      BY <1>1
    <3>3. pfds'[i] = IF r <= i /\ i < len - 1 THEN SlotReset[i + 1] ELSE SlotReset[i]
      BY <1>2, <3>1, <3>2 DEF Shift
    <3> QED BY <1>1, <3>3
  <2> QED BY <2>1, <2>2, DropSlotCases
<1>4. PICK k \in 0..(end - 1) : pfds'[i] = SlotReset[k] /\ i <= k
  BY <1>3
<1>5. k \in 0..(Cap - 1)
  BY <1>1
<1>6. CASE k = idx
  BY <1>4, <1>5, <1>6, SlotResetProperties DEF Fresh
<1>7. CASE k # idx
  BY <1>1, <1>4, <1>5, <1>7, SlotResetProperties
<1> QED BY <1>6, <1>7

(* An entry that is readable stays, no further behind, unless it is the    *)
(* one at the slot; and so does each descriptor, but for the slot's.       *)
LEMMA DroppedKeeps ==
  ASSUME IInv, AtSlot, DropSlot, NEW j \in 0..(len - 1)
  PROVE  /\ j # idx /\ "IN" \in pfds[j].revents =>
              \E l \in 0..(len' - 1) : l <= j /\ pfds'[l] = pfds[j]
         /\ pfds[j].fd # Slot.fd => \E l \in 0..(len' - 1) : pfds'[l].fd = pfds[j].fd
<1>1. SetOK /\ len \in 0..Cap /\ idx \in 0..Cap /\ end \in 0..Cap /\ idx < end /\ Cap \in Nat
  BY ServerAssumption DEF IInv, TypeOK, SetOK, LoopOK, AtSlot
<1>2. DOMAIN SlotReset = 0..(Cap - 1)
  BY <1>1 DEF SlotReset, SetOK
<1>3. j \in 0..(Cap - 1)
  BY <1>1
<1>4. SlotReset[j].fd = pfds[j].fd /\ (j # idx => SlotReset[j] = pfds[j])
  BY <1>3, SlotResetProperties
<1>5. CASE pfds' = SlotReset /\ len' = len
  BY <1>1, <1>4, <1>5
<1>6. CASE \E r \in 0..(len - 1) : /\ pfds' = Shift(SlotReset, len, r) /\ len' = len - 1
                                   /\ SlotReset[r] = Fresh(Slot.fd)
  <2>1. PICK r \in 0..(len - 1) : /\ pfds' = Shift(SlotReset, len, r) /\ len' = len - 1
                                  /\ SlotReset[r] = Fresh(Slot.fd)
    BY <1>6
  <2>2. SlotReset[r].fd = Slot.fd /\ SlotReset[r].revents = {}
    BY <2>1 DEF Fresh
  <2>3. CASE j = r
    BY <1>4, <2>2, <2>3
  <2>4. CASE j # r
    <3>1. PICK l \in 0..(len - 2) : l <= j /\ Shift(SlotReset, len, r)[l] = SlotReset[j]
      BY <1>1, <1>2, <2>4, ShiftKeeps
    <3>2. l \in 0..(len' - 1) /\ l <= j /\ pfds'[l] = SlotReset[j]
      BY <1>1, <2>1, <3>1
    <3> QED BY <1>4, <3>2
  <2> QED BY <2>3, <2>4
<1> QED BY <1>5, <1>6, DropSlotCases

(* What receiving from the slot, with a removal, does to the connections:  *)
(* it closes the slot's, or there was nothing to receive from it.          *)
SlotReceived ==
  /\ \A f \in Fds : Usable(f)' => Usable(f)
  /\ \A f \in Fds : Usable(f)' /\ Drained(f)' => Drained(f) \/ f = Slot.fd
  /\ \A f \in Fds : f = Slot.fd /\ Usable(f)' =>
        Drained(f) \/ Find(SlotReset, len, Fresh(f)) = NotFound

(* A slot that is dropped after a recv.                                    *)
LEMMA DropKeepsWalk ==
  ASSUME IInv, WalkBacked, Readable, DropSlot, SlotReceived, pc' \in {"walk", "handleLast"}
  PROVE  WalkBacked'
<1>1. /\ SetOK /\ SetOK' /\ len \in 0..Cap /\ len' \in 0..Cap /\ idx \in 0..Cap /\ end \in 0..Cap
      /\ idx < end /\ Cap \in Nat /\ AtSlot /\ pc = "walk"
  <2>1. AtSlot /\ LoopOK /\ EntriesOK
    BY IInvParts DEF Parts, Readable
  <2>2. EntriesOK'
    BY <2>1, DropSlotOK
  <2> QED BY <2>1, <2>2, ServerAssumption DEF LoopOK, EntriesOK, SetOK, AtSlot
<1>2. idx' = idx /\ end' = end /\ len' <= len
  BY <1>1, DropSlotCases
<1>3. len <= end /\ EventsOK /\ SlotsBacked
  BY <1>1 DEF WalkBacked, Walking
<1>4. \A i \in 0..(end - 1) : pfds[i].fd \in Fds /\ pfds'[i].fd \in Fds
  BY <1>1 DEF SetOK, Pfd
<1>5. EventsOK'
  <2> SUFFICES ASSUME NEW i \in 0..(end - 1), Usable(pfds[i].fd)'
               PROVE  pfds'[i].revents \subseteq {"IN"}
    BY <1>2 DEF EventsOK
  <2> DEFINE f == pfds'[i].fd
  <2>1. f \in Fds /\ Usable(f)
    BY <1>4 DEF SlotReceived, Usable, OpenFds
  <2>2. CASE \E k \in 0..(end - 1) : pfds'[i] = pfds[k]
    BY <1>3, <2>1, <2>2 DEF EventsOK
  <2> QED BY <1>1, <1>3, <2>2, DroppedFrom
<1>6. SlotsBacked'
  <2> SUFFICES ASSUME NEW i \in idx..(end - 1), Usable(pfds[i].fd)', "IN" \in pfds'[i].revents
               PROVE  \E l \in 0..(len' - 1) :
                        pfds'[l] = pfds'[i] /\ (Drained(pfds[i].fd)' => l < idx)
    BY <1>1, <1>2 DEF SlotsBacked, Visited
  <2>1. i \in 0..(end - 1) /\ idx <= i
    BY <1>1
  <2>2. PICK k \in 0..(end - 1) : pfds'[i] = pfds[k] /\ idx < k
    BY <1>1, <1>3, <2>1, DroppedFrom
  <2> DEFINE f == pfds[k].fd
  <2>3. f \in Fds /\ Usable(f) /\ k \in idx..(end - 1) /\ "IN" \in pfds[k].revents
    BY <1>1, <1>4, <2>2 DEF SlotReceived, Usable, OpenFds
  <2>4. PICK j \in 0..(len - 1) : pfds[j] = pfds[k] /\ (Drained(f) => Visited(j))
    BY <1>3, <2>3 DEF SlotsBacked
  <2>5. Drained(f) => j < idx
    BY <1>1, <2>4 DEF Visited
  <2>6. CASE f # Slot.fd \/ Drained(f)
    <3>1. j # idx
      BY <2>4, <2>5, <2>6 DEF Slot
    <3>2. PICK l \in 0..(len' - 1) : l <= j /\ pfds'[l] = pfds[j]
      BY <1>1, <2>3, <2>4, <3>1, DroppedKeeps
    <3>3. Drained(pfds[i].fd)' => Drained(f)
      BY <2>2, <2>3, <2>6 DEF SlotReceived, Drained, Usable, OpenFds
    <3>4. pfds'[l] = pfds'[i] /\ (Drained(f) => l < idx)
      BY <1>1, <2>2, <2>4, <2>5, <3>2
    <3> HIDE DEF f
    <3> QED BY <3>3, <3>4
  <2>7. CASE f = Slot.fd /\ ~Drained(f)
    <3>2. Find(SlotReset, len, Fresh(Slot.fd)) = NotFound
      BY <2>2, <2>3, <2>7 DEF SlotReceived, Usable, OpenFds
    <3>3. pfds' = SlotReset /\ len' = len /\ len <= idx
      BY <1>1, <3>2, DropSlotCases
    <3>4. j < idx /\ pfds'[j] = pfds[j] /\ j \in 0..(len' - 1)
      BY <1>1, <3>3, SlotResetProperties
    <3> QED BY <2>2, <2>4, <3>4
  <2> QED BY <2>6, <2>7
<1> QED BY <1>1, <1>2, <1>3, <1>5, <1>6 DEF WalkBacked

(* Receiving from the slot's connection drains no other.                   *)
LEMMA ReceiveDrainsOne ==
  ASSUME NetOK, ConnsDistinct, Slot.fd \in Fds, UNCHANGED peer,
         \A f \in Fds : connAt'[f] \in {connAt[f], NoConn},
         \A c \in Conns : c # SlotConn => pending'[c] = pending[c]
  PROVE  /\ \A f \in Fds : Usable(f)' => Usable(f) /\ connAt'[f] = connAt[f]
         /\ \A f \in Fds : Usable(f)' /\ Drained(f)' => Drained(f) \/ f = Slot.fd
<1>1. ASSUME NEW f \in Fds, Usable(f)' PROVE Usable(f) /\ connAt'[f] = connAt[f]
  BY <1>1 DEF Usable, OpenFds
<1>2. ASSUME NEW f \in Fds, Usable(f)', Drained(f)', f # Slot.fd PROVE Drained(f)
  <2>1. f \in OpenFds /\ connAt[f] \in Conns /\ connAt'[f] = connAt[f]
    BY <1>1, <1>2 DEF Usable, OpenFds, NetOK
  <2>2. connAt[f] # SlotConn
    <3>1. CASE Slot.fd \in OpenFds
      BY <1>2, <2>1, <3>1 DEF ConnsDistinct, SlotConn
    <3>2. CASE Slot.fd \notin OpenFds
      BY <2>1, <3>2 DEF OpenFds, SlotConn
    <3> QED BY <3>1, <3>2
  <2> QED BY <1>2, <2>1, <2>2 DEF Drained
<1> QED BY <1>1, <1>2

(* What each kind of receiving leaves of the connections.                  *)
LEMMA ReceiveOK ==
  ASSUME IInv, ConnsDistinct, RecvEnd \/ RecvLast \/ RecvReject \/ RecvNothing \/ RecvData
  PROVE  /\ Readable /\ Slot \in Pfd
         /\ UNCHANGED <<backlog, peer, sent, signals, idx, end>>
         /\ \A f \in Fds : connAt'[f] \in {connAt[f], NoConn}
         /\ \A f \in Fds : Usable(f)' => Usable(f) /\ connAt'[f] = connAt[f]
         /\ \A f \in Fds : Usable(f)' /\ Drained(f)' => Drained(f) \/ f = Slot.fd
<1>1. NetOK /\ EntriesOK /\ LoopOK
  BY IInvParts DEF Parts
<1>2. Readable /\ UNCHANGED <<backlog, peer, sent, signals, idx, end>>
  BY DEF RecvEnd, RecvLast, RecvReject, RecvNothing, RecvData, Receiving, DropSlot, net, walk
<1>3. Slot \in Pfd /\ Slot.fd \in Fds
  BY <1>1, <1>2, SlotOK DEF EntriesOK, LoopOK, Readable, AtSlot, Pfd
<1>4. \A f \in Fds : connAt'[f] \in {connAt[f], NoConn}
  BY <1>1, <1>3 DEF RecvEnd, RecvLast, RecvReject, RecvNothing, RecvData, CloseFd, NetOK, net
<1>5. \A c \in Conns : c # SlotConn => pending'[c] = pending[c]
  <2>1. UNCHANGED pending \/ \E d \in Conns : \E m : Receiving(d) /\ pending' = [pending EXCEPT ![d] = m]
    BY DEF RecvEnd, RecvLast, RecvReject, RecvNothing, RecvData, net
  <2> QED BY <1>1, <2>1 DEF Receiving, NetOK
<1>6. /\ \A f \in Fds : Usable(f)' => Usable(f) /\ connAt'[f] = connAt[f]
      /\ \A f \in Fds : Usable(f)' /\ Drained(f)' => Drained(f) \/ f = Slot.fd
  BY <1>1, <1>2, <1>3, <1>4, <1>5, ReceiveDrainsOne
<1> QED BY <1>2, <1>3, <1>4, <1>6

(* A slot that is dropped: its connection is closed, or the walk has       *)
(* passed the entry that stands for it.                                    *)
LEMMA DroppingKeepsWalk ==
  ASSUME HasLimit, IInv, ConnsDistinct, WalkBacked,
         RecvEnd \/ RecvLast \/ RecvReject \/ RecvNothing
  PROVE  WalkBacked' /\ pc' # "crashed" /\ SlotReceived /\ DropSlot
<1>1. /\ Readable /\ Slot \in Pfd
      /\ \A f \in Fds : Usable(f)' => Usable(f) /\ connAt'[f] = connAt[f]
      /\ \A f \in Fds : Usable(f)' /\ Drained(f)' => Drained(f) \/ f = Slot.fd
  BY ReceiveOK
<1>2. NetOK /\ Slot.fd \in Fds
  BY <1>1, IInvParts DEF Parts, Pfd
<1>3. ASSUME NEW f \in Fds, f = Slot.fd, Usable(f)'
      PROVE  Drained(f) \/ Find(SlotReset, len, Fresh(f)) = NotFound
  <2>1. CASE CloseFd(Slot.fd)
    BY <1>2, <1>3, <2>1 DEF CloseFd, Usable, OpenFds, NetOK
  <2>2. CASE RecvNothing
    BY <1>3, <2>2 DEF HasLimit, RecvNothing, Drained, SlotConn
  <2>3. CASE RecvEnd \/ RecvLast
    BY <2>1, <2>3 DEF RecvEnd, RecvLast
  <2>4. CASE RecvReject
    BY <1>3, <2>1, <2>4 DEF RecvReject
  <2> QED BY <2>2, <2>3, <2>4
<1>4. SlotReceived
  BY <1>1, <1>3 DEF SlotReceived
<1>5. DropSlot /\ pc' \in {"walk", "handleLast"}
  BY <1>1 DEF RecvEnd, RecvLast, RecvReject, RecvNothing, Dispatch, Readable, AtSlot
<1> QED BY <1>1, <1>4, <1>5, DropKeepsWalk

(* Two pollfds of one descriptor with the same events are equal.           *)
LEMMA SamePfd ==
  ASSUME NEW p \in Pfd, NEW q \in Pfd, p.fd = q.fd, p.revents = q.revents
  PROVE  p = q
BY DEF Pfd

(* Data from a connection that stays open: the entry that equals the slot  *)
(* is found, at the slot or before it.                                     *)
LEMMA DataKeepsWalk ==
  ASSUME IInv, ConnsDistinct, WalkBacked, RecvData
  PROVE  WalkBacked' /\ pc' # "crashed"
<1>1. /\ Readable /\ Slot \in Pfd
      /\ UNCHANGED <<idx, end>>
      /\ \A f \in Fds : Usable(f)' => Usable(f) /\ connAt'[f] = connAt[f]
      /\ \A f \in Fds : Usable(f)' /\ Drained(f)' => Drained(f) \/ f = Slot.fd
  BY ReceiveOK
<1>2. /\ SetOK /\ NetOK /\ len \in 0..Cap /\ idx \in 0..Cap /\ end \in 0..Cap /\ idx < end
      /\ Cap \in Nat /\ pc = "walk" /\ idx \in idx..(end - 1) /\ Slot.fd \in Fds
  BY <1>1, IInvParts, ServerAssumption
     DEF Parts, EntriesOK, SetOK, LoopOK, Readable, AtSlot, Pfd
<1>3. len <= end /\ EventsOK /\ SlotsBacked
  BY <1>2 DEF WalkBacked, Walking
<1>4. UNCHANGED <<pfds, len>>
      /\ (Find(pfds, len, Slot) # NotFound => pc' = "handle")
  BY DEF RecvData, Dispatch, set
<1>5. Usable(Slot.fd) /\ Slot.revents = {"IN"}
  <2>1. Usable(Slot.fd)
    <3>1. PICK c \in Conns : Receiving(c)
      BY DEF RecvData
    <3> QED BY <1>2, <3>1, ServerAssumption DEF Receiving, Usable, OpenFds, SlotConn
  <2>2. idx \in 0..(end - 1) /\ "IN" \in Slot.revents
    BY <1>1, <1>2 DEF Readable
  <2> QED BY <1>3, <2>1, <2>2 DEF EventsOK, Slot
<1> DEFINE e == Find(pfds, len, Slot)
<1>6. e \in 0..(len - 1) /\ pfds[e] = Slot /\ e <= idx
  <2>1. PICK j \in 0..(len - 1) : pfds[j] = Slot
    BY <1>2, <1>3, <1>5 DEF SlotsBacked, Slot
  <2>2. len \in Nat /\ idx \in Nat /\ pfds[idx] = Slot
    BY <1>2 DEF Slot
  <2> QED BY <2>1, <2>2, FindFirst
<1>7. pc' = "handle"
  BY <1>4, <1>6 DEF NotFound
<1> HIDE DEF e
<1>8. \A i \in 0..(end - 1) : pfds[i].fd \in Fds
  BY <1>2 DEF SetOK, Pfd
<1>9. EventsOK'
  BY <1>1, <1>3, <1>4, <1>8 DEF EventsOK, Usable, OpenFds
<1>10. SlotsBacked'
  <2> SUFFICES ASSUME NEW i \in idx..(end - 1), Usable(pfds[i].fd)', "IN" \in pfds[i].revents
               PROVE  \E j \in 0..(len - 1) :
                        pfds[j] = pfds[i] /\ (Drained(pfds[i].fd)' => j <= idx)
    BY <1>1, <1>2, <1>4, <1>7 DEF SlotsBacked, Visited
  <2> DEFINE f == pfds[i].fd
  <2>1. i \in 0..(end - 1) /\ f \in Fds /\ Usable(f)
    BY <1>1, <1>2, <1>4, <1>8 DEF Usable, OpenFds
  <2>2. pfds[i].revents = {"IN"}
    BY <1>3, <2>1 DEF EventsOK
  <2>3. CASE f = Slot.fd
    <3>1. pfds[i] = Slot
      <4>1. pfds[i] \in Pfd
        BY <1>2, <2>1 DEF SetOK
      <4> QED BY <1>1, <1>5, <2>2, <2>3, <4>1, SamePfd
    <3> QED BY <1>6, <3>1
  <2>4. CASE f # Slot.fd
    <3>1. PICK j \in 0..(len - 1) : pfds[j] = pfds[i] /\ (Drained(f) => Visited(j))
      BY <1>3, <2>1 DEF SlotsBacked
    <3>2. Drained(pfds[i].fd)' => Drained(f)
      BY <1>1, <1>4, <2>1, <2>4 DEF Drained, Usable, OpenFds
    <3>3. Drained(f) => j <= idx
      BY <1>2, <3>1 DEF Visited
    <3> HIDE DEF f
    <3> QED BY <3>1, <3>2, <3>3
  <2> QED BY <2>3, <2>4
<1> QED BY <1>1, <1>3, <1>4, <1>5, <1>7, <1>9, <1>10 DEF WalkBacked, Slot

(* WalkInv is kept by each step, if no handler discards a connection.      *)
LEMMA NextWalkInv ==
  ASSUME NoDiscard, HasLimit, IInv, WalkInv, [Next]_vars
  PROVE  WalkInv'
<1>1. ConnsDistinct /\ WalkBacked /\ pc # "crashed"
  BY DEF WalkInv
<1>2. ConnsDistinct'
  BY <1>1, NextDistinct
<1>3. WalkBacked' /\ pc' # "crashed"
  <2>1. CASE \/ \E c \in Conns : Connect(c) \/ Send(c) \/ \E how \in {"fin", "rst"} : Leave(c, how)
             \/ Kill \/ HandlerStep
    <3>1. Forward /\ UNCHANGED <<set, pc, walk>>
      BY <1>1, <2>1, PeersGoForward
    <3> QED BY <1>1, <3>1, ForwardKeepsWalk
  <2>2. CASE Poll
    BY <1>1, <2>2, PollStartsWalk DEF Poll
  <2>3. CASE ResetSlot
    BY <1>1, <2>3, ResetKeepsWalk DEF ResetSlot
  <2>4. CASE SkipSlot \/ AfterHandle
    BY <1>1, <2>4, PassingKeepsWalk DEF SkipSlot, AfterHandle
  <2>5. CASE RecvEnd \/ RecvLast \/ RecvReject \/ RecvNothing
    BY <1>1, <2>5, DroppingKeepsWalk
  <2>6. CASE RecvData
    BY <1>1, <2>6, DataKeepsWalk
  <2>7. CASE \/ Launch \/ Bind \/ LoopTest \/ AcceptConn \/ AcceptRefuse \/ AcceptFail \/ AcceptDone
             \/ WalkDone \/ Expire \/ Keep \/ ExpireDone \/ Shutdown
    <3>1. pc' \notin {"walk", "handle", "handleLast", "crashed"}
      BY <2>7 DEF Launch, Bind, LoopTest, AcceptConn, AcceptRefuse, AcceptFail, AcceptDone,
                  WalkDone, Expire, Keep, ExpireDone, Shutdown, CanAccept
    <3> QED BY <3>1 DEF WalkBacked, Walking
  <2>8. CASE UNCHANGED vars
    <3>1. UNCHANGED <<set, pc, walk>> /\ Forward
      BY <2>8 DEF vars, net, Forward, Usable, Drained, OpenFds
    <3> QED BY <1>1, <3>1, ForwardKeepsWalk
  <2> QED BY <2>1, <2>2, <2>3, <2>4, <2>5, <2>6, <2>7, <2>8 DEF Next, ServerStep
<1> QED BY <1>2, <1>3 DEF WalkInv

(* WalkInv holds before anybody connects.                                  *)
LEMMA InitWalkInv == Init => WalkInv
BY DEF Init, WalkInv, ConnsDistinct, Queued, OpenFds, WalkBacked, Walking

(* The slots of the walk keep an entry each, and connections are distinct, *)
(* with timeouts as well.                                                  *)
LEMMA WalkInvariant ==
  ASSUME NoDiscard, HasLimit
  PROVE  Spec => [](IInv /\ WalkInv)
<1>1. IInv /\ WalkInv /\ [Next]_vars => WalkInv'
  BY NextWalkInv
<1> QED BY <1>1, InitWalkInv, ServerInvariant, PTL DEF Spec

(* If max_request_size is 0, nothing is received, and no time is stored.   *)
LEMMA NothingIsStored ==
  ASSUME ~HasLimit
  PROVE  Spec => []NoCrash
<1>1. Init => NoCrash
  BY DEF Init, NoCrash
<1>2. ASSUME NoCrash, [Next]_vars PROVE NoCrash'
  <2>1. ~RecvData /\ ~RecvLast
    BY DEF HasLimit, RecvData, RecvLast, Receiving
  <2>2. CASE ServerStep
    BY <1>2, <2>1, <2>2
       DEF NoCrash, ServerStep, Launch, Bind, LoopTest, AcceptConn, AcceptRefuse, AcceptFail,
           AcceptDone, Poll, SkipSlot, ResetSlot, RecvEnd, RecvReject, RecvNothing, AfterHandle,
           WalkDone, Expire, Keep, ExpireDone, Shutdown
  <2>3. CASE ~ServerStep
    <3>1. pc' = pc
      BY <1>2, <2>3 DEF Next, HandlerStep, Handle, Connect, Send, Leave, Kill, vars
    <3> QED BY <1>2, <3>1 DEF NoCrash
  <2> QED BY <2>2, <2>3
<1>3. NoCrash /\ [Next]_vars => NoCrash'
  BY <1>2
<1> QED BY <1>1, <1>3, PTL DEF Spec

(* The time of last use is never stored through NULL, if no handler        *)
(* discards a connection; one that does can bring it about.                *)
THEOREM NoNullStore ==
  ASSUME NoDiscard
  PROVE  Spec => []NoCrash
<1>1. ASSUME HasLimit PROVE Spec => []NoCrash
  <2>1. WalkInv => NoCrash
    BY DEF WalkInv, NoCrash
  <2> QED BY <1>1, <2>1, WalkInvariant, PTL
<1>2. ASSUME ~HasLimit PROVE Spec => []NoCrash
  BY <1>2, NothingIsStored
<1> QED BY <1>1, <1>2

-----------------------------------------------------------------------------
(* Connections stay in the set, if none of them times out and the server   *)
(* has a limit on requests: at 0, what is readable leaves it open.         *)

(* What is open after an accept is in the set.                             *)
LEMMA AcceptKeepsInSet ==
  ASSUME IInv, OpenConnsAreInTheSet, AcceptConn
  PROVE  OpenConnsAreInTheSet'
<1>1. NetOK /\ SetOK /\ len \in 0..(Cap - 1) /\ Cap \in Nat /\ NewFd \in Fds
  BY IInvParts, NewFdIsFree, ServerAssumption
     DEF Parts, EntriesOK, SetOK, AcceptConn, CanAccept, FreeFds
<1>2. \A f \in OpenFds' : f = NewFd \/ f \in OpenFds
  BY <1>1 DEF AcceptConn, OpenFds, NetOK
<1>3. CASE Find(pfds, len, Fresh(NewFd)) # NotFound
  <2>1. \E i \in 0..(len - 1) : pfds[i] = Fresh(NewFd)
    BY <1>1, <1>3, FindProperties
  <2>2. \E i \in 0..(len - 1) : pfds[i].fd = NewFd
    BY <2>1 DEF Fresh
  <2>3. UNCHANGED <<pfds, len>>
    BY <1>3 DEF AcceptConn, set
  <2> QED BY <1>2, <2>2, <2>3 DEF OpenConnsAreInTheSet, InSet
<1>4. CASE Find(pfds, len, Fresh(NewFd)) = NotFound
  <2>1. pfds' = [pfds EXCEPT ![len] = Fresh(NewFd)] /\ len' = len + 1
    BY <1>4 DEF AcceptConn
  <2>2. pfds'[len].fd = NewFd /\ len \in 0..(len' - 1)
    BY <1>1, <2>1 DEF SetOK, Fresh
  <2>3. \A i \in 0..(len - 1) : pfds'[i] = pfds[i] /\ i \in 0..(len' - 1)
    BY <1>1, <2>1 DEF SetOK
  <2> QED BY <1>2, <2>2, <2>3 DEF OpenConnsAreInTheSet, InSet
<1> QED BY <1>3, <1>4

(* A slot that is dropped takes no open connection with it: what is open   *)
(* has another entry, behind the walk.                                     *)
LEMMA DropKeepsInSet ==
  ASSUME HasLimit, IInv, ConnsDistinct, WalkBacked, OpenConnsAreInTheSet,
         RecvEnd \/ RecvLast \/ RecvReject \/ RecvNothing
  PROVE  OpenConnsAreInTheSet'
<1>1. /\ Readable /\ AtSlot /\ Slot \in Pfd /\ DropSlot /\ SlotReceived
      /\ UNCHANGED <<peer, idx, end>>
      /\ \A f \in Fds : connAt'[f] \in {connAt[f], NoConn}
  BY ReceiveOK, DroppingKeepsWalk DEF Readable
<1>2. /\ NetOK /\ SetOK /\ len \in 0..Cap /\ idx \in 0..Cap /\ end \in 0..Cap /\ idx < end
      /\ Cap \in Nat /\ pc = "walk" /\ idx \in idx..(end - 1)
  BY <1>1, IInvParts, ServerAssumption
     DEF Parts, EntriesOK, SetOK, LoopOK, Readable, AtSlot
<1> SUFFICES ASSUME NEW f \in OpenFds' PROVE \E l \in 0..(len' - 1) : pfds'[l].fd = f
  BY DEF OpenConnsAreInTheSet, InSet
<1>3. f \in OpenFds /\ f \in Fds /\ connAt'[f] = connAt[f]
  BY <1>1 DEF OpenFds
<1>4. PICK j \in 0..(len - 1) : pfds[j].fd = f
  BY <1>3 DEF OpenConnsAreInTheSet, InSet
<1>5. CASE f # Slot.fd
  BY <1>1, <1>4, <1>5, DroppedKeeps
<1>6. CASE f = Slot.fd /\ Find(SlotReset, len, Fresh(Slot.fd)) = NotFound
  <2>1. pfds' = SlotReset /\ len' = len
    BY <1>1, <1>6, DropSlotCases
  <2>2. SlotReset[j].fd = f
    BY <1>1, <1>2, <1>4, SlotResetProperties
  <2> QED BY <1>4, <2>1, <2>2
<1>7. CASE f = Slot.fd /\ Find(SlotReset, len, Fresh(Slot.fd)) # NotFound
  <2>1. CASE CloseFd(Slot.fd)
    BY <1>2, <1>3, <1>7, <2>1 DEF CloseFd, OpenFds, NetOK
  <2>2. CASE RecvNothing
    <3>1. Usable(f) /\ Drained(f) /\ "IN" \in pfds[idx].revents
      BY <1>1, <1>3, <1>7, <2>2 DEF HasLimit, RecvNothing, Usable, Drained, SlotConn, Readable, Slot
    <3>2. PICK k \in 0..(len - 1) : pfds[k] = pfds[idx] /\ Visited(k)
      BY <1>2, <1>7, <3>1 DEF WalkBacked, Walking, SlotsBacked, Slot
    <3>3. k # idx /\ "IN" \in pfds[k].revents
      BY <1>2, <3>1, <3>2 DEF Visited
    <3>4. \E l \in 0..(len' - 1) : pfds'[l] = pfds[k]
      BY <1>1, <3>3, DroppedKeeps
    <3> QED BY <1>7, <3>2, <3>4 DEF Slot
  <2> QED BY <1>7, <2>1, <2>2 DEF RecvEnd, RecvLast, RecvReject
<1> QED BY <1>5, <1>6, <1>7

(* Steps that open nothing and leave every descriptor in the set.          *)
LEMMA SetKeepsInSet ==
  ASSUME OpenConnsAreInTheSet, len' = len,
         \A i \in 0..(len - 1) : pfds'[i].fd = pfds[i].fd,
         \A f \in Fds : connAt'[f] \in {connAt[f], NoConn}
  PROVE  OpenConnsAreInTheSet'
BY DEF OpenConnsAreInTheSet, OpenFds, InSet

(* OpenConnsAreInTheSet is kept by each step.                              *)
LEMMA NextInSet ==
  ASSUME ~Expiring, HasLimit, IInv, WalkInv, OpenConnsAreInTheSet, [Next]_vars
  PROVE  OpenConnsAreInTheSet'
<1>1. NetOK /\ SetOK /\ LoopOK /\ ConnsDistinct /\ WalkBacked /\ len \in 0..Cap /\ Cap \in Nat
  BY IInvParts, ServerAssumption DEF Parts, EntriesOK, SetOK, WalkInv
<1>2. CASE AcceptConn
  BY <1>2, AcceptKeepsInSet
<1>3. CASE RecvEnd \/ RecvLast \/ RecvReject \/ RecvNothing
  BY <1>1, <1>3, DropKeepsInSet
<1>4. CASE Expire
  BY <1>4 DEF Expire
<1>5. CASE Shutdown
  BY <1>5 DEF Shutdown, OpenConnsAreInTheSet, OpenFds, InSet
<1>6. CASE Poll
  <2>1. \A i \in 0..(len - 1) : pfds'[i].fd = pfds[i].fd
    BY <1>1, <1>6 DEF Poll, SetOK
  <2> QED BY <1>6, <2>1, SetKeepsInSet DEF Poll
<1>7. CASE ResetSlot \/ AfterHandle
  <2>1. idx \in 0..(Cap - 1) /\ len' = len /\ connAt' = connAt
        /\ (pfds' = pfds \/ pfds' = [pfds EXCEPT ![idx] = Fresh(pfds[idx].fd)])
    <3>1. WalkOK
      BY IInvParts
    <3> QED BY <1>1, <1>7, <3>1
            DEF ResetSlot, AfterHandle, AtSlot, LoopOK, WalkOK, SlotReset
  <2>2. \A i \in 0..(len - 1) : pfds'[i].fd = pfds[i].fd
    BY <1>1, <2>1 DEF SetOK, Fresh
  <2> QED BY <2>1, <2>2, SetKeepsInSet
<1>8. CASE HandlerStep
  <2>1. UNCHANGED set
    BY <1>8 DEF HandlerStep, Handle
  <2>2. \A f \in Fds : connAt'[f] \in {connAt[f], NoConn}
    BY <1>1, <1>8 DEF HandlerStep, Handle, CloseFd, NetOK
  <2> QED BY <2>1, <2>2, SetKeepsInSet DEF set
<1>9. CASE \/ \E c \in Conns : Connect(c) \/ Send(c) \/ \E how \in {"fin", "rst"} : Leave(c, how)
           \/ Kill \/ Launch \/ Bind \/ LoopTest \/ AcceptRefuse \/ AcceptFail \/ AcceptDone
           \/ SkipSlot \/ RecvData \/ WalkDone \/ Keep \/ ExpireDone \/ UNCHANGED vars
  <2>1. UNCHANGED <<connAt, set>>
    BY <1>9 DEF Connect, Send, Leave, Kill, Launch, Bind, LoopTest, AcceptRefuse, AcceptFail,
                AcceptDone, SkipSlot, RecvData, WalkDone, Keep, ExpireDone, vars
  <2> QED BY <2>1, SetKeepsInSet DEF set
<1> QED BY <1>2, <1>3, <1>4, <1>5, <1>6, <1>7, <1>8, <1>9 DEF Next, ServerStep

(* Once the end has been acknowledged, nothing opens any more.             *)
LEMMA NextStopped ==
  ASSUME IInv, OpenConnsAreInTheSet, killAck => pc = "done" /\ OpenFds = {}, [Next]_vars
  PROVE  killAck' => pc' = "done" /\ OpenFds' = {}
<1>1. NetOK
  BY IInvParts DEF Parts
<1>2. CASE Shutdown
  BY <1>2 DEF Shutdown, OpenConnsAreInTheSet, OpenFds, InSet
<1>3. CASE killAck /\ killAck' = killAck
  <2>1. pc = "done" /\ \A f \in Fds : connAt[f] = NoConn
    BY <1>3 DEF OpenFds
  <2>2. ~ServerStep
    BY <2>1 DEF ServerStep, Launch, Bind, LoopTest, AcceptConn, AcceptRefuse, AcceptFail,
                AcceptDone, CanAccept, Poll, AtSlot, Readable, Receiving, SkipSlot, ResetSlot,
                RecvEnd, RecvLast, RecvData, RecvReject, RecvNothing, AfterHandle, WalkDone,
                Expire, Keep, ExpireDone, Shutdown
  <2>3. CASE HandlerStep
    <3>1. pc' = pc /\ connAt' = connAt
      <4>1. PICK j \in BagToSet(jobs) : Handle(j)
        BY <2>3 DEF HandlerStep
      <4>2. j.fd \in Fds
        BY <4>1, IInvParts DEF Parts, HandlerOK, Job
      <4> QED BY <2>1, <4>1, <4>2 DEF Handle
    <3> QED BY <2>1, <3>1 DEF OpenFds
  <2>4. CASE ~HandlerStep
    <3>1. UNCHANGED <<pc, connAt>>
      BY <2>2, <2>4 DEF Next, Connect, Send, Leave, Kill, vars
    <3> QED BY <2>1, <3>1 DEF OpenFds
  <2> QED BY <2>3, <2>4
<1>4. ~Shutdown => UNCHANGED killAck
  BY DEF Next, ServerStep, HandlerStep, Connect, Send, Leave, Kill, Handle, Launch, Bind, LoopTest,
         AcceptConn, AcceptRefuse, AcceptFail, AcceptDone, Poll, SkipSlot, ResetSlot, RecvEnd,
         RecvLast, RecvData, RecvReject, RecvNothing, AfterHandle, WalkDone, Expire, Keep,
         ExpireDone, signals, vars
<1> QED BY <1>2, <1>3, <1>4

(* SetInv holds in every reachable state of a server that has a limit on   *)
(* requests and no timeouts, and whose handlers discard no connection.     *)
LEMMA SetInvariant ==
  ASSUME NoDiscard, ~Expiring, HasLimit
  PROVE  Spec => [](IInv /\ SetInv)
<1>1. Init => SetInv
  BY InitWalkInv DEF Init, SetInv, OpenConnsAreInTheSet, OpenFds
<1>2. ASSUME IInv, SetInv, [Next]_vars PROVE SetInv'
  <2>1. WalkInv'
    BY <1>2, NextWalkInv DEF SetInv
  <2>2. OpenConnsAreInTheSet'
    BY <1>2, NextInSet DEF SetInv
  <2>3. killAck' => pc' = "done" /\ OpenFds' = {}
    BY <1>2, NextStopped DEF SetInv
  <2> QED BY <2>1, <2>2, <2>3 DEF SetInv
<1>3. IInv /\ SetInv /\ [Next]_vars => SetInv'
  BY <1>2
<1> QED BY <1>1, <1>3, ServerInvariant, PTL DEF Spec

(* However slots move while they are walked, and are visited twice, each   *)
(* open connection stays in the set: it is polled, counted and closed.     *)
THEOREM ConnsStayInTheSet ==
  ASSUME NoDiscard, ~Expiring, HasLimit
  PROVE  Spec => []OpenConnsAreInTheSet
<1>1. SetInv => OpenConnsAreInTheSet
  BY DEF SetInv
<1> QED BY <1>1, SetInvariant, PTL

(* server.h:50: once kill_ack is set, all connections have been closed.    *)
THEOREM AckComesAfterClosing ==
  ASSUME NoDiscard, ~Expiring, HasLimit
  PROVE  Spec => []KillAckMeansClosed
<1>1. SetInv => KillAckMeansClosed
  BY DEF SetInv, KillAckMeansClosed
<1> QED BY <1>1, SetInvariant, PTL

(* server.h:39: no more than max_concurrent_connections are open.          *)
THEOREM ConnsWithinCap ==
  ASSUME NoDiscard, ~Expiring, HasLimit
  PROVE  Spec => []OpenWithinCap
<1>1. ASSUME IInv, OpenConnsAreInTheSet PROVE OpenWithinCap
  <2> DEFINE slots == 0..(len - 1)
             fds == {pfds[i].fd : i \in slots}
  <2>1. len \in 0..Cap /\ Cap \in Nat
    BY <1>1, ServerAssumption DEF IInv, TypeOK, SetOK
  <2>2. IsFiniteSet(slots) /\ Cardinality(slots) = len
    BY <2>1, FS_Interval
  <2>3. IsFiniteSet(fds) /\ Cardinality(fds) <= Cardinality(slots)
    <3> DEFINE g == [i \in slots |-> pfds[i].fd]
    <3> HIDE DEF slots
    <3>1. g \in Surjection(slots, fds)
      BY DEF Surjection
    <3> HIDE DEF fds, g
    <3> QED BY <2>2, <3>1, FS_Surjection
  <2>4. OpenFds \subseteq fds
    BY <1>1 DEF OpenConnsAreInTheSet, InSet
  <2> HIDE DEF fds, slots
  <2>5. Cardinality(OpenFds) <= Cardinality(fds) /\ IsFiniteSet(OpenFds)
    BY <2>3, <2>4, FS_Subset
  <2>6. Cardinality(OpenFds) \in Nat /\ Cardinality(fds) \in Nat
    BY <2>3, <2>5, FS_CardinalityType
  <2> QED BY <2>1, <2>2, <2>3, <2>5, <2>6 DEF OpenWithinCap
<1>2. IInv /\ SetInv => OpenWithinCap
  BY <1>1 DEF SetInv
<1> QED BY <1>2, SetInvariant, PTL
=============================================================================
