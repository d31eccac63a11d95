-------------------------------- MODULE Server --------------------------------
(***************************************************************************)
(* runServer of lib/server.c (the POSIX one): a loop of one thread that    *)
(* accepts connections into a set of pollfds, polls them, walks the array  *)
(* of pollfds by pointer while connections are removed from it, hands what *)
(* it received to the thread pool, closes what timed out, and shuts down   *)
(* when it is told to.                                                     *)
(*                                                                         *)
(* The set is two of its parallel arrays: the pollfds, which are its key,  *)
(* and the addresses.  A timeout strikes whenever the configuration allows *)
(* it.  The peers, the kernel's descriptors and the handler are external.  *)
(***************************************************************************)
EXTENDS Sequences, FiniteSets, Bags, SlotArray

CONSTANTS
  Conns,         (* connections, each of them made at most once            *)
  NoConn,        (* what a descriptor that is not open refers to           *)
  NFds,          (* how many descriptors the process may have              *)
  Cap,           (* max_concurrent_connections                             *)
  MaxPerIp,      (* max_conns_per_ip                                       *)
  SizeRange,     (* how many values a size_t has                           *)
  IpOf,          (* the address a connection comes from                    *)
  KeyOf,         (* what ipAddrStorageFromSockaddr keeps of an address     *)
  MaxRequests,   (* how many requests a peer sends on a connection (bound) *)
  MaxRequestSize,(* max_request_size, in requests                          *)
  Pooled,        (* thread_pool->size # 0: the handler runs on workers     *)
  HandlerFlags,  (* the members of conn_state that the handler may set     *)
  Expiring,      (* default_connection_timeout_usec >= 0                   *)
  RecvTimesOut,  (* recv_timeout_usec >= 0                                 *)
  BindMayFail    (* the address may be in use                              *)

ASSUME ServerAssumption ==
  /\ NFds \in Nat \ {0} /\ Cap \in Nat \ {0} /\ SizeRange \in Nat \ {0} /\ MaxPerIp \in Int
  /\ MaxRequests \in Nat /\ MaxRequestSize \in Nat /\ Conns # {} /\ NoConn \notin Conns
  /\ {Pooled, Expiring, RecvTimesOut, BindMayFail} \subseteq BOOLEAN
  /\ HandlerFlags \subseteq {"stop_server", "discard_conn"}

VARIABLES
  backlog,   (* connections made and not accepted yet                      *)
  peer,      (* what the other side did last with a connection             *)
  sent,      (* requests the peer has sent on it                           *)
  pending,   (* requests in the kernel's buffer of a connection            *)
  connAt,    (* the connection a descriptor refers to                      *)
  pfds,      (* timed_conn_pollfds.data[0]                                 *)
  ips,       (* timed_conn_pollfds.data[3]                                 *)
  len,       (* timed_conn_pollfds.len                                     *)
  pc,        (* where the server thread is                                 *)
  idx,       (* pfd of the walk, i of the timeout check                    *)
  end,       (* end of the walk, set before it                             *)
  flags,     (* conn_state, shared with the handlers                       *)
  started,   (* has_started_signal                                         *)
  killed,    (* server_killed                                              *)
  killAck,   (* kill_ack                                                   *)
  jobs,      (* ServerHandlerArgs dispatched and not handled yet           *)
  answers,   (* whose requests were answered to whom (history)             *)
  refused    (* refused for the number of their address (history)          *)

net == <<backlog, peer, sent, pending>>
set == <<pfds, ips, len>>
walk == <<idx, end>>
signals == <<started, killed, killAck>>
history == <<answers, refused>>
vars == <<net, connAt, set, pc, walk, flags, signals, jobs, history>>

Fds == 0..(NFds - 1)
Events == {"IN", "ERR", "HUP", "NVAL"}
Keys == {KeyOf[IpOf[c]] : c \in Conns}
Pfd == [fd : Fds, revents : SUBSET Events]
Job == [from : Conns, fd : Fds, closed : BOOLEAN]
Answer == [from : Conns, to : Conns, closed : BOOLEAN]

(* A pollfd as it is made for a new connection, or reset.                  *)
Fresh(f) == [fd |-> f, revents |-> {}]

(* The conversion of int to size_t in the comparison with the count.       *)
Unsigned(n) == n % SizeRange

Init ==
  /\ backlog = <<>> /\ peer = [c \in Conns |-> "idle"]
  /\ sent = [c \in Conns |-> 0] /\ pending = [c \in Conns |-> 0]
  /\ connAt = [f \in Fds |-> NoConn]
  /\ pfds = [i \in 0..(Cap - 1) |-> Fresh(0)]
  /\ ips = [i \in 0..(Cap - 1) |-> CHOOSE k \in Keys : TRUE]
  /\ len = 0 /\ idx = 0 /\ end = 0
  /\ pc = "launch" /\ flags = {}
  /\ started = FALSE /\ killed = FALSE /\ killAck = FALSE
  /\ jobs = EmptyBag /\ answers = {} /\ refused = {}

-----------------------------------------------------------------------------
(* The peers, and whoever stops the server.                                *)

Listening == pc \notin {"launch", "bind", "failed", "done", "crashed"}

(* The connections the other side can still use.                           *)
Alive == {c \in Conns : \/ \E i \in DOMAIN backlog : backlog[i] = c
                        \/ \E f \in Fds : connAt[f] = c}

Connect(c) ==
  /\ Listening /\ peer[c] = "idle"
  /\ peer' = [peer EXCEPT ![c] = "open"]
  /\ backlog' = Append(backlog, c)
  /\ UNCHANGED <<sent, pending, connAt, set, pc, walk, flags, signals, jobs, history>>

Send(c) ==
  /\ c \in Alive /\ peer[c] = "open" /\ sent[c] < MaxRequests
  /\ sent' = [sent EXCEPT ![c] = @ + 1]
  /\ pending' = [pending EXCEPT ![c] = @ + 1]
  /\ UNCHANGED <<backlog, peer, connAt, set, pc, walk, flags, signals, jobs, history>>

(* The peer shuts the connection down, or aborts it.                       *)
Leave(c, how) ==
  /\ c \in Alive /\ peer[c] \in {"open", "fin"} \ {how}
  /\ peer' = [peer EXCEPT ![c] = how]
  /\ UNCHANGED <<backlog, sent, pending, connAt, set, pc, walk, flags, signals, jobs,
                 history>>

Kill ==
  /\ ~killed /\ killed' = TRUE
  /\ UNCHANGED <<net, connAt, set, pc, walk, flags, started, killAck, jobs, history>>

-----------------------------------------------------------------------------
(* Starting, the test of the loop, and accepting.                          *)

Launch ==
  /\ pc = "launch" /\ pc' = "bind" /\ started' = TRUE
  /\ UNCHANGED <<net, connAt, set, walk, flags, killed, killAck, jobs, history>>

Bind ==
  /\ pc = "bind" /\ pc' \in {"test"} \cup {x \in {"failed"} : BindMayFail}
  /\ UNCHANGED <<net, connAt, set, walk, flags, signals, jobs, history>>

(* Mutant of LoopTest: only the handlers can stop the server.              *)
LoopTestFlags ==
  /\ pc = "test"
  /\ pc' = IF "stop_server" \in flags THEN "shutdown" ELSE "accept"
  /\ UNCHANGED <<net, connAt, set, walk, flags, signals, jobs, history>>

LoopTest ==
  /\ pc = "test"
  /\ pc' = IF killed \/ "stop_server" \in flags THEN "shutdown" ELSE "accept"
  /\ UNCHANGED <<net, connAt, set, walk, flags, signals, jobs, history>>

FreeFds == {f \in Fds : connAt[f] = NoConn}
(* Mutant of CanAccept: the capacity is not looked at.                     *)
CanAcceptAlways == pc = "accept" /\ backlog # <<>> /\ FreeFds # {}

CanAccept == pc = "accept" /\ len < Cap /\ backlog # <<>> /\ FreeFds # {}

(* The kernel gives the lowest free descriptor.                            *)
NewFd == CHOOSE f \in FreeFds : \A g \in FreeFds : f <= g

CountOfKey(k) == Cardinality(SlotsOf(ips, len, k))
HeadKey == KeyOf[IpOf[Head(backlog)]]

(* Mutant of BelowLimit: one more than the limit.                          *)
AtMostLimit == CountOfKey(HeadKey) <= Unsigned(MaxPerIp)

BelowLimit == CountOfKey(HeadKey) < Unsigned(MaxPerIp)

(* An accepted connection that is in the set; an equal pollfd that is      *)
(* there already is left as it is, with the address it was added with.     *)
AcceptConn ==
  /\ CanAccept /\ BelowLimit
  /\ connAt' = [connAt EXCEPT ![NewFd] = Head(backlog)]
  /\ backlog' = Tail(backlog)
  /\ IF Find(pfds, len, Fresh(NewFd)) # NotFound
       THEN UNCHANGED set
       ELSE /\ pfds' = [pfds EXCEPT ![len] = Fresh(NewFd)]
            /\ ips' = [ips EXCEPT ![len] = HeadKey]
            /\ len' = len + 1
  /\ UNCHANGED <<peer, sent, pending, pc, walk, flags, signals, jobs, history>>

(* Its address has too many entries: it is accepted and closed.            *)
AcceptRefuse ==
  /\ CanAccept /\ ~BelowLimit
  /\ backlog' = Tail(backlog)
  /\ refused' = refused \cup {Head(backlog)}
  /\ UNCHANGED <<peer, sent, pending, connAt, set, pc, walk, flags, signals, jobs, answers>>

(* setSocketNoDelay fails: the same, for another reason.                   *)
AcceptFail ==
  /\ CanAccept /\ backlog' = Tail(backlog)
  /\ UNCHANGED <<peer, sent, pending, connAt, set, pc, walk, flags, signals, jobs, history>>

AcceptDone ==
  /\ pc = "accept" /\ ~CanAccept /\ pc' = "poll"
  /\ UNCHANGED <<net, connAt, set, walk, flags, signals, jobs, history>>

-----------------------------------------------------------------------------
(* Polling: a snapshot of the events is written into the first len pollfds.*)

EventsAt(f) ==
  LET c == connAt[f] IN
  CASE c = NoConn -> {"NVAL"}
    [] c # NoConn /\ peer[c] = "rst" -> {"IN", "ERR", "HUP"}
    [] c # NoConn /\ peer[c] # "rst" ->
         {e \in {"IN"} : pending[c] > 0 \/ peer[c] = "fin"}

(* Mutant of Poll: the last pollfd is left out.                            *)
PollTooFew ==
  /\ pc = "poll" /\ pc' = "walk" /\ idx' = 0 /\ end' = len
  /\ pfds' = [i \in DOMAIN pfds |->
                IF i < len - 1 THEN [fd |-> pfds[i].fd, revents |-> EventsAt(pfds[i].fd)]
                               ELSE pfds[i]]
  /\ UNCHANGED <<net, connAt, ips, len, flags, signals, jobs, history>>

Poll ==
  /\ pc = "poll" /\ pc' = "walk" /\ idx' = 0 /\ end' = len
  /\ pfds' = [i \in DOMAIN pfds |->
                IF i < len THEN [fd |-> pfds[i].fd, revents |-> EventsAt(pfds[i].fd)]
                           ELSE pfds[i]]
  /\ UNCHANGED <<net, connAt, ips, len, flags, signals, jobs, history>>

-----------------------------------------------------------------------------
(* The walk.  end stays where it was while the set shrinks: what lies      *)
(* between len and end are stale copies of the last pollfds.               *)

AtSlot == pc = "walk" /\ idx < end
Slot == pfds[idx]
SlotConn == connAt[Slot.fd]
Readable == AtSlot /\ "IN" \in Slot.revents

(* mcfsSetRemove of p from the set when its pollfds are ps.                *)
Remove(ps, p) ==
  LET i == Find(ps, len, p) IN
  IF i = NotFound
    THEN pfds' = ps /\ UNCHANGED <<ips, len>>
    ELSE pfds' = Shift(ps, len, i) /\ ips' = Shift(ips, len, i) /\ len' = len - 1

(* pfd->revents = 0, and the removal of what is then in the slot; pfd--    *)
(* undoes the step of the walk.                                            *)
SlotReset == [pfds EXCEPT ![idx] = Fresh(@.fd)]
DropSlot == Remove(SlotReset, Fresh(Slot.fd)) /\ UNCHANGED walk

CloseFd(f) == connAt' = [connAt EXCEPT ![f] = NoConn]

(* Mutant of Dispatch: the fd is read from the slot after the removal.     *)
DispatchLate(isClosed) ==
  /\ jobs' = jobs (+) SetToBag({[from |-> SlotConn, fd |-> pfds'[idx].fd,
                                 closed |-> isClosed]})
  /\ pc' = IF isClosed THEN "handleLast" ELSE "handle"

Dispatch(isClosed) ==
  /\ jobs' = jobs (+) SetToBag({[from |-> SlotConn, fd |-> Slot.fd, closed |-> isClosed]})
  /\ pc' = IF isClosed THEN "handleLast" ELSE "handle"

SkipSlot ==
  /\ AtSlot /\ Slot.revents = {} /\ idx' = idx + 1
  /\ UNCHANGED <<net, connAt, set, pc, end, flags, signals, jobs, history>>

(* ERR, HUP or NVAL without IN.  The removal looks for the bytes of the    *)
(* pointer to the pollfd, which are not in the set: the entry stays.       *)
ResetSlot ==
  /\ AtSlot /\ Slot.revents # {} /\ "IN" \notin Slot.revents
  /\ pfds' = SlotReset
  /\ UNCHANGED <<net, connAt, ips, len, pc, walk, flags, signals, jobs, history>>

(* Mutant of RecvEnd: recvAllData leaves the closing to the server.        *)
RecvEndOpen ==
  /\ Readable /\ MaxRequestSize > 0
  /\ \/ SlotConn = NoConn
     \/ /\ SlotConn # NoConn
        /\ peer[SlotConn] = "rst" \/ (peer[SlotConn] = "fin" /\ pending[SlotConn] = 0)
  /\ DropSlot
  /\ flags' = flags \ {"discard_conn"}
  /\ UNCHANGED <<net, connAt, pc, signals, jobs, history>>

(* recvAllData: NVAL, an abort, or the end of the stream and nothing else. *)
RecvEnd ==
  /\ Readable /\ MaxRequestSize > 0
  /\ \/ SlotConn = NoConn
     \/ /\ SlotConn # NoConn
        /\ peer[SlotConn] = "rst" \/ (peer[SlotConn] = "fin" /\ pending[SlotConn] = 0)
  /\ CloseFd(Slot.fd) /\ DropSlot
  /\ flags' = flags \ {"discard_conn"}
  /\ UNCHANGED <<net, pc, signals, jobs, history>>

(* recvAllData takes what is pending, up to max_request_size: what is      *)
(* longer arrives in parts, and at 0 its loop is never entered.            *)
Receiving(c) ==
  /\ Readable /\ MaxRequestSize > 0
  /\ SlotConn = c /\ peer[c] # "rst" /\ pending[c] > 0

(* The data and then the end of the stream, if there is room for more: the *)
(* handler gets a closed fd.                                               *)
RecvLast ==
  \E c \in Conns :
    /\ Receiving(c) /\ peer[c] = "fin" /\ pending[c] < MaxRequestSize
    /\ pending' = [pending EXCEPT ![c] = 0]
    /\ CloseFd(Slot.fd) /\ DropSlot /\ Dispatch(TRUE)
    /\ UNCHANGED <<backlog, peer, sent, flags, signals, history>>

(* Data, until there is no more, the limit is reached or the controller is *)
(* satisfied.  The time of last use is stored through a pointer that is    *)
(* NULL if the pollfd in the slot is not in the set.                       *)
RecvData ==
  \E c \in Conns : \E n \in 1..pending[c] :
    /\ Receiving(c) /\ n <= MaxRequestSize
    /\ pending' = [pending EXCEPT ![c] = @ - n]
    /\ UNCHANGED set
    /\ IF Find(pfds, len, Slot) = NotFound
         THEN pc' = "crashed" /\ UNCHANGED jobs
         ELSE Dispatch(FALSE)
    /\ UNCHANGED <<backlog, peer, sent, connAt, walk, flags, signals, history>>

(* The controller rejects what was received: closed if it was in the set.  *)
RecvReject ==
  \E c \in Conns : \E n \in 1..pending[c] :
    /\ Receiving(c) /\ n <= MaxRequestSize
    /\ pending' = [pending EXCEPT ![c] = @ - n]
    /\ DropSlot
    /\ IF Find(SlotReset, len, Fresh(Slot.fd)) = NotFound
         THEN UNCHANGED connAt ELSE CloseFd(Slot.fd)
    /\ flags' = flags \ {"discard_conn"}
    /\ UNCHANGED <<backlog, peer, sent, pc, signals, jobs, history>>

(* recvAllData returns nothing: max_request_size is 0, or the slot's event *)
(* is out of date and the timeout strikes (if it has none, it waits for as *)
(* long as the peer is silent).  The entry goes, and its fd stays open.    *)
RecvNothing ==
  /\ Readable
  /\ \/ MaxRequestSize = 0
     \/ /\ SlotConn # NoConn /\ RecvTimesOut
        /\ peer[SlotConn] = "open" /\ pending[SlotConn] = 0
  /\ DropSlot
  /\ flags' = flags \ {"discard_conn"}
  /\ UNCHANGED <<net, connAt, pc, signals, jobs, history>>

(* Mutant of AfterHandle: the events of a slot are reset once handled.     *)
ResetAfterHandle ==
  /\ pc \in {"handle", "handleLast"} /\ (Pooled \/ jobs = EmptyBag)
  /\ pfds' = IF pc = "handle" THEN SlotReset ELSE pfds
  /\ idx' = IF pc = "handle" THEN idx + 1 ELSE idx
  /\ pc' = "walk" /\ flags' = flags \ {"discard_conn"}
  /\ UNCHANGED <<net, connAt, ips, len, end, signals, jobs, history>>

(* threadPoolDispatchWork has returned: without workers, after the handler *)
(* has run.  The removals look for the bytes of the pointer again, so that *)
(* the slot is reset and visited once more, and its entry stays.           *)
AfterHandle ==
  /\ pc \in {"handle", "handleLast"} /\ (Pooled \/ jobs = EmptyBag)
  /\ LET resets == "discard_conn" \in flags \/ Slot.revents # {"IN"} IN
     /\ pfds' = IF pc = "handle" /\ resets THEN SlotReset ELSE pfds
     /\ idx' = IF pc = "handle" /\ ~resets THEN idx + 1 ELSE idx
  /\ pc' = "walk" /\ flags' = flags \ {"discard_conn"}
  /\ UNCHANGED <<net, connAt, ips, len, end, signals, jobs, history>>

WalkDone ==
  /\ pc = "walk" /\ idx = end /\ pc' = "expire" /\ idx' = 0
  /\ UNCHANGED <<net, connAt, set, end, flags, signals, jobs, history>>

-----------------------------------------------------------------------------
(* The check for connection timeouts.                                      *)

(* The entry at idx is removed, and the fd of what is at idx then closed.  *)
Expire ==
  /\ pc = "expire" /\ Expiring /\ idx < len
  /\ Remove(pfds, Slot) /\ CloseFd(pfds'[idx].fd)
  /\ UNCHANGED <<net, pc, walk, flags, signals, jobs, history>>

(* Mutant of Keep: the check goes on behind the last entry.                *)
KeepTooFar ==
  /\ pc = "expire" /\ idx <= len /\ idx' = idx + 1
  /\ UNCHANGED <<net, connAt, set, pc, end, flags, signals, jobs, history>>

Keep ==
  /\ pc = "expire" /\ idx < len /\ idx' = idx + 1
  /\ UNCHANGED <<net, connAt, set, pc, end, flags, signals, jobs, history>>

ExpireDone ==
  /\ pc = "expire" /\ idx = len /\ pc' = "test"
  /\ UNCHANGED <<net, connAt, set, walk, flags, signals, jobs, history>>

(* Mutant of Shutdown: the first entry is skipped.                         *)
ShutdownTooFew ==
  /\ pc = "shutdown" /\ pc' = "done" /\ killAck' = TRUE
  /\ connAt' = [f \in Fds |-> IF \E i \in 1..(len - 1) : pfds[i].fd = f
                                THEN NoConn ELSE connAt[f]]
  /\ len' = 0 /\ backlog' = <<>>
  /\ UNCHANGED <<peer, sent, pending, pfds, ips, walk, flags, started, killed, jobs, history>>

(* What is in the set is closed, the set destroyed and the socket closed.  *)
Shutdown ==
  /\ pc = "shutdown" /\ pc' = "done" /\ killAck' = TRUE
  /\ connAt' = [f \in Fds |-> IF \E i \in 0..(len - 1) : pfds[i].fd = f
                                THEN NoConn ELSE connAt[f]]
  /\ len' = 0 /\ backlog' = <<>>
  /\ UNCHANGED <<peer, sent, pending, pfds, ips, walk, flags, started, killed, jobs, history>>

-----------------------------------------------------------------------------
(* A handler like the tests': it answers through sendAllData, which closes *)
(* an aborted connection and does nothing on a descriptor that is closed.  *)
Handle(j) ==
  /\ pc # "crashed" /\ jobs' = jobs (-) SetToBag({j})
  /\ LET c == connAt[j.fd] IN
     \/ /\ c = NoConn /\ UNCHANGED <<connAt, answers>>
     \/ /\ c # NoConn /\ peer[c] = "rst" /\ CloseFd(j.fd) /\ UNCHANGED answers
     \/ /\ c # NoConn /\ peer[c] # "rst"
        /\ answers' = answers \cup {[from |-> j.from, to |-> c, closed |-> j.closed]}
        /\ UNCHANGED connAt
  /\ \E set_flags \in SUBSET HandlerFlags : flags' = flags \cup set_flags
  /\ UNCHANGED <<net, set, pc, walk, signals, refused>>

ServerStep ==
  \/ Launch \/ Bind \/ LoopTest
  \/ AcceptConn \/ AcceptRefuse \/ AcceptFail \/ AcceptDone
  \/ Poll \/ SkipSlot \/ ResetSlot \/ RecvEnd \/ RecvLast \/ RecvData \/ RecvReject
  \/ RecvNothing \/ AfterHandle \/ WalkDone \/ Expire \/ Keep \/ ExpireDone \/ Shutdown

HandlerStep == \E j \in BagToSet(jobs) : Handle(j)

Next ==
  \/ \E c \in Conns : Connect(c) \/ Send(c) \/ \E how \in {"fin", "rst"} : Leave(c, how)
  \/ Kill \/ ServerStep \/ HandlerStep

Spec == Init /\ [][Next]_vars

(* The threads run; the peers, and whoever kills the server, need not.     *)
FairSpec == Spec /\ WF_vars(ServerStep) /\ WF_vars(HandlerStep)

-----------------------------------------------------------------------------
(* Properties                                                              *)

NetOK ==
  /\ backlog \in Seq(Conns) /\ peer \in [Conns -> {"idle", "open", "fin", "rst"}]
  /\ sent \in [Conns -> 0..MaxRequests] /\ pending \in [Conns -> 0..MaxRequests]
  /\ connAt \in [Fds -> Conns \cup {NoConn}]

SetOK ==
  /\ pfds \in [0..(Cap - 1) -> Pfd] /\ ips \in [0..(Cap - 1) -> Keys]
  /\ len \in 0..Cap

LoopOK ==
  /\ idx \in 0..Cap /\ end \in 0..Cap
  /\ pc \in {"launch", "bind", "failed", "test", "accept", "poll", "walk", "handle",
             "handleLast", "expire", "shutdown", "done", "crashed"}
  /\ {started, killed, killAck} \subseteq BOOLEAN

HandlerOK ==
  /\ flags \subseteq HandlerFlags /\ BagToSet(jobs) \subseteq Job
  /\ answers \subseteq Answer /\ refused \subseteq Conns

(* The set stays within its arrays, and the walk within what was polled.   *)
TypeOK == NetOK /\ SetOK /\ LoopOK /\ HandlerOK

OpenFds == {f \in Fds : connAt[f] # NoConn}
InSet(f) == \E i \in 0..(len - 1) : pfds[i].fd = f

(* A connection that is open is in the set: it is polled, counted and      *)
(* closed in the end, however slots move and are visited twice.  This      *)
(* needs a limit on requests, and that none times out or is discarded.     *)
OpenConnsAreInTheSet == \A f \in OpenFds : InSet(f)

(* server.h:50: once kill_ack is set, all connections have been closed.    *)
KillAckMeansClosed == killAck => OpenFds = {}

(* server.h:39: no more than max_concurrent_connections are open.          *)
OpenWithinCap == Cardinality(OpenFds) <= Cap

(* No address, as it is stored, has more entries than max_conns_per_ip.    *)
EntriesWithinLimit == \A k \in Keys : CountOfKey(k) <= Unsigned(MaxPerIp)

(* Why: the walk has not reached its end while a handler runs, and what is *)
(* pending was sent.                                                       *)
IInv ==
  /\ TypeOK /\ EntriesWithinLimit
  /\ \A c \in Conns : pending[c] <= sent[c]
  /\ pc \in {"handle", "handleLast"} => idx < end

(* A connection is behind one descriptor, or waits in the backlog once.    *)
Queued(c) == \E i \in DOMAIN backlog : backlog[i] = c
ConnsDistinct ==
  /\ \A i, j \in DOMAIN backlog : backlog[i] = backlog[j] => i = j
  /\ \A f, g \in OpenFds : connAt[f] = connAt[g] => f = g
  /\ \A f \in OpenFds : ~Queued(connAt[f]) /\ peer[connAt[f]] # "idle"
  /\ \A c \in Conns : Queued(c) => peer[c] # "idle"

(* While the array is walked, a slot that is readable, of a connection     *)
(* that is not aborted, has an equal entry in the set.  If there is        *)
(* nothing to receive any more, that entry lies behind the walk: dropping  *)
(* the slot, a stale copy, leaves it in the set.                           *)
Walking == pc \in {"walk", "handle", "handleLast"}
Usable(f) == f \in OpenFds /\ peer[connAt[f]] # "rst"
Drained(f) == peer[connAt[f]] = "open" /\ pending[connAt[f]] = 0
Visited(j) == j < idx \/ (pc = "handle" /\ j = idx)
EventsOK == \A i \in 0..(end - 1) : Usable(pfds[i].fd) => pfds[i].revents \subseteq {"IN"}
SlotsBacked ==
  \A i \in idx..(end - 1) :
    Usable(pfds[i].fd) /\ "IN" \in pfds[i].revents =>
      \E j \in 0..(len - 1) : pfds[j] = pfds[i] /\ (Drained(pfds[i].fd) => Visited(j))
WalkBacked ==
  /\ Walking => len <= end /\ EventsOK /\ SlotsBacked
  /\ pc = "handle" => pfds[idx].revents = {"IN"}

(* The server has a limit on requests, and receives.                       *)
HasLimit == MaxRequestSize > 0

(* Why no pointer is NULL, if no handler discards a connection.            *)
NoDiscard == "discard_conn" \notin HandlerFlags
WalkInv == ConnsDistinct /\ WalkBacked /\ pc # "crashed"

(* Why connections stay in the set, if none times out either.              *)
SetInv ==
  /\ WalkInv /\ OpenConnsAreInTheSet
  /\ killAck => pc = "done" /\ OpenFds = {}

(* Why answers reach the requester without workers: a job is handled       *)
(* before threadPoolDispatchWork returns, on the descriptor it came from.  *)
JobsInv ==
  /\ pc \notin {"handle", "handleLast"} => BagToSet(jobs) = {}
  /\ \A j \in BagToSet(jobs) : connAt[j.fd] \in {j.from, NoConn}
  /\ \A a \in answers : a.from = a.to

(* What was received from a connection is answered on that connection.     *)
AnswersReachTheRequester == \A a \in answers : a.from = a.to

(* The time of last use is never stored through a NULL pointer.            *)
NoCrash == pc # "crashed"

(* A server that is told to stop acknowledges.                             *)
KillIsAcknowledged == killed ~> killAck

(* A request that arrived on an open connection is received, unless the    *)
(* connection is closed.                                                   *)
RequestIsReceived ==
  \A f \in Fds, c \in Conns :
    connAt[f] = c /\ pending[c] > 0 ~> connAt[f] # c \/ pending[c] = 0

-----------------------------------------------------------------------------
(* What the documentation or an assert says and the code does not do: TLC  *)
(* refutes each of these; README.md tells with which constants, and how.   *)

(* server.h:36 hands the handler the data, the fd and sock_is_closed: if   *)
(* it is not closed, the fd is where the data came from.                   *)
OpenSocketIsTheRequesters == \A a \in answers : ~a.closed => a.from = a.to

(* mcfss.h:8: the type "represents a set", to which what is present is not *)
(* added again: no two of its keys, the pollfds, become equal.             *)
EntriesAreASet == \A i, j \in 0..(len - 1) : pfds[i] = pfds[j] => i = j

(* testing_helpers.h:255 waits for has_started "for server to start": from *)
(* then on until it stops, it can be connected to.                         *)
StartedMeansListening == started /\ ~killed => Listening

(* server.h:42: no more connections of an address are open than allowed,   *)
(* and a negative limit stands for 4.                                      *)
OpenFrom(a) == {f \in OpenFds : IpOf[connAt[f]] = a}
PerIpLimit ==
  \A a \in {IpOf[c] : c \in Conns} :
    Cardinality(OpenFrom(a)) <= IF MaxPerIp < 0 THEN 4 ELSE MaxPerIp

(* server.h:42 again: a connection is refused for the connections of its   *)
(* own address only.                                                       *)
RefusedForItsOwnAddress ==
  [][\A c \in refused' \ refused : Cardinality(OpenFrom(IpOf[c])) >= Unsigned(MaxPerIp)]_vars
=============================================================================
