-------------------------- MODULE HttpClient_proofs --------------------------
(***************************************************************************)
(* Proofs about HttpClient, for any number of calls, any requests,         *)
(* responses and limits: a descriptor is closed by one party, and is_open  *)
(* says whether the connection of a session is open.  And, for a caller    *)
(* that sets no limit, that the receive controller cuts the stream of what *)
(* the peer sends where a response ends.                                   *)
(***************************************************************************)
EXTENDS HttpClient, FiniteSetTheorems, SequenceTheorems, WellFoundedInduction, TLAPS

-----------------------------------------------------------------------------
(* Types                                                                   *)

(* A response is a sequence of units.                                      *)
LEMMA ResponseType ==
  ASSUME NEW n \in 1..MaxCalls, NEW kind \in Kinds
  PROVE  Response(n, kind) \in Seq(Unit)
BY ClientAssumption DEF Response, Unit

(* What is taken from the front of a sequence, and what remains.           *)
LEMMA SplitType ==
  ASSUME NEW T, NEW s \in Seq(T), NEW m \in 0..Len(s)
  PROVE  SubSeq(s, 1, m) \in Seq(T) /\ SubSeq(s, m + 1, Len(s)) \in Seq(T)
BY SubSeqProperties

(* optMin of two integers is one.                                          *)
LEMMA OptMinType ==
  ASSUME NEW a \in Int, NEW b \in Int
  PROVE  optMin(a, b) \in Int
BY DEF optMin

(* Where the header ends, when its end has been received.                  *)
LEMMA HeaderSizeType ==
  ASSUME NEW b \in Seq(Unit), HasHeader(b)
  PROVE  HeaderSize(b) \in 1..Len(b)
<1> DEFINE R == OpToRel(<, Nat)
           Ends == {i \in DOMAIN b : b[i].at = HeaderEnd}
<1>1. Ends \in SUBSET Nat /\ Ends # {}
  BY DEF HasHeader
<1>2. IsWellFoundedOn(R, Nat)
  BY NatLessThanWellFounded
<1>3. \A i, j \in Nat : <<j, i>> \notin R => i <= j
  BY DEF OpToRel
<1>4. PICK i \in Ends : \A j \in Ends : <<j, i>> \notin R
  <2> HIDE DEF R, Ends
  <2> QED BY <1>1, <1>2, WFMin, Zenon
<1>5. \A j \in Ends : i <= j
  BY <1>1, <1>3, <1>4
<1>6. i \in DOMAIN b /\ b[i].at = HeaderEnd /\ \A j \in 1..(i - 1) : b[j].at # HeaderEnd
  BY <1>5
<1> QED BY <1>6 DEF HeaderSize

(* The controller's state keeps its type.                                  *)
LEMMA ControllerType ==
  ASSUME NEW b \in Seq(Unit),
         NEW c \in Ctls
  PROVE  Controller(c, b) \in Ctls
<1>1. NextBatch(Len(b)) \in Int /\ MaxResponse \in Int
  BY ClientAssumption, OptMinType DEF NextBatch, Batch
<1>2. Total - HeaderEnd \in Nat
  BY ClientAssumption
<1>3. ASSUME HasHeader(b)
      PROVE  optMin(Total - HeaderEnd + HeaderSize(b) - (Len(b) - HeaderSize(b)),
                    MaxResponse) \in Int
  <2>1. Total - HeaderEnd + HeaderSize(b) - (Len(b) - HeaderSize(b)) \in Int
    BY <1>2, <1>3, HeaderSizeType
  <2> QED BY <1>1, <2>1, OptMinType
<1>4. ASSUME NEW d \in Ctls, NEW x \in Int
      PROVE  [d EXCEPT !.max = x] \in Ctls
  BY <1>4 DEF Ctls
<1>5. ASSUME NEW d \in Ctls, NEW x \in {1, 2, 3, 4}
      PROVE  [d EXCEPT !.phase = x] \in Ctls
  BY <1>5 DEF Ctls
<1>6. ASSUME NEW d \in Ctls, NEW x \in {"none", "1.0", "1.1"}
      PROVE  [d EXCEPT !.version = x] \in Ctls
  BY <1>6 DEF Ctls
<1>7. ASSUME NEW d \in Ctls, NEW x \in Nat
      PROVE  [d EXCEPT !.clen = x] \in Ctls
  BY <1>7 DEF Ctls
<1>8. ASSUME NEW d \in Ctls
      PROVE  [d EXCEPT !.act = "reject"] \in Ctls
  BY <1>8 DEF Ctls
<1>9. [c EXCEPT !.phase = 1, !.max = NextBatch(Len(b))] \in Ctls
  <2>1. [c EXCEPT !.phase = 1] \in Ctls
    BY <1>5
  <2> QED BY <1>1, <1>4, <2>1
<1>10. [c EXCEPT !.max = NextBatch(Len(b))] \in Ctls
  BY <1>1, <1>4
<1>11. [c EXCEPT !.max = NextBatch(Len(b)), !.act = "reject"] \in Ctls
  BY <1>1, <1>4, <1>8
<1>12. [c EXCEPT !.version = "1.0", !.phase = 2, !.max = MaxResponse] \in Ctls
  <2>1. [c EXCEPT !.version = "1.0"] \in Ctls
    BY <1>6
  <2>2. [c EXCEPT !.version = "1.0", !.phase = 2] \in Ctls
    BY <1>5, <2>1
  <2> QED BY <1>1, <1>4, <2>2
<1>13. [c EXCEPT !.version = "1.1", !.phase = 2, !.max = NextBatch(Len(b))] \in Ctls
  <2>1. [c EXCEPT !.version = "1.1"] \in Ctls
    BY <1>6
  <2>2. [c EXCEPT !.version = "1.1", !.phase = 2] \in Ctls
    BY <1>5, <2>1
  <2> QED BY <1>1, <1>4, <2>2
<1>14. [c EXCEPT !.phase = 3, !.act = "reject"] \in Ctls
  <2>1. [c EXCEPT !.phase = 3] \in Ctls
    BY <1>5
  <2> QED BY <1>8, <2>1
<1>15. HasHeader(b) =>
         [c EXCEPT !.phase = 4, !.clen = Total - HeaderEnd,
                   !.max = optMin(Total - HeaderEnd + HeaderSize(b)
                                  - (Len(b) - HeaderSize(b)), MaxResponse)] \in Ctls
  <2>1. [c EXCEPT !.phase = 4] \in Ctls
    BY <1>5
  <2>2. [c EXCEPT !.phase = 4, !.clen = Total - HeaderEnd] \in Ctls
    BY <1>2, <1>7, <2>1
  <2> QED BY <1>3, <1>4, <2>2
<1> QED BY <1>9, <1>10, <1>11, <1>12, <1>13, <1>14, <1>15, Zenon DEF Controller

(* What any of the functions returns.                                      *)
LEMMA GiveType ==
  ASSUME NEW err \in {-1, 0, 1}, NEW closed \in BOOLEAN, Give(err, closed)
  PROVE  ret' \in Rets
BY DEF Give, Rets

(* What recvAllData returns at done.                                       *)
LEMMA RecvDoneType ==
  ASSUME result \in Results, NEW err \in {-1, 0, 1}, NEW closed \in BOOLEAN,
         NEW b \in Seq(Unit), NEW c, RecvDone(err, closed, b, c)
  PROVE  ret' \in Rets /\ result' \in Results /\ pc' = "waitDone"
<1> DEFINE e == IF c.max >= 0 /\ Len(b) > c.max THEN 1 ELSE err
           out == IF e = 0 THEN b ELSE <<>>
<1>1. e \in {-1, 0, 1}
  OBVIOUS
<1>2. out \in Seq(Unit)
  OBVIOUS
<1>3. /\ ret' = [err |-> e, closed |-> closed] /\ pc' = "waitDone"
      /\ result' = [result EXCEPT !.set = (e = 0), !.out = out]
  BY DEF RecvDone, Give
<1> HIDE DEF e, out
<1> QED BY <1>1, <1>2, <1>3 DEF Rets, Results

-----------------------------------------------------------------------------
(* The steps keep the types.                                               *)

(* Those of the peer.                                                      *)
LEMMA PeerKeepsTypes ==
  ASSUME TypeOK, PeerStep
  PROVE  TypeOK'
<1> USE DEF TypeOK, fd, sess, locals
<1>1. ASSUME NEW how \in Ways, Leave(how)
      PROVE  TypeOK'
  BY <1>1 DEF Leave, Ways
<1>2. ASSUME NEW kind \in Kinds, Answer(kind)
      PROVE  TypeOK'
  <2>1. Head(asked) \in 1..MaxCalls /\ Tail(asked) \in Seq(1..MaxCalls)
    BY <1>2, HeadTailProperties DEF Answer
  <2>2. Response(Head(asked), kind) \in Seq(Unit)
    BY <2>1, ResponseType
  <2>3. outgoing' \in Seq(Unit)
    BY <1>2, <2>2, ConcatProperties DEF Answer
  <2> QED BY <1>2, <2>1, <2>3 DEF Answer
<1>3. CASE Deliver
  <2>1. PICK m \in 1..Len(outgoing) :
          /\ inbuf' = inbuf \o SubSeq(outgoing, 1, m)
          /\ outgoing' = SubSeq(outgoing, m + 1, Len(outgoing))
    BY <1>3 DEF Deliver
  <2>2. m \in 0..Len(outgoing)
    OBVIOUS
  <2>3. SubSeq(outgoing, 1, m) \in Seq(Unit) /\ SubSeq(outgoing, m + 1, Len(outgoing)) \in Seq(Unit)
    BY <2>2, SplitType
  <2>4. inbuf' \in Seq(Unit) /\ outgoing' \in Seq(Unit)
    BY <2>1, <2>3, ConcatProperties
  <2> QED BY <1>3, <2>4 DEF Deliver
<1> QED BY <1>1, <1>2, <1>3 DEF PeerStep

(* Those that open, close and begin.                                       *)
LEMMA BeginsKeepTypes ==
  ASSUME TypeOK, Begins
  PROVE  TypeOK'
<1> USE ClientAssumption DEF TypeOK, fd, net, sess, locals, NewConnection
<1>1. NoResult \in Results /\ NoCtl \in Ctls /\ [err |-> 0, closed |-> FALSE] \in Rets
  BY DEF NoResult, NoCtl, Results, Ctls, Rets
<1>2. call.n < MaxCalls => call.n + 1 \in 0..MaxCalls
  OBVIOUS
<1>3. CASE OpenSession
  <2>1. CASE UNCHANGED <<fd, net, sess>> /\ pc' = "aborted"
    BY <1>1, <1>3, <2>1 DEF OpenSession
  <2>2. CASE NewConnection /\ isOpen' = TRUE /\ UNCHANGED pc
    <3>1. <<>> \in Seq(1..MaxCalls) /\ <<>> \in Seq(Unit)
      OBVIOUS
    <3> QED BY <1>1, <1>3, <2>2, <3>1 DEF OpenSession
  <2> QED BY <1>3, <2>1, <2>2 DEF OpenSession
<1>4. CASE CloseSession
  BY <1>4 DEF CloseSession, Close
<1>5. CASE BeginSession
  BY <1>1, <1>2, <1>5 DEF BeginSession, Begin, Give, CallNames
<1>6. CASE BeginConnected
  BY <1>1, <1>2, <1>6 DEF BeginConnected, Begin, Give, CallNames
<1>7. CASE BeginUnconnected
  <2>1. PICK name \in Calls \cap {"raw", "http"} :
          /\ call' = [name |-> name, n |-> call.n + 1]
          /\ result' = [NoResult EXCEPT !.name = name, !.n = call.n + 1, !.err = 1]
    BY <1>7 DEF BeginUnconnected
  <2>2. result' = [name |-> name, n |-> call.n + 1, err |-> 1, set |-> FALSE, out |-> <<>>]
    BY <2>1 DEF NoResult
  <2>3. call.n + 1 \in 0..MaxCalls /\ name \in CallNames
    BY <1>2, <1>7 DEF BeginUnconnected, CallNames
  <2>4. result' \in Results
    BY <2>2, <2>3 DEF Results
  <2> QED BY <1>7, <2>1, <2>3, <2>4 DEF BeginUnconnected
<1> QED BY <1>3, <1>4, <1>5, <1>6, <1>7 DEF Begins

(* Those of sendAllData.  A call that sends has a number.                  *)
LEMMA SendKeepsTypes ==
  ASSUME TypeOK, InCall => call.n > 0, SendStops \/ SendReady \/ Send \/ SendAll \/ SendSucceeded
  PROVE  TypeOK'
<1> USE DEF TypeOK, fd, net, sess, locals
<1>1. CASE SendStops
  <2>1. ret' \in Rets
    BY <1>1, GiveType DEF SendStops
  <2>2. UNCHANGED fd \/ Close
    BY <1>1 DEF SendStops
  <2> QED BY <1>1, <2>1, <2>2 DEF SendStops, Close
<1>2. CASE SendReady
  BY <1>2 DEF SendReady
<1>3. CASE Send
  <2>1. CASE peer = "rst"
    BY <1>3, <2>1 DEF Send
  <2>2. CASE peer # "rst"
    <3>1. PICK m \in 1..(ReqLen - sent) :
            /\ sent' = sent + m /\ got' = got + m
            /\ asked' = IF (got + m) \div ReqLen > got \div ReqLen
                          THEN Append(asked, call.n) ELSE asked
      BY <1>3, <2>2 DEF Send
    <3>2. call.n \in 1..MaxCalls
      BY <1>3 DEF Send, InCall
    <3>3. Append(asked, call.n) \in Seq(1..MaxCalls)
      BY <3>2, AppendProperties
    <3>4. asked' \in Seq(1..MaxCalls)
      BY <3>1, <3>3
    <3>5. sent' \in 0..ReqLen /\ got' \in Nat
      BY <3>1, ClientAssumption
    <3> QED BY <1>3, <2>2, <3>4, <3>5 DEF Send
  <2> QED BY <2>1, <2>2
<1>4. CASE SendAll
  BY <1>4 DEF SendAll, Give, Rets
<1>5. CASE SendSucceeded
  BY <1>5 DEF SendSucceeded
<1> QED BY <1>1, <1>2, <1>3, <1>4, <1>5

(* Those of waitThenRecvAllData and recvAllData.  In "recv" there is room. *)
LEMMA RecvKeepsTypes ==
  ASSUME TypeOK, pc = "recv" => More,
         \/ WaitStops \/ WaitReady \/ RecvEnough \/ RecvStops
         \/ RecvReady \/ RecvEof \/ Recv
  PROVE  TypeOK'
<1> USE DEF TypeOK, fd, net, sess, locals
<1>1. CASE WaitStops
  <2>1. ret' \in Rets
    BY <1>1, GiveType DEF WaitStops
  <2>2. UNCHANGED fd \/ Close
    BY <1>1 DEF WaitStops
  <2> QED BY <1>1, <2>1, <2>2 DEF WaitStops, Close
<1>2. CASE WaitReady
  <2>1. <<>> \in Seq(Unit)
    OBVIOUS
  <2>2. ctl' \in Ctls
    BY <1>2, <2>1, ControllerType DEF WaitReady
  <2> QED BY <1>2, <2>2 DEF WaitReady
<1>3. CASE RecvEnough
  <2>1. RecvDone(0, FALSE, buf, ctl)
    BY <1>3 DEF RecvEnough
  <2>2. ret' \in Rets /\ result' \in Results /\ pc' = "waitDone"
    BY <2>1, RecvDoneType
  <2> QED BY <1>3, <2>2 DEF RecvEnough
<1>4. CASE RecvStops
  <2>1. PICK err \in {-1, 0, 1}, closed \in BOOLEAN : RecvDone(err, closed, buf, ctl)
    <3>1. (IF Controlled THEN 1 ELSE 0) \in {-1, 0, 1}
      OBVIOUS
    <3> QED BY <1>4, <3>1 DEF RecvStops
  <2>2. ret' \in Rets /\ result' \in Results /\ pc' = "waitDone"
    BY <2>1, RecvDoneType
  <2>3. UNCHANGED fd \/ Close
    BY <1>4 DEF RecvStops
  <2> QED BY <1>4, <2>2, <2>3 DEF RecvStops, Close
<1>5. CASE RecvReady
  BY <1>5 DEF RecvReady
<1>6. CASE RecvEof
  <2>1. RecvDone(0, TRUE, buf, ctl)
    BY <1>6 DEF RecvEof
  <2>2. ret' \in Rets /\ result' \in Results /\ pc' = "waitDone"
    BY <2>1, RecvDoneType
  <2> QED BY <1>6, <2>2 DEF RecvEof, Close
<1>7. CASE Recv
  <2> DEFINE room == ctl.max - Len(buf)
             m == IF ctl.max < 0 \/ Len(inbuf) < room THEN Len(inbuf) ELSE room
             b == buf \o SubSeq(inbuf, 1, m)
             c == IF Controlled THEN Controller(ctl, b) ELSE ctl
  <2>1. /\ inbuf' = SubSeq(inbuf, m + 1, Len(inbuf)) /\ buf' = b /\ ctl' = c
        /\ IF c.act = "reject"
             THEN RecvDone(1, FALSE, b, c)
             ELSE pc' = "recvTest" /\ UNCHANGED <<ret, result>>
        /\ UNCHANGED <<fd, peer, got, asked, outgoing, sess, call, sent>>
    BY <1>7 DEF Recv
  <2>2. m \in 0..Len(inbuf)
    <3>1. ctl.max \in Int /\ Len(buf) \in Nat /\ Len(inbuf) \in Nat
      BY DEF Ctls
    <3>2. ctl.max < 0 \/ Len(buf) < ctl.max
      BY <1>7 DEF Recv, More
    <3> QED BY <3>1, <3>2
  <2> HIDE DEF m
  <2>3. SubSeq(inbuf, 1, m) \in Seq(Unit) /\ SubSeq(inbuf, m + 1, Len(inbuf)) \in Seq(Unit)
    BY <2>2, SplitType
  <2>4. b \in Seq(Unit)
    BY <2>3, ConcatProperties
  <2> HIDE DEF b
  <2>5. c \in Ctls
    BY <2>4, ControllerType
  <2> HIDE DEF c
  <2>6. ret' \in Rets /\ result' \in Results /\ pc' \in {"recvTest", "waitDone"}
    <3>1. CASE RecvDone(1, FALSE, b, c)
      BY <2>4, <3>1, RecvDoneType
    <3> QED BY <2>1, <3>1
  <2> QED BY <2>1, <2>3, <2>4, <2>5, <2>6
<1> QED BY <1>1, <1>2, <1>3, <1>4, <1>5, <1>6, <1>7

(* Those of the callers.                                                   *)
LEMMA ReturnsKeepTypes ==
  ASSUME TypeOK, SendFailed \/ WaitReturned
  PROVE  TypeOK' /\ result'.name = call.name
<1>1. PICK err \in {-1, 0, 1} :
        result' = [result EXCEPT !.name = call.name, !.n = call.n, !.err = err]
  <2>1. ret.err \in {-1, 0, 1}
    BY DEF TypeOK, Rets
  <2> QED BY <2>1 DEF SendFailed, WaitReturned, CallReturns
<1>2. result' \in Results /\ result'.name = call.name
  BY <1>1 DEF TypeOK, Results
<1>3. /\ pc' = "idle" /\ isOpen' \in BOOLEAN /\ UNCHANGED <<net, ended, locals, ret>>
      /\ UNCHANGED fd \/ Close
  BY DEF SendFailed, WaitReturned, CallReturns
<1> QED BY <1>2, <1>3 DEF TypeOK, fd, net, locals, Close

-----------------------------------------------------------------------------
(* The inductive invariant                                                 *)

(* IInv holds before the first call.                                       *)
LEMMA InitIInv == Init => IInv
<1> SUFFICES ASSUME Init PROVE IInv
  OBVIOUS
<1>1. NoResult \in Results /\ NoCtl \in Ctls /\ [err |-> 0, closed |-> FALSE] \in Rets
  BY ClientAssumption DEF NoResult, NoCtl, Results, Ctls, Rets
<1>2. call \in [name : CallNames \cup {"none"}, n : 0..MaxCalls]
  BY ClientAssumption DEF Init, NoCall
<1>3. sent \in 0..ReqLen /\ ended \in 0..MaxCloses
  BY ClientAssumption DEF Init
<1>4. asked \in Seq(1..MaxCalls) /\ outgoing \in Seq(Unit) /\ inbuf \in Seq(Unit) /\ buf \in Seq(Unit)
  BY DEF Init
<1>5. TypeOK
  BY <1>1, <1>2, <1>3, <1>4 DEF Init, TypeOK
<1>6. SessionState /\ CallState /\ ReturnState
  BY DEF Init, NoResult, Closings, SessionState, CallState, ReturnState, InCall, Returning
<1> QED BY <1>5, <1>6 DEF Init, IInv, Closings

(* What the peer does leaves the thread's state as it is.                  *)
LEMMA PeerKeepsIInv ==
  ASSUME IInv, PeerStep \/ UNCHANGED vars
  PROVE  IInv'
<1>1. UNCHANGED <<fd, sess, pc, locals, ret, result>>
  BY DEF PeerStep, Deliver, Answer, Leave, vars
<1>2. TypeOK'
  <2>1. CASE UNCHANGED vars
    BY <1>1, <2>1 DEF IInv, TypeOK, vars, fd, net, sess, locals
  <2> QED BY <2>1, PeerKeepsTypes DEF IInv
<1> QED BY <1>1, <1>2
        DEF IInv, Closings, SessionState, CallState, ReturnState, InCall, Returning, More,
            fd, sess, locals

(* openSession, closeSession, and the beginnings of requests.              *)
LEMMA BeginsKeepIInv ==
  ASSUME IInv, Begins
  PROVE  IInv'
<1>1. TypeOK'
  BY BeginsKeepTypes DEF IInv
<1>2. /\ sock \in {"none", "open", "closed"} /\ isOpen \in BOOLEAN /\ ended \in Nat
      /\ call.n \in Nat
  BY ClientAssumption DEF IInv, TypeOK
<1> USE <1>1, <1>2
    DEF IInv, Closings, SessionState, CallState, ReturnState, InCall, Returning, fd, sess, locals
<1>3. CASE OpenSession
  BY <1>3 DEF OpenSession, NewConnection, NoResult
<1>4. CASE CloseSession
  BY <1>4 DEF CloseSession, Close
<1>5. CASE BeginSession
  BY <1>5 DEF BeginSession, Begin, CallNames, NoResult
<1>6. CASE BeginConnected
  BY <1>6 DEF BeginConnected, Begin, NewConnection, CallNames, NoResult
<1>7. CASE BeginUnconnected
  BY <1>7 DEF BeginUnconnected, CallNames, NoResult
<1> QED BY <1>3, <1>4, <1>5, <1>6, <1>7 DEF Begins

(* sendAllData, with each of its ways to end.                              *)
LEMMA SendKeepsIInv ==
  ASSUME IInv, SendStops \/ SendReady \/ Send \/ SendAll \/ SendSucceeded
  PROVE  IInv'
<1>1. TypeOK'
  BY SendKeepsTypes DEF IInv, CallState
<1>2. sock \in {"none", "open", "closed"} /\ isOpen \in BOOLEAN /\ ended \in Nat
  BY ClientAssumption DEF IInv, TypeOK
<1> USE <1>1, <1>2, ClientAssumption
    DEF IInv, Closings, SessionState, CallState, ReturnState, InCall, Returning, fd, sess, locals
<1>3. CASE SendStops
  BY <1>3 DEF SendStops, Give, Close, PollErr, PollHup, PollNval
<1>4. CASE SendReady
  BY <1>4 DEF SendReady, PollOut
<1>5. CASE Send
  BY <1>5 DEF Send
<1>6. CASE SendAll
  BY <1>6 DEF SendAll, Give
<1>7. CASE SendSucceeded
  BY <1>7 DEF SendSucceeded
<1> QED BY <1>3, <1>4, <1>5, <1>6, <1>7

(* waitThenRecvAllData and recvAllData, likewise.  What recvAllData makes  *)
(* of too much data cannot meet a closed socket: it reads only while there *)
(* is room.                                                                *)
LEMMA RecvKeepsIInv ==
  ASSUME IInv, \/ WaitStops \/ WaitReady \/ RecvEnough \/ RecvStops
               \/ RecvReady \/ RecvEof \/ Recv
  PROVE  IInv'
<1>1. TypeOK'
  BY RecvKeepsTypes DEF IInv, CallState
<1>2. /\ sock \in {"none", "open", "closed"} /\ isOpen \in BOOLEAN /\ ended \in Nat
      /\ ctl.max \in Int /\ Len(buf) \in Nat
  BY ClientAssumption DEF IInv, TypeOK, Ctls
<1>3. RecvEof => ret' = [err |-> 0, closed |-> TRUE]
  <2>1. RecvEof => More
    BY DEF RecvEof, IInv, CallState
  <2>2. More => ~(ctl.max >= 0 /\ Len(buf) > ctl.max)
    BY <1>2 DEF More
  <2> QED BY <2>1, <2>2 DEF RecvEof, RecvDone, Give
<1> USE <1>1, <1>2
    DEF IInv, Closings, SessionState, CallState, ReturnState, InCall, Returning, fd, sess, locals
<1>4. CASE WaitStops
  BY <1>4 DEF WaitStops, Give, Close, PollErr, PollHup, PollNval
<1>5. CASE WaitReady
  BY <1>5 DEF WaitReady, PollIn
<1>6. CASE RecvEnough
  <2>1. pc' = "waitDone" /\ \E e \in {0, 1} : ret' = [err |-> e, closed |-> FALSE]
    BY <1>6 DEF RecvEnough, RecvDone, Give
  <2>2. result'.name = result.name
    BY <1>6 DEF RecvEnough, RecvDone, TypeOK, Results
  <2> QED BY <1>6, <2>1, <2>2 DEF RecvEnough
<1>7. CASE RecvStops
  <2>1. pc = "recvTest" /\ pc' = "waitDone" /\ UNCHANGED <<sess, locals>>
    BY <1>7 DEF RecvStops, RecvDone
  <2>2. CASE UNCHANGED fd /\ \E e \in {0, 1} : ret' = [err |-> e, closed |-> FALSE]
    BY <2>1, <2>2
  <2>3. CASE Close /\ ret' = [err |-> -1, closed |-> TRUE] /\ sock = "open"
    BY <2>1, <2>3 DEF Close
  <2> QED BY <1>7, <2>2, <2>3 DEF RecvStops, RecvDone, Give, More, PollErr
<1>8. CASE RecvReady
  BY <1>8 DEF RecvReady, More
<1>9. CASE RecvEof
  <2>1. pc = "recv" /\ pc' = "waitDone" /\ Close /\ UNCHANGED <<sess, locals>>
    BY <1>9 DEF RecvEof, RecvDone
  <2> QED BY <1>3, <1>9, <2>1 DEF Close
<1>10. CASE Recv
  <2>1. /\ pc = "recv" /\ UNCHANGED <<fd, sess, call, sent>>
        /\ \/ pc' = "recvTest"
           \/ pc' = "waitDone" /\ ret' = [err |-> 1, closed |-> FALSE]
    BY <1>10 DEF Recv, RecvDone, Give
  <2> QED BY <2>1
<1> QED BY <1>4, <1>5, <1>6, <1>7, <1>8, <1>9, <1>10

(* The ends of the calls: who closes, and what becomes of is_open.         *)
LEMMA ReturnKeepsIInv ==
  ASSUME IInv, SendFailed \/ WaitReturned
  PROVE  IInv'
<1>1. TypeOK' /\ result'.name = call.name
  BY ReturnsKeepTypes DEF IInv
<1>2. /\ sock \in {"none", "open", "closed"} /\ isOpen \in BOOLEAN /\ ended \in Nat
      /\ ret.err \in {-1, 0, 1} /\ ret.closed \in BOOLEAN
  BY ClientAssumption DEF IInv, TypeOK, Rets
<1> USE DEF IInv, Closings, SessionState, CallState, ReturnState, InCall, Returning,
            fd, sess, locals
<1>3. /\ Returning /\ pc' = "idle" /\ UNCHANGED <<ended, locals, ret>>
      /\ isOpen' = (isOpen /\ ~(call.name = "session" /\ ret.closed))
  BY DEF SendFailed, WaitReturned, CallReturns
<1>4. CASE call.name = "session"
  <2>1. UNCHANGED fd
    BY <1>4 DEF SendFailed, WaitReturned, CallReturns
  <2>2. isOpen /\ InCall
    BY <1>3, <1>4
  <2>3. CASE ret.closed
    BY <1>1, <1>2, <1>3, <1>4, <2>1, <2>2, <2>3
  <2>4. CASE ~ret.closed
    <3>1. sock = "open" <=> isOpen /\ ended = 0
      BY <1>2, <1>3, <2>2, <2>4
    <3>2. isOpen' /\ pc' = "idle" /\ result'.name = "session" /\ UNCHANGED <<fd, ended>>
      BY <1>1, <1>3, <1>4, <2>1, <2>2, <2>4
    <3>3. closes' = Closings' /\ SessionState'
      BY <2>2, <3>1, <3>2
    <3> QED BY <1>1, <3>2, <3>3
  <2> QED BY <1>2, <2>3, <2>4
<1>5. CASE call.name # "session" /\ ret.closed
  <2>1. UNCHANGED fd
    BY <1>2, <1>5 DEF SendFailed, WaitReturned, CallReturns
  <2> QED BY <1>1, <1>2, <1>3, <1>5, <2>1
<1>6. CASE call.name # "session" /\ ~ret.closed
  <2>1. Close
    BY <1>2, <1>6 DEF SendFailed, WaitReturned, CallReturns
  <2> QED BY <1>1, <1>2, <1>3, <1>6, <2>1 DEF Close
<1> QED BY <1>2, <1>4, <1>5, <1>6

(* Every step keeps IInv.                                                  *)
LEMMA NextIInv == IInv /\ [Next]_vars => IInv'
BY PeerKeepsIInv, BeginsKeepIInv, SendKeepsIInv, RecvKeepsIInv, ReturnKeepsIInv
   DEF Next, ClientStep

(* IInv holds in every reachable state.                                    *)
THEOREM ClientInvariant == Spec => []IInv
BY InitIInv, NextIInv, PTL DEF Spec

(* Every variable keeps to its type, whatever the constants.               *)
THEOREM ClientTypeOK == Spec => []TypeOK
<1>1. IInv => TypeOK
  BY DEF IInv
<1> QED BY <1>1, ClientInvariant, PTL

(* Whatever fails, times out or is aborted at whatever point, and however  *)
(* often closeSession is called: a descriptor is closed once by the        *)
(* functions of a call, or as often as closeSession is called and by       *)
(* nobody else; and it is closed when a one-shot call has returned.        *)
THEOREM SocketsAreClosedByOneParty == Spec => []ClosedByOneParty
<1>1. IInv => ClosedByOneParty
  BY DEF IInv, SessionState, ClosedByOneParty, Returned
<1> QED BY <1>1, ClientInvariant, PTL

(* Until closeSession, is_open is set if and only if the connection of the *)
(* session is open.                                                        *)
THEOREM IsOpenIsTrue == Spec => []SessionTracksSocket
<1>1. IInv => SessionTracksSocket
  BY DEF IInv, SessionState, SessionTracksSocket
<1> QED BY <1>1, ClientInvariant, PTL

-----------------------------------------------------------------------------
(* The stream of responses, and the controller that cuts it.               *)

(* A stream that is taken apart is the same stream.                        *)
LEMMA SplitConcat ==
  ASSUME NEW T, NEW s \in Seq(T), NEW m \in 0..Len(s)
  PROVE  SubSeq(s, 1, m) \o SubSeq(s, m + 1, Len(s)) = s
<1>1. Len(s) \in Nat
  OBVIOUS
<1>2. 1 \in 1..(Len(s) + 1) /\ m \in (1 - 1)..Len(s) /\ Len(s) \in m..Len(s)
  BY <1>1
<1>3. SubSeq(s, 1, m) \o SubSeq(s, m + 1, Len(s)) = SubSeq(s, 1, Len(s))
  BY <1>2, ConcatAdjacentSubSeq
<1> QED BY <1>3, SubSeqFull

(* A chain goes on behind the end of a response with the start of one.     *)
LEMMA ConcatWhole ==
  ASSUME NEW s \in Seq(Unit), NEW t \in Seq(Unit), Whole(s), Whole(t), FromStart(t)
  PROVE  Whole(s \o t)
<1>1. /\ s \o t \in Seq(Unit) /\ Len(s \o t) = Len(s) + Len(t)
      /\ \A i \in 1..(Len(s) + Len(t)) :
           (s \o t)[i] = IF i <= Len(s) THEN s[i] ELSE t[i - Len(s)]
  BY ConcatProperties
<1>2. Len(s) \in Nat /\ Len(t) \in Nat \ {0}
  BY DEF FromStart
<1>3. (s \o t)[Len(s \o t)].at = Total
  BY <1>1, <1>2 DEF Whole, FromStart
<1>4. ASSUME NEW i \in 1..(Len(s \o t) - 1) PROVE Follows((s \o t)[i], (s \o t)[i + 1])
  <2>1. CASE i < Len(s)
    BY <1>1, <1>2, <2>1 DEF Whole, Chain
  <2>2. CASE i = Len(s)
    <3>1. (s \o t)[i] = s[Len(s)] /\ (s \o t)[i + 1] = t[1]
      BY <1>1, <1>2, <2>2
    <3>2. s[Len(s)].at = Total /\ t[1].at = 1
      BY <1>2, <2>2 DEF Whole, FromStart
    <3> QED BY <3>1, <3>2 DEF Follows
  <2>3. CASE i > Len(s)
    <3>1. /\ (s \o t)[i] = t[i - Len(s)] /\ (s \o t)[i + 1] = t[(i - Len(s)) + 1]
          /\ i - Len(s) \in 1..(Len(t) - 1)
      BY <1>1, <1>2, <2>3
    <3> QED BY <3>1 DEF Whole, Chain
  <2> QED BY <1>2, <2>1, <2>2, <2>3
<1> QED BY <1>3, <1>4 DEF Whole, Chain

(* What is left of a chain when its front is taken off, and the front.     *)
LEMMA ChainParts ==
  ASSUME NEW s \in Seq(Unit), NEW t \in Seq(Unit)
  PROVE  /\ Whole(s \o t) => Whole(t)
         /\ Chain(s \o t) => Chain(s)
<1>1. /\ s \o t \in Seq(Unit) /\ Len(s \o t) = Len(s) + Len(t)
      /\ \A i \in 1..(Len(s) + Len(t)) :
           (s \o t)[i] = IF i <= Len(s) THEN s[i] ELSE t[i - Len(s)]
  BY ConcatProperties
<1>2. Len(s) \in Nat /\ Len(t) \in Nat
  OBVIOUS
<1>3. ASSUME Chain(s \o t) PROVE Chain(s)
  BY <1>1, <1>2, <1>3 DEF Chain
<1>4. ASSUME Whole(s \o t) PROVE Whole(t)
  <2>1. ASSUME NEW i \in 1..(Len(t) - 1) PROVE Follows(t[i], t[i + 1])
    <3>1. /\ i + Len(s) \in 1..(Len(s \o t) - 1)
          /\ (s \o t)[i + Len(s)] = t[i] /\ (s \o t)[(i + Len(s)) + 1] = t[i + 1]
      BY <1>1, <1>2, SMTT(30)
    <3> QED BY <1>4, <3>1 DEF Whole, Chain
  <2>2. ASSUME t # <<>> PROVE t[Len(t)].at = Total
    <3>1. Len(t) > 0
      BY <2>2
    <3>2. (s \o t)[Len(s \o t)] = t[Len(t)] /\ s \o t # <<>>
      BY <1>1, <1>2, <3>1
    <3> QED BY <1>4, <3>2 DEF Whole
  <2> QED BY <2>1, <2>2 DEF Whole, Chain
<1> QED BY <1>3, <1>4

(* A response is such a chain.                                             *)
LEMMA ResponseIsWhole ==
  ASSUME NEW n \in 1..MaxCalls, NEW kind \in Kinds
  PROVE  Whole(Response(n, kind)) /\ FromStart(Response(n, kind))
<1>1. Total \in Nat \ {0}
  BY ClientAssumption
<1>2. Len(Response(n, kind)) = Total
  BY <1>1 DEF Response
<1>3. \A i \in 1..Total : Response(n, kind)[i] = [call |-> n, kind |-> kind, at |-> i]
  BY DEF Response
<1> QED BY <1>1, <1>2, <1>3 DEF Whole, Chain, Follows, FromStart

(* The place of a unit in what was received from the start of a response:  *)
(* a first unit that is out of place would follow one that is not.         *)
LEMMA UnitsInPlace ==
  ASSUME NEW s \in Seq(Unit), Chain(s), FromStart(s),
         NEW i \in 1..Len(s), i <= Total
  PROVE  s[i] = [call |-> s[1].call, kind |-> s[1].kind, at |-> i]
<1> DEFINE R == OpToRel(<, Nat)
           P(j) == s[j] = [call |-> s[1].call, kind |-> s[1].kind, at |-> j]
           Bad == {j \in 1..Len(s) : j <= Total /\ ~P(j)}
<1>1. IsWellFoundedOn(R, Nat) /\ \A j, k \in Nat : <<k, j>> \notin R => j <= k
  BY NatLessThanWellFounded DEF OpToRel
<1>2. CASE Bad # {}
  <2>1. Bad \in SUBSET Nat
    OBVIOUS
  <2>2. PICK j \in Bad : \A k \in Bad : <<k, j>> \notin R
    <3> HIDE DEF R, Bad
    <3> QED BY <1>1, <1>2, <2>1, WFMin, Zenon
  <2>3. \A k \in Bad : j <= k
    BY <1>1, <2>1, <2>2
  <2>4. s[1] \in Unit /\ s[j] \in Unit /\ Total \in Nat
    BY ClientAssumption DEF FromStart
  <2>5. j # 1
    <3>1. P(1)
      BY <2>4 DEF FromStart, Unit
    <3> QED BY <3>1
  <2>6. P(j - 1) /\ j - 1 \in 1..(Len(s) - 1) /\ j <= Total
    <3>1. j \in 1..Len(s) /\ j <= Total /\ Len(s) \in Nat
      OBVIOUS
    <3>2. j - 1 \in 1..(Len(s) - 1) /\ j - 1 \in 1..Len(s) /\ j - 1 <= Total
      BY <2>4, <2>5, <3>1
    <3>3. j - 1 \notin Bad
      BY <2>3, <3>1
    <3> QED BY <3>1, <3>2, <3>3
  <2>7. Follows(s[j - 1], s[(j - 1) + 1])
    BY <2>6 DEF Chain
  <2>8. s[j] = [s[j - 1] EXCEPT !.at = s[j - 1].at + 1]
    BY <2>4, <2>6, <2>7 DEF Follows
  <2>9. P(j)
    BY <2>6, <2>8
  <2> QED BY <2>2, <2>9
<1>3. CASE Bad = {}
  BY <1>3
<1> QED BY <1>2, <1>3

(* A response is what is received when as much is received from its start. *)
LEMMA WholeResponse ==
  ASSUME NEW s \in Seq(Unit), Chain(s), FromStart(s), Len(s) = Total
  PROVE  IsResponse(s)
<1>1. s[1] \in Unit /\ Total \in Nat
  BY ClientAssumption DEF FromStart
<1> DEFINE n == s[1].call
           kind == s[1].kind
<1>2. n \in 1..MaxCalls /\ kind \in Kinds
  BY <1>1 DEF Unit
<1>3. \A i \in 1..Total : s[i] = [call |-> n, kind |-> kind, at |-> i]
  <2>1. ASSUME NEW i \in 1..Total PROVE s[i] = [call |-> n, kind |-> kind, at |-> i]
    <3>1. i \in 1..Len(s) /\ i <= Total
      BY <1>1
    <3> QED BY <3>1, UnitsInPlace
  <2> QED BY <2>1
<1>4. Response(n, kind) \in Seq(Unit) /\ Len(Response(n, kind)) = Total
  BY <1>1, <1>2, ResponseType DEF Response
<1>5. \A i \in 1..Total : Response(n, kind)[i] = [call |-> n, kind |-> kind, at |-> i]
  BY DEF Response
<1> HIDE DEF n, kind
<1>6. s = Response(n, kind)
  BY <1>3, <1>4, <1>5, SeqEqual
<1> QED BY <1>2, <1>6 DEF IsResponse

(* A step of the controller on a chain, when there is no limit: it rejects *)
(* the response, or asks for more, and for no more than belongs to it.     *)
LEMMA ControllerStep ==
  ASSUME MaxResponse < 0, NEW c \in Ctls, NEW old \in Seq(Unit), NEW piece \in Seq(Unit),
         piece # <<>>, Chain(old \o piece), Asks(c, old),
         c.max < 0 \/ Len(piece) <= c.max - Len(old)
  PROVE  LET d == Controller(c, old \o piece)
         IN  d.act = "reject" \/ Asks(d, old \o piece)
<1> DEFINE b == old \o piece
           n == Len(b)
           d == Controller(c, b)
<1>1. /\ b \in Seq(Unit) /\ n = Len(old) + Len(piece) /\ n \in Nat
      /\ \A i \in 1..Len(old) : b[i] = old[i]
  BY ConcatProperties
<1>2. Len(old) \in Nat /\ Len(piece) \in Nat \ {0} /\ b # <<>> /\ Chain(b)
  BY <1>1
<1>3. FromStart(old) => FromStart(b)
  BY <1>1, <1>2 DEF FromStart
<1>4. ASSUME FromStart(b), NEW i \in 1..n, i <= Total PROVE b[i].at = i
  <2>1. b[i] = [call |-> b[1].call, kind |-> b[1].kind, at |-> i]
    BY <1>1, <1>2, <1>4, UnitsInPlace
  <2> QED BY <2>1
<1>5. MaxResponse \in Int /\ NextBatch(n) = n + 1
  BY <1>1, ClientAssumption DEF NextBatch, Batch, optMin
<1>6. LineEnd \in Nat /\ HeaderEnd \in Nat /\ Total \in Nat /\ LineEnd < HeaderEnd /\ HeaderEnd <= Total
      /\ LineEnd > 0
  BY ClientAssumption
<1>7. /\ n \in Nat \ {0} /\ DOMAIN b = 1..n /\ DOMAIN old = 1..Len(old)
  BY <1>1, <1>2
<1> HIDE DEF b, n
<1>8. CASE c.phase = 1 /\ c.max = Len(old) + 1 /\ ~HasLine(old)
  <2>1. n = Len(old) + 1
    BY <1>1, <1>2, <1>8
  <2>2. CASE ~HasLine(b)
    <3>1. d = [c EXCEPT !.max = n + 1]
      BY <1>5, <1>8, <2>2 DEF Controller, n
    <3> QED BY <1>8, <2>2, <3>1 DEF Asks, Ctls, b, n
  <2>3. CASE HasLine(b) /\ b[1].at # 1
    <3>1. d = [c EXCEPT !.max = n + 1, !.act = "reject"]
      BY <1>5, <1>8, <2>3 DEF Controller, n
    <3> QED BY <3>1 DEF Ctls, b
  <2>4. CASE HasLine(b) /\ b[1].at = 1 /\ b[1].kind = "close"
    <3>1. d = [c EXCEPT !.version = "1.0", !.phase = 2, !.max = MaxResponse]
      BY <1>8, <2>4 DEF Controller
    <3> QED BY <3>1 DEF Asks, Ctls, b
  <2>5. CASE HasLine(b) /\ b[1].at = 1 /\ b[1].kind # "close"
    <3>1. d = [c EXCEPT !.version = "1.1", !.phase = 2, !.max = n + 1]
      BY <1>5, <1>8, <2>5 DEF Controller, n
    <3>2. FromStart(b)
      BY <1>2, <2>5 DEF FromStart
    <3>3. n <= LineEnd
      <4>1. SUFFICES ASSUME n > LineEnd PROVE FALSE
        BY <1>6, <1>7
      <4>2. LineEnd \in 1..n /\ LineEnd \in 1..Len(old) /\ LineEnd <= Total
        BY <1>2, <1>6, <1>7, <2>1, <4>1
      <4>3. b[LineEnd].at = LineEnd
        BY <1>4, <3>2, <4>2
      <4> QED BY <1>1, <1>7, <1>8, <4>2, <4>3 DEF HasLine
    <3>4. n < HeaderEnd
      BY <1>6, <1>7, <3>3
    <3> QED BY <3>1, <3>2, <3>4 DEF Asks, Ctls, b, n
  <2> QED BY <2>2, <2>3, <2>4, <2>5
<1>9. CASE c.phase = 2 /\ c.version = "1.0" /\ c.max = MaxResponse
  <2>1. d = c
    BY <1>9 DEF Controller
  <2> QED BY <1>9, <2>1 DEF Asks, b
<1>10. CASE /\ c.phase = 2 /\ c.version = "1.1" /\ c.max = Len(old) + 1
            /\ FromStart(old) /\ Len(old) < HeaderEnd
  <2>1. n = Len(old) + 1 /\ n <= HeaderEnd /\ n \in 1..n /\ n <= Total /\ FromStart(b)
    BY <1>1, <1>2, <1>3, <1>6, <1>7, <1>10
  <2>2. b[n].at = n
    BY <1>4, <2>1
  <2>3. HasHeader(b) => n = HeaderEnd
    <3>1. SUFFICES ASSUME NEW i \in 1..n, i > n - 1, b[i].at = HeaderEnd PROVE n = HeaderEnd
      BY <1>7 DEF HasHeader, Batch, n
    <3>2. i = n
      BY <1>7, <3>1
    <3> QED BY <2>2, <3>1, <3>2
  <2>4. CASE ~HasHeader(b)
    <3>1. d = [c EXCEPT !.max = n + 1]
      BY <1>5, <1>10, <2>4 DEF Controller, n
    <3>2. n # HeaderEnd
      <4>1. n > n - 1
        BY <1>7
      <4> QED BY <1>7, <2>1, <2>2, <2>4, <4>1 DEF HasHeader, Batch, n
    <3>3. n < HeaderEnd
      BY <1>6, <1>7, <2>1, <3>2
    <3> QED BY <1>10, <2>1, <3>1, <3>3 DEF Asks, Ctls, b, n
  <2>5. CASE HasHeader(b) /\ b[1].kind = "chunked"
    <3>1. d = [c EXCEPT !.phase = 3, !.act = "reject"]
      BY <1>10, <2>5 DEF Controller
    <3> QED BY <3>1 DEF Ctls, b
  <2>6. CASE HasHeader(b) /\ b[1].kind # "chunked"
    <3>1. HeaderSize(b) = n
      <4>1. \A i \in 1..n : b[i].at = HeaderEnd <=> i = n
        <5>1. ASSUME NEW i \in 1..n PROVE b[i].at = i
          BY <1>4, <1>6, <1>7, <2>1
        <5> QED BY <2>3, <2>6, <5>1
      <4>2. \A j \in 1..(n - 1) : b[j].at # HeaderEnd
        <5>1. \A j \in 1..(n - 1) : j \in 1..n /\ j # n
          BY <1>7
        <5> QED BY <4>1, <5>1
      <4> QED BY <1>7, <4>1, <4>2 DEF HeaderSize
    <3>2. optMin(Total - HeaderEnd + HeaderSize(b) - (n - HeaderSize(b)), MaxResponse) = Total
      BY <1>5, <1>6, <1>7, <2>3, <2>6, <3>1 DEF optMin
    <3>3. d = [c EXCEPT !.phase = 4, !.clen = Total - HeaderEnd, !.max = Total]
      <4>1. d = [c EXCEPT !.phase = 4, !.clen = Total - HeaderEnd,
                          !.max = optMin(Total - HeaderEnd + HeaderSize(b)
                                         - (Len(b) - HeaderSize(b)), MaxResponse)]
        <5>1. c.phase # 0 /\ c.phase # 1
          BY <1>10
        <5> QED BY <1>10, <2>6, <5>1, Zenon DEF Controller
      <4> QED BY <3>2, <4>1, Zenon DEF n
    <3> QED BY <2>1, <3>3 DEF Asks, Ctls, b, n
  <2> QED BY <2>4, <2>5, <2>6
<1>11. CASE c.phase = 4 /\ c.max = Total /\ FromStart(old) /\ Len(old) <= Total
  <2>1. d = c
    BY <1>11 DEF Controller
  <2>2. FromStart(b) /\ n <= Total
    BY <1>1, <1>2, <1>3, <1>6, <1>11
  <2> QED BY <1>11, <2>1, <2>2 DEF Asks, b, n
<1> QED BY <1>8, <1>9, <1>10, <1>11 DEF Asks, b

-----------------------------------------------------------------------------
(* The steps keep ResponseInv.                                             *)

(* Joining sequences of units is associative.                              *)
LEMMA JoinUnits ==
  ASSUME NEW a \in Seq(Unit), NEW b \in Seq(Unit), NEW c \in Seq(Unit)
  PROVE  (a \o b) \o c = a \o (b \o c)
BY ConcatAssociative

(* What a call holds of the stream is a sequence of units, as the rest is. *)
LEMMA StreamType ==
  ASSUME TypeOK
  PROVE  /\ Taken \in Seq(Unit) /\ inbuf \in Seq(Unit) /\ outgoing \in Seq(Unit)
         /\ Taken \o inbuf \in Seq(Unit) /\ inbuf \o outgoing \in Seq(Unit)
         /\ Stream = Taken \o (inbuf \o outgoing) /\ Stream \in Seq(Unit)
<1>1. Taken \in Seq(Unit) /\ inbuf \in Seq(Unit) /\ outgoing \in Seq(Unit)
  BY DEF TypeOK, Taken
<1> QED BY <1>1, ConcatAssociative, ConcatProperties DEF Stream

(* When the network has not moved, the stream is the same, or a call has   *)
(* left with its part.                                                     *)
LEMMA LeavingKeepsStream ==
  ASSUME TypeOK, StreamOK, UNCHANGED <<inbuf, outgoing>>, Taken' \in {Taken, <<>>}
  PROVE  StreamOK'
<1>1. CASE Taken' = Taken
  <2>1. Stream' = Stream
    BY <1>1 DEF Stream
  <2> QED BY <2>1 DEF StreamOK
<1>2. CASE Taken' = <<>>
  <2>1. Stream' = inbuf \o outgoing
    <3>1. <<>> \o inbuf = inbuf
      BY StreamType, ConcatEmptySeq
    <3> QED BY <1>2, <3>1 DEF Stream
  <2>2. Whole(inbuf \o outgoing)
    BY StreamType, ChainParts DEF StreamOK
  <2> QED BY <2>1, <2>2 DEF StreamOK
<1> QED BY <1>1, <1>2

(* The peer answers at the end of the stream, which moves along.           *)
LEMMA PeerKeepsStream ==
  ASSUME TypeOK, StreamOK, PeerStep
  PROVE  StreamOK'
<1>1. Taken' = Taken
  BY DEF PeerStep, Deliver, Answer, Leave, locals, Taken, InCall
<1>2. ASSUME NEW how \in Ways, Leave(how) PROVE StreamOK'
  BY <1>1, <1>2, LeavingKeepsStream DEF Leave
<1>3. ASSUME NEW kind \in Kinds, Answer(kind) PROVE StreamOK'
  <2> DEFINE r == Response(Head(asked), kind)
  <2>1. Head(asked) \in 1..MaxCalls
    BY <1>3, HeadTailProperties DEF Answer, TypeOK
  <2>2. r \in Seq(Unit) /\ Whole(r) /\ FromStart(r)
    BY <2>1, ResponseType, ResponseIsWhole
  <2> HIDE DEF r
  <2>3. Stream' = (Taken \o inbuf) \o (outgoing \o r)
    BY <1>1, <1>3 DEF Answer, Stream, r
  <2>4. (Taken \o inbuf) \o (outgoing \o r) = Stream \o r
    BY <2>2, StreamType, JoinUnits, ZenonT(40) DEF Stream
  <2>5. Whole(Stream \o r)
    BY <2>2, StreamType, ConcatWhole DEF StreamOK
  <2> QED BY <2>3, <2>4, <2>5 DEF StreamOK
<1>4. CASE Deliver
  <2>1. PICK m \in 1..Len(outgoing) :
          /\ inbuf' = inbuf \o SubSeq(outgoing, 1, m)
          /\ outgoing' = SubSeq(outgoing, m + 1, Len(outgoing))
    BY <1>4 DEF Deliver
  <2> DEFINE front == SubSeq(outgoing, 1, m)
             back == SubSeq(outgoing, m + 1, Len(outgoing))
  <2>2. m \in 0..Len(outgoing)
    OBVIOUS
  <2>3. front \in Seq(Unit) /\ back \in Seq(Unit) /\ front \o back = outgoing
    BY <2>2, StreamType, SplitType, SplitConcat
  <2>4. Stream' = (Taken \o (inbuf \o front)) \o back
    BY <1>1, <2>1 DEF Stream
  <2> HIDE DEF front, back
  <2>5. inbuf \o front \in Seq(Unit) /\ inbuf \in Seq(Unit) /\ Taken \in Seq(Unit)
    BY <2>3, StreamType, ConcatProperties
  <2>6. (Taken \o (inbuf \o front)) \o back = Taken \o ((inbuf \o front) \o back)
    BY <2>3, <2>5, JoinUnits, ZenonT(40)
  <2>7. (inbuf \o front) \o back = inbuf \o outgoing
    <3>1. (inbuf \o front) \o back = inbuf \o (front \o back)
      BY <2>3, <2>5, JoinUnits, ZenonT(40)
    <3> QED BY <2>3, <3>1
  <2>8. Stream' = Stream
    BY <2>4, <2>6, <2>7, StreamType
  <2> QED BY <2>8 DEF StreamOK
<1> QED BY <1>2, <1>3, <1>4 DEF PeerStep

(* Recv moves the next piece of the stream to the call.                    *)
LEMMA RecvPiece ==
  ASSUME IInv, Recv
  PROVE  \E piece \in Seq(Unit), rest \in Seq(Unit) :
           /\ piece # <<>> /\ inbuf = piece \o rest
           /\ ctl.max < 0 \/ Len(piece) <= ctl.max - Len(buf)
           /\ buf' = buf \o piece /\ inbuf' = rest
           /\ ctl' = IF Controlled THEN Controller(ctl, buf') ELSE ctl
           /\ IF ctl'.act = "reject"
                THEN RecvDone(1, FALSE, buf', ctl')
                ELSE pc' = "recvTest" /\ UNCHANGED <<ret, result>>
           /\ UNCHANGED <<outgoing, call>>
<1> DEFINE room == ctl.max - Len(buf)
           m == IF ctl.max < 0 \/ Len(inbuf) < room THEN Len(inbuf) ELSE room
           piece == SubSeq(inbuf, 1, m)
           rest == SubSeq(inbuf, m + 1, Len(inbuf))
<1>1. /\ inbuf' = rest /\ buf' = buf \o piece
      /\ ctl' = IF Controlled THEN Controller(ctl, buf') ELSE ctl
      /\ IF ctl'.act = "reject"
           THEN RecvDone(1, FALSE, buf', ctl')
           ELSE pc' = "recvTest" /\ UNCHANGED <<ret, result>>
      /\ UNCHANGED <<outgoing, call>>
  BY DEF Recv
<1>2. m \in 1..Len(inbuf) /\ (ctl.max < 0 \/ m <= ctl.max - Len(buf))
  <2>1. ctl.max \in Int /\ Len(buf) \in Nat /\ Len(inbuf) \in Nat \ {0}
    BY DEF Recv, IInv, TypeOK, Ctls
  <2>2. ctl.max < 0 \/ Len(buf) < ctl.max
    BY DEF Recv, IInv, CallState, More
  <2> QED BY <2>1, <2>2
<1> HIDE DEF m
<1>3. m \in 0..Len(inbuf) /\ inbuf \in Seq(Unit)
  BY <1>2 DEF IInv, TypeOK
<1>4. piece \in Seq(Unit) /\ rest \in Seq(Unit) /\ inbuf = piece \o rest
  BY <1>3, SplitType, SplitConcat
<1>5. Len(piece) = m
  BY <1>3
<1>6. piece # <<>>
  BY <1>2, <1>5
<1> HIDE DEF piece, rest
<1> QED BY <1>1, <1>2, <1>4, <1>5, <1>6

(* Every step keeps the stream a chain of responses.                       *)
LEMMA NextStream ==
  ASSUME IInv, StreamOK, [Next]_vars
  PROVE  StreamOK'
<1>1. TypeOK
  BY DEF IInv
<1> USE DEF fd, net, sess, locals
<1>2. CASE UNCHANGED vars
  BY <1>1, <1>2, LeavingKeepsStream DEF vars, Taken, InCall
<1>3. CASE PeerStep
  BY <1>1, <1>3, PeerKeepsStream
<1>4. CASE Recv
  <2>1. PICK piece \in Seq(Unit), rest \in Seq(Unit) :
          inbuf = piece \o rest /\ buf' = buf \o piece /\ inbuf' = rest /\ outgoing' = outgoing
    BY <1>4, RecvPiece
  <2>2. pc = "recv" /\ pc' \in {"recvTest", "waitDone"}
    BY <1>4 DEF Recv, RecvDone
  <2>3. Stream = (buf \o inbuf) \o outgoing /\ Stream' = ((buf \o piece) \o rest) \o outgoing
    BY <2>1, <2>2 DEF Stream, Taken, InCall
  <2>4. (buf \o piece) \o rest = buf \o inbuf
    <3>1. buf \in Seq(Unit)
      BY <1>1 DEF TypeOK
    <3> QED BY <2>1, <3>1, JoinUnits, Zenon
  <2> QED BY <2>3, <2>4 DEF StreamOK
<1>5. CASE NewConnection /\ Taken' = <<>>
  <2>1. Stream' = <<>>
    <3>1. <<>> \o <<>> = <<>>
      OBVIOUS
    <3> QED BY <1>5, <3>1 DEF Stream, NewConnection
  <2>2. Whole(<<>>)
    BY DEF Whole, Chain
  <2> QED BY <2>1, <2>2 DEF StreamOK
<1>6. CASE Begins
  <2>1. (NewConnection \/ UNCHANGED <<inbuf, outgoing>>) /\ Taken = <<>> /\ Taken' = <<>>
    BY <1>6 DEF Begins, OpenSession, CloseSession, BeginSession, BeginConnected,
                BeginUnconnected, Begin, Taken, InCall
  <2> QED BY <1>1, <1>5, <2>1, LeavingKeepsStream
<1>7. CASE ClientStep /\ ~Recv
  <2>1. UNCHANGED <<inbuf, outgoing, buf>>
    BY <1>7 DEF ClientStep, SendStops, SendReady, Send, SendAll, SendFailed, SendSucceeded,
                WaitStops, WaitReady, WaitReturned, CallReturns,
                RecvEnough, RecvStops, RecvReady, RecvEof
  <2>2. InCall
    BY <1>7 DEF ClientStep, SendStops, SendReady, Send, SendAll, SendFailed, SendSucceeded,
                WaitStops, WaitReady, WaitReturned, CallReturns,
                RecvEnough, RecvStops, RecvReady, RecvEof, InCall
  <2>3. Taken' \in {Taken, <<>>}
    BY <2>1, <2>2 DEF Taken
  <2> QED BY <1>1, <2>1, <2>3, LeavingKeepsStream
<1> QED BY <1>2, <1>3, <1>4, <1>6, <1>7 DEF Next

(* What was received of a chain, with the next piece of it, is a chain.    *)
LEMMA PieceIsChain ==
  ASSUME IInv, StreamOK, pc = "recv", NEW piece \in Seq(Unit), NEW rest \in Seq(Unit)
  PROVE  inbuf = piece \o rest => Chain(buf \o piece)
<1>1. buf \in Seq(Unit) /\ outgoing \in Seq(Unit) /\ buf \o piece \in Seq(Unit)
      /\ rest \o outgoing \in Seq(Unit)
  BY ConcatProperties DEF IInv, TypeOK
<1>2. (buf \o piece) \o rest = buf \o (piece \o rest)
  BY <1>1, JoinUnits
<1>3. (buf \o piece) \o (rest \o outgoing) = ((buf \o piece) \o rest) \o outgoing
  BY <1>1, JoinUnits
<1> HAVE inbuf = piece \o rest
<1>4. Stream = (buf \o (piece \o rest)) \o outgoing
  BY DEF Stream, Taken, InCall
<1>5. Stream = (buf \o piece) \o (rest \o outgoing)
  BY <1>2, <1>3, <1>4
<1> QED BY <1>1, <1>5, ChainParts DEF StreamOK, Whole

(* While a call receives, the controller asks for no more than its own.    *)
LEMMA NextController ==
  ASSUME MaxResponse < 0, IInv, StreamOK, ControllerOK, [Next]_vars
  PROVE  ControllerOK'
<1> USE DEF fd, net, sess, locals
<1>1. CASE UNCHANGED <<pc, call, buf, ctl>>
  BY <1>1 DEF ControllerOK, Controlled, Asks, HasLine, FromStart
<1>2. CASE PeerStep \/ UNCHANGED vars
  BY <1>1, <1>2 DEF PeerStep, Deliver, Answer, Leave, vars
<1>3. CASE Begins
  BY <1>3 DEF Begins, OpenSession, CloseSession, BeginSession, BeginConnected,
              BeginUnconnected, Begin, ControllerOK
<1>4. CASE SendStops \/ SendReady \/ Send \/ SendAll \/ SendSucceeded
  BY <1>4 DEF SendStops, SendReady, Send, SendAll, SendSucceeded, ControllerOK
<1>5. CASE \/ SendFailed \/ WaitStops \/ WaitReturned
           \/ RecvEnough \/ RecvStops \/ RecvEof
  BY <1>5 DEF SendFailed, WaitStops, WaitReturned, CallReturns,
              RecvEnough, RecvStops, RecvEof, RecvDone, ControllerOK
<1>6. CASE WaitReady
  <2>1. pc = "wait" /\ pc' = "recvTest" /\ buf' = <<>> /\ ctl = NoCtl /\ UNCHANGED call
        /\ ctl' = IF Controlled THEN Controller(ctl, <<>>) ELSE ctl
    BY <1>6 DEF WaitReady, ControllerOK
  <2>2. NextBatch(0) = 1
    BY ClientAssumption DEF NextBatch, Batch, optMin
  <2>3. Controlled => ctl' = [NoCtl EXCEPT !.phase = 1, !.max = 1]
    <3>1. NoCtl.phase = 0 /\ NextBatch(Len(<<>>)) = 1
      BY <2>2 DEF NoCtl
    <3>2. Controller(NoCtl, <<>>) = [NoCtl EXCEPT !.phase = 1, !.max = NextBatch(Len(<<>>))]
      BY <3>1 DEF Controller
    <3> QED BY <2>1, <3>1, <3>2
  <2>4. Controlled => Asks(ctl', <<>>)
    <3>1. ~HasLine(<<>>) /\ Len(<<>>) = 0
      BY DEF HasLine
    <3>2. Controlled => ctl'.phase = 1 /\ ctl'.max = 1
      BY <2>3 DEF NoCtl
    <3> QED BY <3>1, <3>2 DEF Asks
  <2>5. Controlled' => Controlled
    BY <2>1 DEF Controlled
  <2> QED BY <2>1, <2>4, <2>5 DEF ControllerOK, Asks, HasLine, FromStart
<1>7. CASE RecvReady
  BY <1>7 DEF RecvReady, ControllerOK, Controlled, Asks, HasLine, FromStart
<1>8. CASE Recv
  <2>1. PICK piece \in Seq(Unit), rest \in Seq(Unit) :
           /\ piece # <<>> /\ inbuf = piece \o rest
           /\ ctl.max < 0 \/ Len(piece) <= ctl.max - Len(buf)
           /\ buf' = buf \o piece
           /\ ctl' = IF Controlled THEN Controller(ctl, buf') ELSE ctl
           /\ IF ctl'.act = "reject"
                THEN RecvDone(1, FALSE, buf', ctl')
                ELSE pc' = "recvTest" /\ UNCHANGED <<ret, result>>
           /\ UNCHANGED <<outgoing, call>>
    BY <1>8, RecvPiece
  <2>2. pc = "recv" /\ (pc' = "waitDone" \/ (pc' = "recvTest" /\ ctl'.act # "reject"))
    BY <1>8, <2>1 DEF Recv, RecvDone
  <2>3. buf \in Seq(Unit) /\ ctl \in Ctls
    BY DEF IInv, TypeOK
  <2>4. ASSUME Controlled, pc' = "recvTest"
        PROVE  Asks(Controller(ctl, buf \o piece), buf \o piece)
    <3>1. Asks(ctl, buf)
      BY <2>2, <2>4 DEF ControllerOK
    <3>2. Chain(buf \o piece)
      BY <2>1, <2>2, PieceIsChain
    <3>3. Controller(ctl, buf \o piece).act # "reject"
      BY <2>1, <2>2, <2>4
    <3> QED BY <2>1, <2>3, <3>1, <3>2, <3>3, ControllerStep
  <2>5. Controlled' = Controlled
    BY <2>1 DEF Controlled
  <2>6. Controlled /\ pc' = "recvTest" => Asks(ctl, buf)'
    BY <2>1, <2>4 DEF Asks, HasLine, FromStart
  <2> QED BY <2>2, <2>5, <2>6 DEF ControllerOK
<1> QED BY <1>2, <1>3, <1>4, <1>5, <1>6, <1>7, <1>8 DEF Next, ClientStep

(* recvAllData succeeds on an open socket with a whole response.           *)
LEMMA EnoughIsResponse ==
  ASSUME MaxResponse < 0, IInv, StreamOK, ControllerOK, pc = "recvTest", ~More, Controlled
  PROVE  IsResponse(buf)
<1>1. buf \in Seq(Unit) /\ inbuf \in Seq(Unit) /\ outgoing \in Seq(Unit) /\ Len(buf) \in Nat
  BY DEF IInv, TypeOK
<1>2. Asks(ctl, buf)
  BY DEF ControllerOK
<1>3. Len(buf) = Total /\ FromStart(buf)
  BY <1>1, <1>2, ClientAssumption DEF Asks, More
<1>4. Chain(buf)
  <2>1. inbuf \o outgoing \in Seq(Unit) /\ Stream = buf \o (inbuf \o outgoing)
    BY <1>1, ConcatProperties, ConcatAssociative DEF Stream, Taken, InCall
  <2> QED BY <1>1, <2>1, ChainParts DEF StreamOK, Whole
<1> QED BY <1>1, <1>3, <1>4, WholeResponse

(* What a call hands over at its end.                                      *)
LEMMA NextOut ==
  ASSUME MaxResponse < 0, IInv, StreamOK, ControllerOK, OutOK, [Next]_vars
  PROVE  OutOK'
<1> USE DEF fd, net, sess, locals
<1>1. CASE UNCHANGED <<pc, call, ret, result>>
  BY <1>1 DEF OutOK, Controlled
<1>2. CASE PeerStep \/ UNCHANGED vars
  BY <1>1, <1>2 DEF PeerStep, Deliver, Answer, Leave, vars
<1>3. CASE pc' # "waitDone"
  BY <1>3 DEF OutOK
<1>4. CASE Begins \/ SendFailed \/ WaitReturned
  <2>1. pc' # "waitDone"
    BY <1>4 DEF Begins, OpenSession, CloseSession, BeginSession, BeginConnected,
                BeginUnconnected, Begin, SendFailed, WaitReturned, CallReturns
  <2> QED BY <1>3, <2>1
<1>5. CASE \/ SendStops \/ SendReady \/ Send \/ SendAll \/ SendSucceeded
           \/ WaitReady \/ RecvReady
  <2>1. pc' # "waitDone"
    BY <1>5 DEF SendStops, SendReady, Send, SendAll, SendSucceeded, WaitReady, RecvReady
  <2> QED BY <1>3, <2>1
<1>6. CASE WaitStops
  <2>1. ret'.err # 0 \/ ret'.closed
    BY <1>6 DEF WaitStops, Give
  <2> QED BY <2>1 DEF OutOK
<1>7. CASE RecvEnough
  <2>1. pc = "recvTest" /\ ~More /\ RecvDone(0, FALSE, buf, ctl) /\ Controlled' = Controlled
    BY <1>7 DEF RecvEnough, Controlled
  <2>2. ret'.err = 0 => result'.out = buf
    BY <2>1 DEF RecvDone, Give, IInv, TypeOK, Results
  <2>3. Controlled => IsResponse(buf)
    BY <2>1, EnoughIsResponse
  <2> QED BY <2>1, <2>2, <2>3 DEF OutOK, IsResponse
<1>8. CASE RecvStops
  <2>1. Controlled => \E err \in {-1, 1}, closed \in BOOLEAN : RecvDone(err, closed, buf, ctl)
    BY <1>8 DEF RecvStops
  <2>2. ASSUME NEW err \in {-1, 1}, NEW closed \in BOOLEAN, RecvDone(err, closed, buf, ctl)
        PROVE  ret'.err # 0
    BY <2>2 DEF RecvDone, Give
  <2>3. Controlled' = Controlled
    BY <1>8 DEF RecvStops, Controlled
  <2> QED BY <2>1, <2>2, <2>3 DEF OutOK
<1>9. CASE RecvEof
  <2>1. ret'.closed = TRUE
    BY <1>9 DEF RecvEof, RecvDone, Give
  <2> QED BY <2>1 DEF OutOK
<1>10. CASE Recv
  <2>1. pc' # "waitDone" \/ RecvDone(1, FALSE, buf', ctl')
    BY <1>10, RecvPiece
  <2>2. RecvDone(1, FALSE, buf', ctl') => ret'.err # 0
    BY DEF RecvDone, Give
  <2> QED BY <2>1, <2>2 DEF OutOK
<1> QED BY <1>2, <1>4, <1>5, <1>6, <1>7, <1>8, <1>9, <1>10 DEF Next, ClientStep

(* What the callers make of it.                                            *)
LEMMA NextOutIsOneResponse ==
  ASSUME IInv, OutOK, OutIsOneResponse, [Next]_vars
  PROVE  OutIsOneResponse'
<1> USE DEF fd, net, sess, locals, Succeeded, Returned
<1>1. result \in Results /\ ret.err \in {-1, 0, 1} /\ ret.closed \in BOOLEAN
  BY DEF IInv, TypeOK, Rets
<1>2. CASE UNCHANGED <<pc, ret, result>>
  BY <1>2 DEF OutIsOneResponse, IsResponse
<1>3. CASE PeerStep \/ UNCHANGED vars
  BY <1>2, <1>3 DEF PeerStep, Deliver, Answer, Leave, vars
<1>4. CASE ClientStep /\ ~SendFailed /\ ~WaitReturned
  <2>1. pc' # "idle"
    BY <1>4 DEF ClientStep, SendStops, SendReady, Send, SendAll, SendSucceeded,
                WaitStops, WaitReady, RecvEnough, RecvStops, RecvReady, RecvEof, Recv, RecvDone
  <2> QED BY <2>1 DEF OutIsOneResponse
<1>5. CASE Begins
  <2>1. CASE CloseSession
    BY <1>2, <2>1 DEF CloseSession
  <2>2. CASE OpenSession \/ BeginSession \/ BeginConnected
    <3>1. result' = NoResult
      BY <2>2 DEF OpenSession, BeginSession, BeginConnected, Begin
    <3> QED BY <3>1 DEF NoResult, OutIsOneResponse
  <2>3. CASE BeginUnconnected
    <3>1. result'.err = 1
      BY <2>3 DEF BeginUnconnected, NoResult
    <3> QED BY <3>1 DEF OutIsOneResponse
  <2> QED BY <1>5, <2>1, <2>2, <2>3 DEF Begins
<1>6. CASE SendFailed
  <2>1. ret' = ret /\ result'.err = (IF call.name = "session" THEN ret.err ELSE 1)
        /\ (ret.err # 0 \/ ret.closed)
    BY <1>1, <1>6 DEF SendFailed, CallReturns, Results
  <2> QED BY <2>1 DEF OutIsOneResponse
<1>7. CASE WaitReturned
  <2>1. /\ ret' = ret /\ pc = "waitDone" /\ result'.name = call.name
        /\ result'.out = result.out
        /\ result'.err = (IF call.name = "session" \/ ret.err = 0 THEN ret.err ELSE 1)
    BY <1>1, <1>7 DEF WaitReturned, CallReturns, Results
  <2> QED BY <2>1 DEF OutIsOneResponse, OutOK, Controlled, IsResponse
<1> QED BY <1>3, <1>4, <1>5, <1>6, <1>7 DEF Next, ClientStep

(* With no limit on the size of a response, a call that succeeds and leaves*)
(* its connection open returns one whole response: recvAllData and the     *)
(* controller never stop short of its end, nor take a byte of the next.    *)
THEOREM UnlimitedResponsesAreWhole ==
  ASSUME MaxResponse < 0
  PROVE  Spec => []OutIsOneResponse
<1>1. Init => ResponseInv
  <2> SUFFICES ASSUME Init PROVE ResponseInv
    OBVIOUS
  <2>1. Stream = <<>>
    BY DEF Init, Stream, Taken
  <2>2. StreamOK
    BY <2>1 DEF StreamOK, Whole, Chain
  <2> QED BY <2>2 DEF Init, ResponseInv, ControllerOK, OutOK, OutIsOneResponse, NoResult,
                     Succeeded, Returned
<1>2. IInv /\ ResponseInv /\ [Next]_vars => ResponseInv'
  BY NextStream, NextController, NextOut, NextOutIsOneResponse DEF ResponseInv
<1>3. ResponseInv => OutIsOneResponse
  BY DEF ResponseInv
<1> QED BY <1>1, <1>2, <1>3, ClientInvariant, PTL DEF Spec
=============================================================================
