------------------------------ MODULE HttpClient ------------------------------
(***************************************************************************)
(* One thread that uses the client side: connectSocket, waitThenRecvAllData*)
(* and newSocketSendReceiveClose of lib/sock.c, sendAllData and recvAllData*)
(* of lib/utils.c, the sessions of lib/http/request_networking.c and the   *)
(* receive controller of lib/http/recv_controller.c.                       *)
(*                                                                         *)
(* A message is a sequence of units that no call splits.  A unit of a      *)
(* response knows its place in it, which is all the controller looks for:  *)
(* the ends of the first line and of the header.  Bodies contain neither,  *)
(* and a Content-Length is a number and is right.  Timeouts strike at any  *)
(* poll.  The peer and the kernel are external.                            *)
(***************************************************************************)
EXTENDS Integers, Sequences

CONSTANTS
  Calls,        (* which functions are called: subset of CallNames         *)
  MaxCalls,     (* how many calls there are (bound)                        *)
  MaxCloses,    (* how often a session is closed (bound)                   *)
  ReqLen,       (* units of a request                                      *)
  LineEnd,      (* place of the end of the first line in a response        *)
  HeaderEnd,    (* place of the end of the header                          *)
  Total,        (* units of a response                                     *)
  Kinds,        (* the kinds of responses the peer gives                   *)
  MaxResponse,  (* max_response_size as a ssize_t, negative for no limit   *)
  HupOnFin      (* poll may report POLLHUP when the peer has shut down    *)

(* Without a controller, with it, and in a session.                        *)
CallNames == {"raw", "http", "session"}

ASSUME ClientAssumption ==
  /\ Calls \subseteq CallNames /\ MaxCalls \in Nat /\ MaxCloses \in Nat /\ MaxResponse \in Int
  /\ ReqLen \in Nat \ {0} /\ LineEnd \in Nat \ {0} /\ HeaderEnd \in Nat /\ Total \in Nat
  /\ LineEnd < HeaderEnd /\ HeaderEnd <= Total
  /\ Kinds \subseteq {"length", "chunked", "close"} /\ HupOnFin \in BOOLEAN

VARIABLES
  sock,      (* the descriptor in use                                      *)
  closes,    (* how often it has been closed (history)                     *)
  peer,      (* what the other side has done with the connection           *)
  got,       (* units of requests the kernel has taken                     *)
  asked,     (* calls whose requests the peer has and has not answered     *)
  outgoing,  (* what the peer has still to send of its responses           *)
  inbuf,     (* what the kernel has received                               *)
  isOpen,    (* session->is_open                                           *)
  ended,     (* how often closeSession has closed it (history)             *)
  pc,        (* where the thread is                                        *)
  call,      (* the call it is in, and its number                          *)
  sent,      (* bytes_sent                                                 *)
  buf,       (* builder->data                                              *)
  ctl,       (* max_len and the controller's state                         *)
  ret,       (* what sendAllData or waitThenRecvAllData returns            *)
  result     (* what the last call returned, and *out (history)            *)

net == <<peer, got, asked, outgoing, inbuf>>
fd == <<sock, closes>>
sess == <<isOpen, ended>>
locals == <<call, sent, buf, ctl>>
vars == <<fd, net, sess, pc, locals, ret, result>>

NoCall == [name |-> "none", n |-> 0]
NoCtl == [phase |-> 0, version |-> "none", clen |-> 0, max |-> MaxResponse, act |-> "none"]
NoResult == [name |-> "none", n |-> 0, err |-> 0, set |-> FALSE, out |-> <<>>]

Unit == [call : 1..MaxCalls, kind : Kinds, at : 1..Total]
Response(n, kind) == [i \in 1..Total |-> [call |-> n, kind |-> kind, at |-> i]]

Init ==
  /\ sock = "none" /\ closes = 0
  /\ peer = "up" /\ got = 0 /\ asked = <<>> /\ outgoing = <<>> /\ inbuf = <<>>
  /\ isOpen = FALSE /\ ended = 0
  /\ pc = "idle" /\ call = NoCall /\ sent = 0 /\ buf = <<>> /\ ctl = NoCtl
  /\ ret = [err |-> 0, closed |-> FALSE] /\ result = NoResult

-----------------------------------------------------------------------------
(* The peer                                                                *)

Answer(kind) ==
  /\ sock = "open" /\ peer = "up" /\ asked # <<>>
  /\ outgoing' = outgoing \o Response(Head(asked), kind)
  /\ asked' = Tail(asked)
  /\ UNCHANGED <<fd, peer, got, inbuf, sess, pc, locals, ret, result>>

Deliver ==
  /\ sock = "open" /\ peer = "up"
  /\ \E m \in 1..Len(outgoing) :
       /\ inbuf' = inbuf \o SubSeq(outgoing, 1, m)
       /\ outgoing' = SubSeq(outgoing, m + 1, Len(outgoing))
  /\ UNCHANGED <<fd, peer, got, asked, sess, pc, locals, ret, result>>

(* The peer shuts down, which some systems report as POLLHUP, or aborts.   *)
Leave(how) ==
  /\ sock = "open"
  /\ peer = "up" \/ (peer # "rst" /\ how = "rst")
  /\ peer' = how
  /\ UNCHANGED <<fd, got, asked, outgoing, inbuf, sess, pc, locals, ret, result>>

(* What poll reports of the descriptor.  An abort shows as POLLIN, too.    *)
Readable == inbuf # <<>> \/ peer # "up"
PollErr == sock = "open" /\ peer = "rst"
PollHup == sock = "open" /\ peer = "hup"
PollNval == sock # "open"
PollIn == sock = "open" /\ peer # "rst" /\ Readable

(* The kernel may have no room for what is to be sent.                     *)
PollOut == sock = "open" /\ peer # "rst" /\ ~PollHup

Close == sock' = "closed" /\ closes' = closes + 1

Give(err, closed) == ret' = [err |-> err, closed |-> closed]

-----------------------------------------------------------------------------
(* Opening and closing                                                     *)

NewConnection ==
  /\ sock' = "open" /\ closes' = 0 /\ ended' = 0
  /\ peer' = "up" /\ got' = 0 /\ asked' = <<>> /\ outgoing' = <<>> /\ inbuf' = <<>>

(* openSession, when it connects; its assert fails on a session whose      *)
(* is_open is set.                                                         *)
OpenSession ==
  /\ pc = "idle" /\ "session" \in Calls /\ call.n < MaxCalls
  /\ \/ isOpen /\ pc' = "aborted" /\ UNCHANGED <<fd, net, sess>>
     \/ ~isOpen /\ NewConnection /\ isOpen' = TRUE /\ UNCHANGED pc
  /\ result' = NoResult
  /\ UNCHANGED <<locals, ret>>

(* closeSession does not reset is_open: called again, it closes the same   *)
(* number again, and returns 0 again.                                      *)
CloseSession ==
  /\ pc = "idle" /\ isOpen /\ ended < MaxCloses
  /\ Close /\ ended' = ended + 1
  /\ UNCHANGED <<net, isOpen, pc, locals, ret, result>>

(* A call begins: its locals.                                              *)
Begin(name) ==
  /\ pc = "idle" /\ name \in Calls /\ call.n < MaxCalls
  /\ call' = [name |-> name, n |-> call.n + 1]
  /\ sent' = 0 /\ buf' = <<>> /\ ctl' = NoCtl
  /\ Give(0, FALSE)
  /\ result' = NoResult

(* httpRawRequestInSession                                                 *)
BeginSession ==
  /\ isOpen /\ Begin("session") /\ pc' = "sendPoll"
  /\ UNCHANGED <<fd, net, sess>>

(* newSocketSendReceiveClose: connectSocket connects ...                   *)
BeginConnected ==
  /\ ~isOpen /\ \E name \in {"raw", "http"} : Begin(name)
  /\ NewConnection /\ pc' = "sendPoll"
  /\ UNCHANGED isOpen

(* ... or fails, and there is no descriptor.                               *)
BeginUnconnected ==
  /\ ~isOpen /\ pc = "idle" /\ call.n < MaxCalls
  /\ \E name \in Calls \cap {"raw", "http"} :
       /\ call' = [name |-> name, n |-> call.n + 1]
       /\ result' = [NoResult EXCEPT !.name = name, !.n = call.n + 1, !.err = 1]
  /\ sock' = "none" /\ closes' = 0
  /\ UNCHANGED <<net, sess, pc, sent, buf, ctl, ret>>

-----------------------------------------------------------------------------
(* sendAllData                                                             *)

(* poll times out (nothing is an error then), fails, or reports one of the *)
(* three that end the call.                                                *)
SendStops ==
  /\ pc = "sendPoll" /\ sent < ReqLen /\ pc' = "sendDone"
  /\ \/ ~PollErr /\ ~PollHup /\ ~PollNval /\ Give(0, FALSE) /\ UNCHANGED fd
     \/ Give(1, FALSE) /\ UNCHANGED fd
     \/ (PollErr \/ PollHup) /\ Close /\ Give(-1, TRUE)
     \/ PollNval /\ Give(-1, TRUE) /\ UNCHANGED fd
  /\ UNCHANGED <<net, sess, locals, result>>

SendReady ==
  /\ pc = "sendPoll" /\ sent < ReqLen /\ PollOut /\ pc' = "send"
  /\ UNCHANGED <<fd, net, sess, locals, ret, result>>

(* Mutant of Send: it is given the length of the whole request each time.  *)
SendWhole ==
  /\ pc = "send" /\ pc' = "sendPoll"
  /\ \E m \in 1..ReqLen :
       /\ sent' = sent + m /\ got' = got + m
       /\ asked' = IF (got + m) \div ReqLen > got \div ReqLen
                     THEN Append(asked, call.n) ELSE asked
  /\ UNCHANGED <<fd, peer, outgoing, inbuf, sess, call, buf, ctl, ret, result>>

(* send takes some of the rest.  It fails if the connection was aborted    *)
(* after the poll, which the assert takes for impossible.                  *)
Send ==
  /\ pc = "send"
  /\ \/ /\ peer = "rst" /\ pc' = "aborted" /\ UNCHANGED <<sent, got, asked>>
     \/ /\ peer # "rst" /\ pc' = "sendPoll"
        /\ \E m \in 1..(ReqLen - sent) :
             /\ sent' = sent + m /\ got' = got + m
             /\ asked' = IF (got + m) \div ReqLen > got \div ReqLen
                           THEN Append(asked, call.n) ELSE asked
  /\ UNCHANGED <<fd, peer, outgoing, inbuf, sess, call, buf, ctl, ret, result>>

SendAll ==
  /\ pc = "sendPoll" /\ sent = ReqLen /\ pc' = "sendDone" /\ Give(0, FALSE)
  /\ UNCHANGED <<fd, net, sess, locals, result>>

-----------------------------------------------------------------------------
(* What the callers do with the results.                                   *)

(* HANDLE_REQUEST_ERR and the returns of newSocketSendReceiveClose; in a   *)
(* session, is_open follows closed_sock.                                   *)
CallReturns(err, closing) ==
  /\ IF call.name # "session" /\ closing THEN Close ELSE UNCHANGED fd
  /\ isOpen' = (isOpen /\ ~(call.name = "session" /\ ret.closed))
  /\ result' = [result EXCEPT !.name = call.name, !.n = call.n, !.err = err]
  /\ pc' = "idle"
  /\ UNCHANGED <<net, ended, locals, ret>>

(* After sendAllData                                                       *)
SendFailed ==
  /\ pc = "sendDone" /\ (ret.err # 0 \/ ret.closed)
  /\ CallReturns(IF call.name = "session" THEN ret.err ELSE 1,
                 ~ret.closed /\ ret.err > 0)

SendSucceeded ==
  /\ pc = "sendDone" /\ ret.err = 0 /\ ~ret.closed /\ pc' = "wait"
  /\ UNCHANGED <<fd, net, sess, locals, ret, result>>

(* After waitThenRecvAllData: an error above 0 leaves the socket open, and *)
(* so does success unless closed_sock says otherwise.                      *)
WaitReturned ==
  /\ pc = "waitDone"
  /\ CallReturns(IF call.name = "session" \/ ret.err = 0 THEN ret.err ELSE 1,
                 IF ret.err = 0 THEN ~ret.closed ELSE ret.err > 0)

-----------------------------------------------------------------------------
(* waitThenRecvAllData                                                     *)

(* The first poll ends the call: it times out, fails, or reports one of the*)
(* three.  POLLHUP is success, and *out is not set.                        *)
WaitStops ==
  /\ pc = "wait" /\ pc' = "waitDone"
  /\ \/ ~PollErr /\ ~PollIn /\ ~PollNval /\ Give(1, FALSE) /\ UNCHANGED fd
     \/ Give(1, FALSE) /\ UNCHANGED fd
     \/ PollErr /\ Close /\ Give(-1, TRUE)
     \/ PollHup /\ Close /\ Give(0, TRUE)
     \/ PollNval /\ Give(-1, TRUE) /\ UNCHANGED fd
  /\ UNCHANGED <<net, sess, locals, result>>

Controlled == call.name # "raw"

(* optMin: the smaller one, where a negative one is no limit.              *)
optMin(a, b) ==
  IF a < 0 /\ b < 0 THEN -1 ELSE IF a < 0 \/ (b >= 0 /\ b <= a) THEN b ELSE a

(* Mutant of Batch: two units at a time.                                   *)
BatchOfTwo == 2

(* HTTP_RECV_CONTROLLER_INIT_BATCH_RECV_SIZE, "this has to be 1".          *)
Batch == 1

(* The next batch, within the limit of the caller.                         *)
NextBatch(n) == optMin(n + Batch, MaxResponse)

(* An end of a line is in b; the end of the header is among the last units.*)
HasLine(b) == \E i \in DOMAIN b : b[i].at \in {LineEnd, HeaderEnd}
HasHeader(b) == \E i \in DOMAIN b : i > Len(b) - Batch /\ b[i].at = HeaderEnd
HeaderSize(b) == CHOOSE i \in DOMAIN b :
                   b[i].at = HeaderEnd /\ \A j \in 1..(i - 1) : b[j].at # HeaderEnd

(* httpReceiveController with b received: phase 0 runs before anything is. *)
Controller(c, b) ==
  LET n == Len(b) IN
  CASE c.phase = 0 -> [c EXCEPT !.phase = 1, !.max = NextBatch(n)]
    [] c.phase = 1 /\ ~HasLine(b) -> [c EXCEPT !.max = NextBatch(n)]
    [] c.phase = 1 /\ HasLine(b) /\ b[1].at # 1 ->
         [c EXCEPT !.max = NextBatch(n), !.act = "reject"]
    [] c.phase = 1 /\ HasLine(b) /\ b[1].at = 1 ->
         IF b[1].kind = "close"
           THEN [c EXCEPT !.version = "1.0", !.phase = 2, !.max = MaxResponse]
           ELSE [c EXCEPT !.version = "1.1", !.phase = 2, !.max = NextBatch(n)]
    [] c.phase = 2 /\ c.version = "1.1" /\ ~HasHeader(b) -> [c EXCEPT !.max = NextBatch(n)]
    [] c.phase = 2 /\ c.version = "1.1" /\ HasHeader(b) ->
         IF b[1].kind = "chunked"
           THEN [c EXCEPT !.phase = 3, !.act = "reject"]
           ELSE [c EXCEPT !.phase = 4, !.clen = Total - HeaderEnd,
                          !.max = optMin(Total - HeaderEnd + HeaderSize(b)
                                         - (n - HeaderSize(b)), MaxResponse)]
    [] OTHER -> c

(* recvAllData begins: the controller is called with nothing received.     *)
WaitReady ==
  /\ pc = "wait" /\ PollIn /\ ~PollHup /\ pc' = "recvTest"
  /\ ctl' = IF Controlled THEN Controller(ctl, <<>>) ELSE ctl
  /\ UNCHANGED <<fd, net, sess, call, sent, buf, ret, result>>
-----------------------------------------------------------------------------
(* recvAllData                                                             *)

(* done: the code of the call, unless more was received than max_len; on   *)
(* success waitThenRecvAllData sets *out.                                  *)
RecvDone(err, closed, b, c) ==
  LET e == IF c.max >= 0 /\ Len(b) > c.max THEN 1 ELSE err IN
  /\ Give(e, closed)
  /\ result' = [result EXCEPT !.set = (e = 0), !.out = IF e = 0 THEN b ELSE <<>>]
  /\ pc' = "waitDone"

More == ctl.max < 0 \/ Len(buf) < ctl.max

RecvEnough ==
  /\ pc = "recvTest" /\ ~More /\ RecvDone(0, FALSE, buf, ctl)
  /\ UNCHANGED <<fd, net, sess, locals>>

(* The poll of the loop ends it: a timeout is an error except for "raw".   *)
RecvStops ==
  /\ pc = "recvTest" /\ More
  /\ \/ /\ ~PollErr /\ ~PollIn
        /\ RecvDone(IF Controlled THEN 1 ELSE 0, FALSE, buf, ctl) /\ UNCHANGED fd
     \/ RecvDone(1, FALSE, buf, ctl) /\ UNCHANGED fd
     \/ PollErr /\ Close /\ RecvDone(-1, TRUE, buf, ctl)
  /\ UNCHANGED <<net, sess, locals>>

RecvReady ==
  /\ pc = "recvTest" /\ More /\ PollIn /\ pc' = "recv"
  /\ UNCHANGED <<fd, net, sess, locals, ret, result>>

(* Mutants of RecvEof: the callers do not learn that the socket is closed, *)
RecvEofSilent ==
  /\ pc = "recv" /\ inbuf = <<>>
  /\ Close /\ RecvDone(0, FALSE, buf, ctl)
  /\ UNCHANGED <<net, sess, locals>>

(* or the end of the stream is not noticed.                                *)
RecvEofAgain ==
  /\ pc = "recv" /\ inbuf = <<>> /\ pc' = "recvTest"
  /\ UNCHANGED <<fd, net, sess, locals, ret, result>>

(* recv returns 0: the descriptor is closed, and the call ends.            *)
RecvEof ==
  /\ pc = "recv" /\ inbuf = <<>>
  /\ Close /\ RecvDone(0, TRUE, buf, ctl)
  /\ UNCHANGED <<net, sess, locals>>

(* recv takes what is there, within max_len; then the controller decides.  *)
Recv ==
  /\ pc = "recv" /\ inbuf # <<>>
  /\ LET room == ctl.max - Len(buf)
         m == IF ctl.max < 0 \/ Len(inbuf) < room THEN Len(inbuf) ELSE room
         b == buf \o SubSeq(inbuf, 1, m)
         c == IF Controlled THEN Controller(ctl, b) ELSE ctl
     IN  /\ inbuf' = SubSeq(inbuf, m + 1, Len(inbuf))
         /\ buf' = b /\ ctl' = c
         /\ IF c.act = "reject"
              THEN RecvDone(1, FALSE, b, c)
              ELSE pc' = "recvTest" /\ UNCHANGED <<ret, result>>
  /\ UNCHANGED <<fd, peer, got, asked, outgoing, sess, call, sent>>

-----------------------------------------------------------------------------
ClientStep ==
  \/ SendStops \/ SendReady \/ Send \/ SendAll \/ SendFailed \/ SendSucceeded
  \/ WaitStops \/ WaitReady \/ WaitReturned
  \/ RecvEnough \/ RecvStops \/ RecvReady \/ RecvEof \/ Recv

Begins == OpenSession \/ CloseSession \/ BeginSession \/ BeginConnected \/ BeginUnconnected

Ways == {"fin", "rst"} \cup {x \in {"hup"} : HupOnFin}

PeerStep == Deliver \/ (\E kind \in Kinds : Answer(kind)) \/ \E how \in Ways : Leave(how)

Next == ClientStep \/ Begins \/ PeerStep

Spec == Init /\ [][Next]_vars

(* The thread runs.  Nothing is assumed of the peer or of timeouts.        *)
FairSpec == Spec /\ WF_vars(ClientStep)

-----------------------------------------------------------------------------
(* Properties                                                              *)

Ctls == [phase : 0..4, version : {"none", "1.0", "1.1"}, clen : Nat, max : Int,
         act : {"none", "reject"}]
Rets == [err : {-1, 0, 1}, closed : BOOLEAN]
Results == [name : CallNames \cup {"none"}, n : 0..MaxCalls, err : {-1, 0, 1},
            set : BOOLEAN, out : Seq(Unit)]

TypeOK ==
  /\ sock \in {"none", "open", "closed"} /\ closes \in Nat
  /\ peer \in {"up", "fin", "hup", "rst"} /\ got \in Nat /\ asked \in Seq(1..MaxCalls)
  /\ outgoing \in Seq(Unit) /\ inbuf \in Seq(Unit) /\ buf \in Seq(Unit)
  /\ isOpen \in BOOLEAN /\ ended \in 0..MaxCloses
  /\ pc \in {"idle", "sendPoll", "send", "sendDone", "wait", "recvTest", "recv",
             "waitDone", "aborted"}
  /\ call \in [name : CallNames \cup {"none"}, n : 0..MaxCalls] /\ sent \in 0..ReqLen
  /\ ctl \in Ctls /\ ret \in Rets /\ result \in Results

Returned == pc = "idle" /\ result.name # "none"
Succeeded == Returned /\ result.err = 0

(* Whatever fails at whatever point, a descriptor is closed by one party   *)
(* only: once by the functions that a call goes through, or by closeSession*)
(* each time that it is called, and never by both.  And                    *)
(* newSocketSendReceiveClose returns with its descriptor closed.           *)
Closings == IF sock # "closed" THEN 0 ELSE IF ended = 0 THEN 1 ELSE ended
ClosedByOneParty ==
  /\ closes = Closings
  /\ Returned /\ result.name # "session" => sock # "open"

(* Until closeSession is called, is_open says whether the connection is    *)
(* open, also after the calls in which the socket was closed underneath.   *)
SessionTracksSocket ==
  pc = "idle" /\ ended = 0 /\ sock # "none" => (isOpen <=> sock = "open")

(* The inductive strengthening of the two invariants above.                *)

(* What is_open says of the descriptor, and the state between calls.       *)
SessionState ==
  /\ isOpen => sock # "none"
  /\ sock = "open" => ended = 0
  /\ pc = "idle" => ((sock = "open") <=> (isOpen /\ ended = 0))
  /\ pc = "idle" /\ result.name \notin {"none", "session"} => ~isOpen

InCall == pc \notin {"idle", "aborted"}
Returning == pc \in {"sendDone", "waitDone"}

(* A call works on an open descriptor, except for a session that its owner *)
(* has closed, whose first poll ends it.                                   *)
CallState ==
  /\ InCall => call.n > 0 /\ call.name \in CallNames /\ ((call.name = "session") <=> isOpen)
  /\ InCall /\ ~Returning /\ sock # "open" => pc = "sendPoll" /\ sent = 0 /\ isOpen /\ ended > 0
  /\ pc = "recv" => More

(* closed_sock is the truth, and only a negative error goes with it.       *)
ReturnState ==
  /\ Returning => sock # "none"
  /\ Returning /\ ret.closed => sock = "closed" /\ ret.err # 1
  /\ Returning /\ ~ret.closed =>
       ret.err # -1 /\ (sock = "open" \/ (ret.err = 1 /\ isOpen /\ ended > 0))

(* connectSocket, sendAllData, recvAllData, the functions that call them,  *)
(* openSession and closeSession preserve this.                             *)
IInv ==
  /\ TypeOK
  /\ closes = Closings
  /\ SessionState /\ CallState /\ ReturnState

IsResponse(b) == \E n \in 1..MaxCalls, kind \in Kinds : b = Response(n, kind)

(* The controller stops at the end of a response: what a call returns while*)
(* the connection stays open is a whole response, no more and no less.     *)
OutIsOneResponse ==
  Succeeded /\ result.name # "raw" /\ ~ret.closed => IsResponse(result.out)

(* Why, if there is no limit: what the peer sends is responses one after   *)
(* the other, from whatever place in one a failed call has left it at;     *)
Follows(u, v) == v = [u EXCEPT !.at = @ + 1] \/ (u.at = Total /\ v.at = 1)
Chain(s) == \A i \in 1..(Len(s) - 1) : Follows(s[i], s[i + 1])
Whole(s) == Chain(s) /\ (s # <<>> => s[Len(s)].at = Total)
Taken == IF InCall THEN buf ELSE <<>>
Stream == Taken \o inbuf \o outgoing
StreamOK == Whole(Stream)

(* the controller asks for one unit after the other until it has seen the  *)
(* ends of a first line and of a header, and then for the rest;            *)
FromStart(b) == b # <<>> /\ b[1].at = 1
Asks(c, b) ==
  \/ c.phase = 1 /\ c.max = Len(b) + 1 /\ ~HasLine(b)
  \/ c.phase = 2 /\ c.version = "1.0" /\ c.max = MaxResponse
  \/ /\ c.phase = 2 /\ c.version = "1.1" /\ c.max = Len(b) + 1
     /\ FromStart(b) /\ Len(b) < HeaderEnd
  \/ c.phase = 4 /\ c.max = Total /\ FromStart(b) /\ Len(b) <= Total
ControllerOK ==
  /\ pc \in {"sendPoll", "send", "sendDone", "wait"} => buf = <<>> /\ ctl = NoCtl
  /\ pc \in {"recvTest", "recv"} /\ Controlled => Asks(ctl, buf)

(* and recvAllData succeeds with the socket open when it has all of it.    *)
OutOK == pc = "waitDone" /\ Controlled /\ ret.err = 0 /\ ~ret.closed => IsResponse(result.out)

ResponseInv == StreamOK /\ ControllerOK /\ OutOK /\ OutIsOneResponse

(* Every call returns, or an assert fails.                                 *)
EveryCallReturns == pc # "idle" ~> pc \in {"idle", "aborted"}

-----------------------------------------------------------------------------
(* What the documentation or an assert says and the code does not do: TLC  *)
(* refutes each of these; README.md tells with which constants, and how.   *)

(* net_includes.h:67 promises of sendAllData "0 on success": then it has   *)
(* sent everything.                                                        *)
SuccessMeansSent == pc = "sendDone" /\ ret.err = 0 => sent = ReqLen

(* utils.c:149 asserts that send cannot fail, "because of the poll".       *)
SendAssertHolds == pc # "aborted"

(* sock.h:48: *out is written if newSocketSendReceiveClose is successful.  *)
SuccessSetsOut == Succeeded => result.set

(* net_includes.h:76 promises no limit if max_len is 0: nothing is received*)
(* only if the connection ends.                                            *)
ZeroIsNoLimit == Succeeded /\ MaxResponse = 0 /\ result.out = <<>> => ret.closed

(* sock.h:53: a response above max_response_size is rejected.              *)
TooBigIsRejected ==
  Succeeded /\ MaxResponse > 0 /\ result.name # "raw" /\ ~ret.closed => IsResponse(result.out)

(* request.h:46: what a request in a session returns is "the response".    *)
AnswerIsToThisRequest ==
  Succeeded /\ result.name = "session" =>
    \A i \in DOMAIN result.out : result.out[i].call = result.n

(* request_networking.c:56 asks the callers to test is_open: it means that *)
(* the session has a connection.                                           *)
OpenSessionIsConnected == pc = "idle" /\ isOpen => sock = "open"

(* request.h:57 says of closeSession "0 means success": a session can be   *)
(* closed successfully once, as its descriptor can.                        *)
SessionIsClosedOnce == ended < 2
=============================================================================
