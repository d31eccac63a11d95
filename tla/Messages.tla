------------------------------- MODULE Messages -------------------------------
(***************************************************************************)
(* The way of a message: it is made by hand or with the builders of        *)
(* lib/http/request_misc.c, printed into a string builder (HELPER_STRINGIFY*)
(* of lib/http/request_networking.c), sent, received by recvAllData of     *)
(* lib/utils.c into another one, and parsed.  The other side need not run  *)
(* this code: what is received may differ from what was printed.           *)
(*                                                                         *)
(* HttpClient has the calls, polls and closes of sending and receiving;    *)
(* this module has the text, and the receive controller as a function of   *)
(* it.  Its batch of 1 makes that a function of what has been received.    *)
(***************************************************************************)
EXTENDS StringBuilder, HttpMessage, FiniteSets

CONSTANTS
  Outgoing,   (* the messages that are sent; requests for the builders     *)
  Added,      (* the fields that requestBuilderAddHeader is given          *)
  MaxAdded,   (* how many are added (bound)                                *)
  Noise,      (* the units by which a text that arrives may differ         *)
  Foreign,    (* texts that peers send of their own                        *)
  RecvMin,    (* sb_min_cap of recvAllData                                 *)
  MaxText     (* the bytes that are ever asked of a builder (bound)        *)

ASSUME MessagesAssumption ==
  /\ Outgoing \subseteq Message /\ Added \subseteq Field /\ Noise \subseteq Units /\ Foreign \subseteq Text
  /\ MaxAdded \in Nat /\ RecvMin \in Nat /\ MaxText \in Nat

VARIABLES
  at,       (* what is being done                                          *)
  msg,      (* the message that is sent                                    *)
  added,    (* the fields that were added (history)                        *)
  headSb,   (* head_builder                                                *)
  pieces,   (* what is still to be appended                                *)
  sb,       (* the builder that is printed to, then the one received into  *)
  stream,   (* what is on its way                                          *)
  got,      (* the string that was received                                *)
  result    (* what the parser returned, and how it was asked              *)

vars == <<at, msg, added, headSb, pieces, sb, stream, got, result>>

NoMessage == Request("GET", <<>>, 11)
NoResult == [asStruct |-> TRUE, parsed |-> Failed]

Init ==
  /\ at = "idle" /\ msg = NoMessage /\ added = <<>> /\ headSb = NoBuffer
  /\ pieces = <<>> /\ sb = NoBuffer /\ stream = <<>> /\ got = <<>> /\ result = NoResult

-----------------------------------------------------------------------------
(* The builders                                                            *)

(* newRequestBuilder or newResponseBuilder, and the body.                  *)
NewBuilder(m) ==
  /\ at = "idle" /\ at' = "build" /\ msg' = m
  /\ UNCHANGED <<added, headSb, pieces, sb, stream, got, result>>

(* Mutant of AddHeader: the line is not ended.                             *)
AddHeaderOpen(f) ==
  /\ at = "build" /\ Len(added) < MaxAdded
  /\ added' = Append(added, f)
  /\ \E b1 \in Appended(headSb, f.name) : \E b2 \in Appended(b1, <<":">>) :
       headSb' \in Appended(b2, f.value)
  /\ UNCHANGED <<at, msg, pieces, sb, stream, got, result>>

(* requestBuilderAddHeader and responseBuilderAddHeader.                   *)
AddHeader(f) ==
  /\ at = "build" /\ Len(added) < MaxAdded
  /\ Len(headSb.text) + Len(f.name) + Len(f.value) + 2 <= MaxText
  /\ added' = Append(added, f)
  /\ \E b1 \in Appended(headSb, f.name) : \E b2 \in Appended(b1, <<":">>) :
       \E b3 \in Appended(b2, f.value) : headSb' \in Appended(b3, <<"crlf">>)
  /\ UNCHANGED <<at, msg, pieces, sb, stream, got, result>>

(* The four functions that build: the text becomes an owned string.        *)
Build(destroy) ==
  /\ at = "build" /\ at' = "built"
  /\ msg' = [msg EXCEPT !.head = [type |-> "owned", fields |-> <<>>, text |-> headSb.text]]
  /\ headSb' = IF destroy THEN NoBuffer ELSE headSb
  /\ UNCHANGED <<added, pieces, sb, stream, got, result>>

-----------------------------------------------------------------------------
(* Printing                                                                *)

StartPrint(m) ==
  /\ at' = "print" /\ msg' = m /\ pieces' = Pieces(m) /\ sb' = NoBuffer
  /\ UNCHANGED <<added, headSb, stream, got, result>>

PrintMade == \E m \in Outgoing : at = "idle" /\ StartPrint(m)
PrintBuilt == at = "built" /\ StartPrint(msg)

PrintPiece ==
  /\ at = "print" /\ pieces # <<>>
  /\ Len(sb.text) + Len(Head(pieces)) <= MaxText
  /\ sb' \in Appended(sb, Head(pieces))
  /\ pieces' = Tail(pieces)
  /\ UNCHANGED <<at, msg, added, headSb, stream, got, result>>

(* HELPER_STRINGIFY returns at once, and its builder is gone.              *)
PrintFails ==
  /\ at = "print" /\ pieces = <<>> /\ ~Printable(msg) /\ at' = "failed"
  /\ UNCHANGED <<msg, added, headSb, pieces, sb, stream, got, result>>

(* stringBuilderBuildAndDestroy; the text is sent.                         *)
Send ==
  /\ at = "print" /\ pieces = <<>> /\ Printable(msg) /\ at' = "sent"
  /\ stream' = sb.text /\ sb' = NoBuffer
  /\ UNCHANGED <<msg, added, headSb, pieces, got, result>>

(* Another text that a peer may send: one unit more, less or different, or *)
(* something that follows; or one that this code would not print.          *)
Variants(t) ==
  {RemoveAt(t, i) : i \in DOMAIN t}
  \cup {InsertAt(t, i, u) : i \in 1..(Len(t) + 1), u \in Noise}
  \cup {[t EXCEPT ![i] = u] : i \in DOMAIN t, u \in Noise}

Differ ==
  /\ at = "sent" /\ stream = Printed(msg)
  /\ stream' \in Variants(stream) \cup Foreign
  /\ UNCHANGED <<at, msg, added, headSb, pieces, sb, got, result>>

-----------------------------------------------------------------------------
(* The receive controller, given what has been received                    *)

(* getHeaderSize: up to the first empty line.                              *)
HeaderEnds(t) == {j \in 2..Len(t) : t[j] = "crlf" /\ t[j - 1] = "crlf"}

(* Content-Length: anywhere in the header, whatever is around it.          *)
LengthFields(h) == {j \in 1..(Len(h) - 1) : h[j] = "Content-Length" /\ h[j + 1] = ":"}

(* A ssize_t, of two's complement.                                         *)
Wrapped(v) ==
  LET m == v % Pow2[2 * IntBits]
  IN  IF m >= Pow2[2 * IntBits - 1] THEN m - Pow2[2 * IntBits] ELSE m

(* strToUint: the digits, among which there may be spaces, or -1.          *)
ContentLength(h) ==
  LET from == Lowest(LengthFields(h)) + 2
      run == SubSeq(h, from, Skip(h, from, Digits \cup {"sp"}) - 1)
      value[k \in 0..Len(run)] ==
        IF k = 0 THEN 0
        ELSE IF run[k] = "sp" THEN value[k - 1]
        ELSE Wrapped(10 * value[k - 1] + NumberOf(run[k]))
  IN  IF \A k \in DOMAIN run : run[k] = "sp" THEN -1 ELSE value[Len(run)]

(* A max_len below 0 is no limit.                                          *)
NoLimit == -1
Limit(n) == [act |-> "receive", max |-> n]
Reject == [act |-> "reject", max |-> 0]

(* Mutant of EndOfMessage: the empty line is not counted.                  *)
EndBeforeBlank(t) ==
  LET h == SubSeq(t, 1, Lowest(HeaderEnds(t)))
  IN  IF LengthFields(h) = {} THEN Reject
      ELSE IF ContentLength(h) < 0 THEN Limit(Len(h))
      ELSE Limit(Wrapped(ContentLength(h) + Len(h) - 1))

(* When the header has ended: it and the body, or what there is if the     *)
(* length is not a number (max_len stays as it was), or no message.        *)
EndOfMessage(t) ==
  LET h == SubSeq(t, 1, Lowest(HeaderEnds(t)))
  IN  IF LengthFields(h) = {} THEN Reject
      ELSE IF ContentLength(h) < 0 THEN Limit(Len(h))
      ELSE Limit(Wrapped(ContentLength(h) + Len(h)))

(* httpReceiveController: byte by byte, until the version is known, then   *)
(* until the header ends; a 1.0 response ends with its connection.         *)
Controlled(t) ==
  CASE LineEnds(t, 1) = {} -> Limit(Len(t) + 1)
    [] LineEnds(t, 1) # {} /\ At(t, 1) \notin DOMAIN VersionOf -> Reject
    [] LineEnds(t, 1) # {} /\ At(t, 1) \in DOMAIN VersionOf ->
         IF VersionOf[t[1]] < 11 THEN Limit(NoLimit)
         ELSE IF HeaderEnds(t) = {} THEN Limit(Len(t) + 1)
         ELSE EndOfMessage(t)

-----------------------------------------------------------------------------
(* Receiving and parsing                                                   *)

(* The client receives responses with the controller, the server requests  *)
(* without one.                                                            *)
Command == IF msg.kind = "response" THEN Controlled(sb.text) ELSE Limit(NoLimit)
More == Command.max < 0 \/ Len(sb.text) < Command.max

(* The client and runServer make the builder with room for sb_min_cap      *)
(* bytes, so that recvAllData does not expand it before it receives.       *)
StartReceive ==
  /\ at = "sent" /\ at' = "receive"
  /\ sb' = NewBuffer(RecvMin)
  /\ UNCHANGED <<msg, added, headSb, pieces, stream, got, result>>

(* One recv: as much as there is room for, and no more than max_len.  If   *)
(* there is no room, bytes_to_read is -1, and that is no limit for recv.   *)
Receive ==
  /\ at = "receive" /\ Command.act = "receive" /\ More /\ stream # <<>>
  /\ Len(sb.text) + RecvMin <= MaxText
  /\ \E b \in IF sb.cap - Len(sb.text) < RecvMin
                THEN Expanded(sb, RecvMin + Len(sb.text)) ELSE {sb} :
       LET room == b.cap - Len(b.text)
       IN  \E n \in 1..Len(stream) :
             /\ room > 0 => /\ n <= room
                            /\ Command.max < 0 \/ Len(b.text) + n <= Command.max
             /\ sb' = [b EXCEPT !.text = @ \o SubSeq(stream, 1, n)]
             /\ stream' = SubSeq(stream, n + 1, Len(stream))
  /\ UNCHANGED <<at, msg, added, headSb, pieces, got, result>>

(* It returns: there is enough, or a timeout or the end of the connection  *)
(* is before the rest; the string is built.                                *)
Received ==
  /\ at = "receive" /\ Command.act = "receive" /\ at' = "received"
  /\ got' = sb.text /\ sb' = NoBuffer
  /\ UNCHANGED <<msg, added, headSb, pieces, stream, result>>

Rejected ==
  /\ at = "receive" /\ Command.act = "reject" /\ at' = "failed"
  /\ sb' = NoBuffer
  /\ UNCHANGED <<msg, added, headSb, pieces, stream, got, result>>

(* parseHttpRequest or parseHttpResponse                                   *)
ParseMessage(asStruct) ==
  /\ at = "received" /\ at' = "parsed"
  /\ result' = [asStruct |-> asStruct, parsed |-> Parse(msg.kind, got, asStruct)]
  /\ UNCHANGED <<msg, added, headSb, pieces, sb, stream, got>>

(* The application has freed what it owns, and begins anew.                *)
Finish ==
  /\ at \in {"failed", "parsed"} /\ at' = "idle"
  /\ msg' = NoMessage /\ added' = <<>> /\ headSb' = NoBuffer /\ pieces' = <<>>
  /\ sb' = NoBuffer /\ stream' = <<>> /\ got' = <<>> /\ result' = NoResult

-----------------------------------------------------------------------------
Next ==
  \/ \E m \in Outgoing : NewBuilder(m)
  \/ \E f \in Added : AddHeader(f)
  \/ \E destroy \in BOOLEAN : Build(destroy)
  \/ PrintMade \/ PrintBuilt \/ PrintPiece \/ PrintFails \/ Send \/ Differ
  \/ StartReceive \/ Receive \/ Received \/ Rejected
  \/ \E asStruct \in BOOLEAN : ParseMessage(asStruct)
  \/ Finish

Spec == Init /\ [][Next]_vars

-----------------------------------------------------------------------------
(* Properties                                                              *)

Builder == [cap : Nat, text : Text]
Parsed == [outcome : {"error", "overrun"}] \cup [outcome : {"ok"}, msg : Message]

TextsOK ==
  /\ msg \in Message /\ added \in Seq(Field) /\ pieces \in Seq(Text)
  /\ headSb \in Builder /\ sb \in Builder /\ stream \in Text /\ got \in Text

TypeOK ==
  /\ at \in {"idle", "build", "built", "print", "sent", "receive", "received", "parsed", "failed"}
  /\ TextsOK
  /\ result \in [asStruct : BOOLEAN, parsed : Parsed]

(* Nothing is written beyond a buffer, however a text is put together or   *)
(* arrives: the capacity that the shift of string_builder.c:33 gives is    *)
(* enough, and recvAllData asks recv for no more than it has room for.     *)
TextFits == Fits(headSb) /\ Fits(sb)

(* The header that the builders of request_misc.c have made is the one     *)
(* that serialization.c prints for the same fields.                        *)
BuilderAgreesWithPrinter ==
  at = "build" => headSb.text = FlattenSeq(FieldPieces(added))

InStructs == at = "parsed" /\ result.asStruct
Accepted == InStructs /\ result.parsed.outcome = "ok"

(* A message that is printed, cut into any chunks by the network and parsed*)
(* is the same message: nothing in a field, a URL or a body makes the scan *)
(* of parseHeaderStruct take one part for another.                         *)
ParseInvertsPrint ==
  InStructs /\ got = Printed(msg) /\ WellFormed(msg) =>
    result.parsed = [outcome |-> "ok", msg |-> msg]

(* Whatever text of whatever peer is accepted: printing and parsing the    *)
(* message again gives that message.                                       *)
ReparseIsStable ==
  Accepted => Parse(msg.kind, Printed(result.parsed.msg), TRUE) = result.parsed

(* parseHeaderStruct reads beyond the end only of a text that ends with the*)
(* first line; anything that is cut later is an error.                     *)
OnlyAFirstLineIsOverrun ==
  InStructs /\ result.parsed.outcome = "overrun" =>
    /\ got[Len(got)] = "crlf"
    /\ got[Len(got) - 1] # "crlf"
    /\ msg.kind = "response" => LineEnds(got, 1) = {Len(got)}

(* Where the parser begins the body of a response, the controller has ended*)
(* the header, by which it has counted the bytes of the body.              *)
ParserAgreesWithController ==
  Accepted /\ msg.kind = "response" =>
    /\ HeaderEnds(got) # {}
    /\ result.parsed.msg.body = SubSeq(got, Lowest(HeaderEnds(got)) + 1, Len(got))

(* A 1.1 response with one Content-Length, the length of its body.         *)
LengthField(m) == [name |-> <<"Content-Length">>, value |-> <<Digit[Len(m.body) + 1]>>]
Framed(m) ==
  /\ m.kind = "response" /\ m.version = 11 /\ m.head.type = "struct" /\ Len(m.body) < 10
  /\ Without(m.msg, "crlf") /\ Without(m.msg, "Content-Length")
  /\ \E k \in DOMAIN m.head.fields :
       /\ m.head.fields[k] = LengthField(m)
       /\ \A i \in DOMAIN m.head.fields \ {k} :
            LET f == m.head.fields[i].name \o m.head.fields[i].value
            IN  f # <<>> /\ Without(f, "Content-Length") /\ Without(f, "crlf")

(* Such a response is received to its end and not beyond, whatever follows *)
(* in the connection and however it arrives: what HttpClient assumes of    *)
(* Content-Length.                                                         *)
ControllerFindsTheEnd ==
  at = "receive" /\ Framed(msg) /\ IsPrefix(Printed(msg), sb.text \o stream) =>
    /\ Command.act = "receive"
    /\ IsPrefix(sb.text, Printed(msg))
    /\ ~More => sb.text = Printed(msg)

ResultIsParsed ==
  at = "parsed" => /\ result.asStruct \in BOOLEAN
                   /\ result.parsed = Parse(msg.kind, got, result.asStruct)

(* Inductive: the types of the texts, the buffers are large enough, and the*)
(* result is what the parser makes of the string.                          *)
IInv == TextsOK /\ TextFits /\ ResultIsParsed

(* Inductive with it: the header text of a builder begins empty.           *)
BuilderInv ==
  /\ at = "idle" => added = <<>> /\ headSb.text = <<>>
  /\ BuilderAgreesWithPrinter

(* Inductive with it: what is sent is the text of the message, and it is no*)
(* longer than what a builder is ever asked for.                           *)
PrintInv ==
  /\ at = "print" => /\ sb.text \o FlattenSeq(pieces) = Printed(msg)
                     /\ Len(sb.text) <= MaxText
  /\ at \in {"sent", "receive"} => Len(Printed(msg)) <= MaxText

(* Inductive with both: no byte beyond a framed response is received.      *)
ReceiveInv ==
  at = "receive" /\ Framed(msg) /\ IsPrefix(Printed(msg), sb.text \o stream) =>
    Len(sb.text) <= Len(Printed(msg))

-----------------------------------------------------------------------------
(* What the documentation or a test says and the code does not do: TLC     *)
(* refutes each of these; README.md tells with which constants, and how.   *)

(* parsing.c:302: "a request line containing only URI is allowed".         *)
SimpleRequestIsAllowed ==
  InStructs /\ msg.kind = "request" /\ got = <<"/", "crlf", "crlf">> =>
    result.parsed.outcome = "ok"

(* tests_local.c:13 expects that a request without fields is parsed with   *)
(* its header as a string.                                                 *)
StringModeSucceeds ==
  at = "parsed" /\ ~result.asStruct /\ got = Printed(msg) /\ WellFormed(msg) =>
    result.parsed.outcome = "ok"

(* serde.h:36: a header as a string is the header.                         *)
StringIsTheHeader ==
  at = "parsed" /\ ~result.asStruct /\ result.parsed.outcome = "ok"
    /\ got = Printed(msg) /\ WellFormed(msg) =>
    result.parsed.msg.head.text = FlattenSeq(HeadPieces(msg.head))

(* request_misc.c:106 sets found_host: a request with a Host field is valid*)
(* for isValidHttpRequest.                                                 *)
HostIsFound ==
  Accepted /\ msg.kind = "request"
    /\ (\E i \in DOMAIN msg.head.fields : msg.head.fields[i].name = <<"Host">>)
    /\ got = Printed(msg) =>
    IsValid(result.parsed.msg)

(* request.h:31 sends "a httpRequest using a Request struct": also those   *)
(* that requestBuilderBuild returns.                                       *)
BuiltCanBeSent == at = "failed" => Printable(msg)

(* A function that returns has freed its builder.                          *)
FailureFreesTheBuilder == at = "failed" => sb = NoBuffer

(* The responses that the client can receive are ones that it can parse.   *)
ReceivedCanBeParsed ==
  InStructs /\ got = Printed(msg) /\ Framed(msg) => result.parsed.outcome = "ok"

(* recv_controller.c:134 says "field value incomplete (wait for more data)"*)
(* of a length that is no number: the header alone is not returned then.   *)
WaitsForTheLength ==
  at = "received" /\ msg.kind = "response" /\ HeaderEnds(got) # {}
    /\ At(got, 1) = "HTTP/1.1" =>
    ContentLength(SubSeq(got, 1, Lowest(HeaderEnds(got)))) >= 0

(* A 1.1 response ends where its Content-Length says, be it ever so large. *)
LengthIsALimit ==
  at = "receive" /\ msg.kind = "response" /\ HeaderEnds(sb.text) # {}
    /\ At(sb.text, 1) = "HTTP/1.1" =>
    Command.max >= 0
=============================================================================
