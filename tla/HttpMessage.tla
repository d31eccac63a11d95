----------------------------- MODULE HttpMessage -----------------------------
(***************************************************************************)
(* Requests and responses, how lib/http/serialization.c prints them and    *)
(* what lib/http/parsing.c makes of a text.  A text is a sequence of units *)
(* that none of the functions splits: a line end, a space, a word of       *)
(* letters, a digit, an HTTP version, or something else.  A word that      *)
(* begins with the name of a method is two units.  Positions count from 1; *)
(* the StringRef that the C functions advance is the rest from a position. *)
(***************************************************************************)
EXTENDS Integers, SequencesExt

CONSTANTS
  Words,   (* words of letters that are not methods                        *)
  Marks    (* units that are none of the others                            *)

Methods == {"GET", "HEAD", "POST", "PUT", "DELETE", "CONNECT", "OPTIONS", "TRACE", "PATCH"}
Letters == Methods \cup Words
Digit == <<"0", "1", "2", "3", "4", "5", "6", "7", "8", "9">>
Digits == {Digit[i] : i \in 1..10}
NumberOf(u) == (CHOOSE i \in 1..10 : Digit[i] = u) - 1

(* The versions that parseHttpVersion takes, and as what.                  *)
VersionOf == [u \in {"HTTP/0.9", "HTTP/1.0", "HTTP/1.1", "HTTP/2.0"} |->
                CASE u = "HTTP/0.9" -> 9 [] u = "HTTP/1.0" -> 10 [] OTHER -> 11]
VersionUnit(v) == CASE v = 9 -> "HTTP/0.9" [] v = 10 -> "HTTP/1.0" [] v = 11 -> "HTTP/1.1"

Units == Letters \cup Digits \cup DOMAIN VersionOf \cup Marks
         \cup {"crlf", "sp", ":", "/", "Content-Length"}
Text == Seq(Units)

(* No unit is two of these, and "end" is none.                             *)
ASSUME HttpMessageAssumption ==
  /\ \A S \in {Words, Marks} :
       S \cap (Methods \cup Digits \cup DOMAIN VersionOf
               \cup {"crlf", "sp", ":", "/", "Content-Length", "end"}) = {}
  /\ Words \cap Marks = {}

-----------------------------------------------------------------------------
(* Messages                                                                *)

Field == [name : Text, value : Text]

(* HttpHeader: the fields count for a struct, the text for both strings.   *)
Header == [type : {"struct", "string", "owned"}, fields : Seq(Field), text : Text]
StructHead(fields) == [type |-> "struct", fields |-> fields, text |-> <<>>]
StringHead(text) == [type |-> "string", fields |-> <<>>, text |-> text]

(* HttpRequest and HttpResponse in one.                                    *)
Message == [kind : {"request", "response"}, method : Methods, url : Text, code : Nat,
            msg : Text, version : {9, 10, 11}, head : Header, body : Text]
Request(method, url, v) ==
  [kind |-> "request", method |-> method, url |-> url, code |-> 0, msg |-> <<>>,
   version |-> v, head |-> StructHead(<<>>), body |-> <<>>]
Response(v, code, msg) ==
  [kind |-> "response", method |-> "GET", url |-> <<>>, code |-> code, msg |-> msg,
   version |-> v, head |-> StructHead(<<>>), body |-> <<>>]

(* isValidHttpRequest: "host" is compared with the 0 byte that follows it. *)
(* No field of a struct has such a name; in a text, not finding it is good.*)
IsValid(m) == m.version = 11 => m.head.type # "struct"

-----------------------------------------------------------------------------
(* Serialization: the pieces in the order in which they are appended       *)

(* serializeStatusCode prints the last three digits.                       *)
CodeUnits(c) == <<Digit[((c \div 100) % 10) + 1], Digit[((c \div 10) % 10) + 1],
                  Digit[(c % 10) + 1]>>

FieldPieces(fields) ==
  [i \in 1..(4 * Len(fields)) |->
     LET f == fields[(i + 3) \div 4]
     IN  CASE i % 4 = 1 -> f.name [] i % 4 = 2 -> <<":">>
           [] i % 4 = 3 -> f.value [] OTHER -> <<"crlf">>]

(* serializeHttpHeader, which refuses an owned string.                     *)
HeadPieces(h) ==
  CASE h.type = "struct" -> FieldPieces(h.fields)
    [] h.type = "string" -> <<h.text>>
    [] OTHER -> <<>>
Printable(m) == m.head.type # "owned"

LinePieces(m) ==
  IF m.kind = "request"
    THEN <<<<m.method>>, <<"sp">>, m.url, <<"sp">>, <<VersionUnit(m.version)>>, <<"crlf">>>>
    ELSE <<<<VersionUnit(m.version)>>, <<"sp">>, CodeUnits(m.code), <<"sp">>, m.msg, <<"crlf">>>>

(* serializeHttpRequest and serializeHttpResponse, up to where they fail.  *)
Pieces(m) ==
  LinePieces(m) \o HeadPieces(m.head)
  \o (IF ~Printable(m) THEN <<>>
      ELSE IF m.body = <<>> THEN <<<<"crlf">>>> ELSE <<<<"crlf">>, m.body>>)

(* The text of a message.                                                  *)
Printed(m) == FlattenSeq(Pieces(m))

-----------------------------------------------------------------------------
(* Parsing                                                                 *)

At(t, j) == IF j \in 1..Len(t) THEN t[j] ELSE "end"

Lowest(S) == CHOOSE j \in S : \A k \in S : j <= k
Highest(S) == CHOOSE j \in S : \A k \in S : k <= j

(* Where the units of S that begin at i end, and where the first one is.   *)
Skip(t, i, S) == Lowest({j \in i..(Len(t) + 1) : At(t, j) \notin S})
Until(t, i, S) == Lowest({j \in i..(Len(t) + 1) : At(t, j) \in S \cup {"end"}})

Failed == [outcome |-> "error"]

(* The function reads beyond the end of the text.                          *)
Overrun == [outcome |-> "overrun"]

LineEnds(t, i) == {j \in i..Len(t) : t[j] = "crlf"}

(* The empty lines of what begins at i.                                    *)
BlankLines(t, i) == {j \in LineEnds(t, i) : j = i \/ t[j - 1] = "crlf"}

(* Mutant of FieldEnds: the count does not stop at the empty line.         *)
AllLineEnds(t, i) == IF At(t, i) = "crlf" THEN {} ELSE LineEnds(t, i)

(* The lines that parseHeaderStruct counts: those before an empty one.     *)
FieldEnds(t, i) == {j \in LineEnds(t, i) : \A b \in BlankLines(t, i) : j < b}

LineStart(t, i, e) == Highest({i} \cup {d + 1 : d \in {d \in LineEnds(t, i) : d < e}})

(* parseHeaderField on the line from s to e: the name is a word, and the   *)
(* line is not the last thing in the text.                                 *)
GoodField(t, s, e) == At(t, Skip(t, s, Letters)) = ":" /\ e < Len(t)

(* Mutant of FieldAt: one space is skipped.                                *)
FieldAfterOneSpace(t, s, e) ==
  LET c == Skip(t, s, Letters)
      v == IF At(t, c + 1) = "sp" THEN c + 2 ELSE c + 1
  IN  [name |-> SubSeq(t, s, c - 1), value |-> SubSeq(t, v, e - 1)]

(* The field itself, without the spaces before its value.                  *)
FieldAt(t, s, e) ==
  LET c == Skip(t, s, Letters)
      v == Skip(t, c + 1, {"sp"})
  IN  [name |-> SubSeq(t, s, c - 1), value |-> SubSeq(t, v, e - 1)]

(* The element of S before which there are k - 1.                          *)
Nth(S, k) == CHOOSE e \in S : Cardinality({d \in S : d < e}) = k - 1

(* The loops of parseHeaderStruct: count the lines, take as many fields,   *)
(* and be at a line end then.                                              *)
HeaderFields(t, i) ==
  LET ends == FieldEnds(t, i)
      next == IF ends = {} THEN i ELSE Highest(ends) + 1
      fields == [k \in 1..Cardinality(ends) |->
                   LET e == Nth(ends, k) IN FieldAt(t, LineStart(t, i, e), e)]
  IN  IF At(t, next) = "crlf" /\ \A e \in ends : GoodField(t, LineStart(t, i, e), e)
        THEN [outcome |-> "ok", head |-> StructHead(fields), next |-> next]
        ELSE Failed

(* Mutant of ParseHeaderStruct: the count looks one unit further.          *)
ParseHeaderFurther(t, i) == IF i >= Len(t) THEN Overrun ELSE HeaderFields(t, i)

(* parseHeaderStruct from i.  With nothing left, len - 1 wraps around.     *)
ParseHeaderStruct(t, i) == IF i > Len(t) THEN Overrun ELSE HeaderFields(t, i)

(* parseHeaderString from i: is_beginning has the opposite sense, so that  *)
(* it stops at the first line end after i, with an empty header; without   *)
(* one it reads on.  What follows the loop is never reached.               *)
ParseHeaderString(t, i) ==
  IF LineEnds(t, i + 1) = {} THEN Overrun
  ELSE [outcome |-> "ok", head |-> StringHead(<<>>), next |-> Lowest(LineEnds(t, i + 1))]

(* Mutant of ParseRest: the line end is left to the body.                  *)
ParseRestEarly(t, i, asStruct, m) ==
  LET h == IF asStruct THEN ParseHeaderStruct(t, i) ELSE ParseHeaderString(t, i)
  IN  IF h.outcome # "ok" THEN h
      ELSE [outcome |-> "ok",
            msg |-> [m EXCEPT !.head = h.head, !.body = SubSeq(t, h.next, Len(t))]]

(* The header, a line end and the body, after the first line.              *)
ParseRest(t, i, asStruct, m) ==
  LET h == IF asStruct THEN ParseHeaderStruct(t, i) ELSE ParseHeaderString(t, i)
  IN  IF h.outcome # "ok" THEN h
      ELSE [outcome |-> "ok",
            msg |-> [m EXCEPT !.head = h.head, !.body = SubSeq(t, h.next + 1, Len(t))]]

(* The request line of one URL: parseURL stops at a space only, where no   *)
(* line end can be.                                                        *)
ParseSimpleRequest(t, asStruct) ==
  LET u == Until(t, 1, {"sp"})
  IN  IF At(t, u) = "crlf"
        THEN ParseRest(t, u + 1, asStruct, Request("GET", SubSeq(t, 1, u - 1), 9))
        ELSE Failed

(* parseHttpRequest: the first word begins with the name of a method.      *)
ParseRequest(t, asStruct) ==
  LET w == Skip(t, 1, Letters)
      u == Until(t, w + 1, {"sp"})
  IN  IF At(t, 1) = "/" THEN ParseSimpleRequest(t, asStruct)
      ELSE IF /\ At(t, 1) \in Methods /\ At(t, w) = "sp"
              /\ u > w + 1 /\ At(t, u) = "sp"
              /\ At(t, u + 1) \in DOMAIN VersionOf /\ At(t, u + 2) = "crlf"
        THEN ParseRest(t, u + 3, asStruct,
                       Request(t[1], SubSeq(t, w + 1, u - 1), VersionOf[t[u + 1]]))
        ELSE Failed

(* parseHttpResponse: a code has three digits, and the first is 1 to 5.    *)
ParseResponse(t, asStruct) ==
  LET c == Skip(t, 3, Digits)
      e == Until(t, c + 1, {"crlf"})
  IN  IF /\ At(t, 1) \in DOMAIN VersionOf /\ At(t, 2) = "sp"
         /\ c = 6 /\ At(t, 3) \in {"1", "2", "3", "4", "5"} /\ At(t, 6) = "sp"
         /\ At(t, e) = "crlf"
        THEN ParseRest(t, e + 1, asStruct,
                       Response(VersionOf[t[1]],
                                100 * NumberOf(t[3]) + 10 * NumberOf(t[4]) + NumberOf(t[5]),
                                SubSeq(t, 7, e - 1)))
        ELSE Failed

Parse(kind, t, asStruct) ==
  IF kind = "request" THEN ParseRequest(t, asStruct) ELSE ParseResponse(t, asStruct)

(* What the grammar of the parser can express, and nothing in the fields   *)
(* of the other kind of message.                                           *)
WordsOnly(t) == \A i \in DOMAIN t : t[i] \in Letters
Without(t, u) == \A i \in DOMAIN t : t[i] # u
WellFormedField(f) ==
  WordsOnly(f.name) /\ Without(f.value, "crlf") /\ At(f.value, 1) # "sp"
WellFormed(m) ==
  /\ m.head = StructHead(m.head.fields)
  /\ \A i \in DOMAIN m.head.fields : WellFormedField(m.head.fields[i])
  /\ IF m.kind = "request"
       THEN m.url # <<>> /\ Without(m.url, "sp") /\ m.code = 0 /\ m.msg = <<>>
       ELSE m.code \in 100..599 /\ Without(m.msg, "crlf") /\ m.method = "GET" /\ m.url = <<>>
=============================================================================
