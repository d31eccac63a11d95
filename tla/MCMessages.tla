------------------------------ MODULE MCMessages ------------------------------
EXTENDS Messages

F(name, value) == [name |-> name, value |-> value]
Host == F(<<"Host">>, <<"Host">>)
Empty == F(<<>>, <<>>)
Spaced == F(<<"Host">>, <<"sp", "Host">>)
Colon == F(<<"Host">>, <<":", "sp">>)
Length(d) == F(<<"Content-Length">>, d)

With(m, head, body) == [m EXCEPT !.head = head, !.body = body]

Heads == {StructHead(f) : f \in {<<>>, <<Host>>, <<Empty, Colon>>, <<Spaced>>}}
Bodies == {<<>>, <<"Host">>, <<"crlf", "crlf">>}

MCRequests ==
  {With(Request("GET", url, 11), h, b) :
     url \in {<<"/">>, <<"crlf">>}, h \in Heads, b \in Bodies}
MCResponses ==
  {With(Response(v, code, <<"Host">>), h, b) :
     v \in {10, 11}, code \in {204, 1599}, h \in Heads, b \in Bodies}
MCFramed ==
  {With(Response(11, 200, <<>>), StructHead(f), b) :
     f \in {<<Length(<<"2">>)>>, <<Length(<<"2">>), Host>>, <<Colon, Length(<<"0">>)>>,
            <<Length(<<"sp", "0">>)>>, <<Length(<<"Host">>)>>,
            <<Length(<<"8", "1", "9", "1">>)>>}, b \in Bodies}

MCStrings ==
  {With(m, StringHead(<<"Host", ":", "crlf">>), <<"Host">>) :
     m \in {Request("POST", <<"/">>, 9), Response(9, 200, <<>>)}}

MCOutgoing == MCRequests \cup MCResponses \cup MCFramed \cup MCStrings
MCPow2 == [k \in 0..(2 * IntBits) |-> 2^k]
MCAdded == {Host, Empty, Colon}
MCForeign == {<<"/", "crlf", "crlf">>}
=============================================================================
