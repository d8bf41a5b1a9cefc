---------------------- MODULE MCHttp11ServerConnection ----------------------
(* Wires and handler responses that bring out the pipelining, the body and *)
(* the error paths of a connection.                                        *)
EXTENDS ConnectionProperties

AllData == {"", "/a", "b", "/p", "/q", "/c", "/d", "Host", "x", "y", "Connection", "Conn",
            "ection", "close", "keep-alive", "1", "2", "3", "4", "?"}

T(callback, data) == [on |-> callback, data |-> data, glued |-> FALSE]
Glued(callback, data) == [on |-> callback, data |-> data, glued |-> TRUE]

Begin == T("message_begin", "")
HeadersEnd == T("headers_complete", "")

\* GET with its url in two pieces and a header whose value has two, no body
Get == <<Begin, T("url", "/a"), T("url", "b"), T("header_field", "Host"),
         T("header_value", "x"), T("header_value", "y"), HeadersEnd,
         Glued("message_complete", "")>>
\* the shortest request
Ping == <<Begin, T("url", "/p"), HeadersEnd, Glued("message_complete", "")>>
Says(value) == <<T("header_field", "Connection"), T("header_value", value)>>
\* the last request the client wants to send
Bye == <<Begin, T("url", "/q")>> \o Says("close")
         \o <<HeadersEnd, Glued("message_complete", "")>>
\* the same, in two pieces and after it said otherwise
LastBye == <<Begin, T("url", "/q")>> \o Says("keep-alive") \o <<T("header_field", "Conn"), T("header_field", "ection"),
             T("header_value", "close"), HeadersEnd, Glued("message_complete", "")>>
\* a request that overrides its own farewell
Stay == <<Begin, T("url", "/q")>> \o Says("close") \o Says("keep-alive")
          \o <<HeadersEnd, Glued("message_complete", "")>>
\* a body of known length: its last byte completes the message
Post == <<Begin, T("url", "/c"), HeadersEnd, T("body", "1"), T("body", "2"),
          Glued("message_complete", "")>>
\* a chunked body: the final empty chunk completes the message
Chunked == <<Begin, T("url", "/d"), HeadersEnd, T("body", "3"), T("body", "4"),
             T("message_complete", "")>>
Garbage == <<T("bad", "?")>>
\* a request whose body never arrives in full
Stalled == SubSeq(Post, 1, 4)

FixedLength(n) == [NoResponse EXCEPT !.fixed = TRUE, !.length = n]
ChunkedResponse == [NoResponse EXCEPT !.chunked = TRUE]
UnframedResponse == NoResponse
ClosingResponse == [FixedLength(1) EXCEPT !.close = TRUE]

ConnectionSpelt == {<<"Connection">>, <<"Conn", "ection">>}
KeepaliveSpelt == {<<"keep-alive">>}

PipelineWires == {Post \o Post, Chunked \o Get, Stay \o Ping, LastBye \o Ping,
                  Ping \o Garbage}
AnyResponse == {FixedLength(1), ChunkedResponse, UnframedResponse, ClosingResponse}
OneChunked == {ChunkedResponse}

FaultWires == {Ping \o Chunked, Bye \o Ping, Ping \o Garbage}
FixedOrUnframed == {FixedLength(1), UnframedResponse}

LiveWires == {Ping \o Post, Chunked, Stalled}
OneFixed == {FixedLength(1)}

OneRequest == {Ping}
TwoRequests == {Ping \o Ping}
ChunkedBodyOnly == {Chunked}
RequestThenGarbage == {Ping \o Garbage}
OneUnframed == {UnframedResponse}
=============================================================================
