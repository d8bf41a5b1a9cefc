--------------------------- MODULE MCRequestReader ---------------------------
(***************************************************************************)
(* Wires are rendered from the requests they stand for: every kind of      *)
(* request line, of header and of body at least once, with both line ends, *)
(* single and in pipelines, and with malformed parts.  Lengths have eight  *)
(* bits, headers a hundred bytes.  Packets are cut everywhere.             *)
(***************************************************************************)
EXTENDS RequestReader, SequencesExt

CRLF == "\r\n"

(* The request line, the headers as they are written and as they are       *)
(* meant, the body as it is framed and as it is meant.                     *)
Plain == [line |-> "GET / HTTP/1.1", meant |-> <<"GET", "/", 1, 1>>, headers |-> <<>>,
          framed |-> <<>>, body |-> <<>>, eol |-> CRLF, bad |-> FALSE]

Line(text, method, url, major, minor) ==
    [Plain EXCEPT !.line = text, !.meant = <<method, url, major, minor>>]
Header(text, name, value) == <<text, name, value>>
With(request, headers) == [request EXCEPT !.headers = @ \o headers]
Body(request, text) ==
    [request EXCEPT !.framed = Text(text), !.body = Text(text),
        !.headers = Append(@, Header("Content-Length: " \o ToString(Len(text)),
                                     "Content-Length", ToString(Len(text))))]
Chunked(request, framed, body) ==
    [request EXCEPT !.framed = Text(framed), !.body = Text(body),
        !.headers = Append(@, Header("Transfer-Encoding: chunked",
                                     "Transfer-Encoding", "chunked"))]
Unix(request) == [request EXCEPT !.eol = "\n"]
Bad(request) == [request EXCEPT !.bad = TRUE]
BadHeader(text) == Bad(With(Plain, <<Header(text, "", "")>>))

HeaderBytes(request) ==
    FoldLeft(LAMBDA bytes, h : bytes \o Text(h[1] \o request.eol), <<>>, request.headers)

Rendered(request) ==
    Text(request.line \o request.eol) \o HeaderBytes(request)
        \o Text(request.eol) \o request.framed

Meant(request) ==
    [line |-> <<request.meant[1], Text(request.meant[2]), request.meant[3], request.meant[4]>>,
     headers |-> [i \in DOMAIN request.headers |->
                    <<Text(request.headers[i][2]), Text(request.headers[i][3])>>],
     body |-> request.body]

Wire(list) ==
    [bytes |-> FoldLeft(LAMBDA bytes, r : bytes \o Rendered(r), <<>>, list),
     requests |-> [i \in 1..Len(SelectSeq(list, LAMBDA r : ~r.bad)) |-> Meant(list[i])],
     bad |-> \E i \in DOMAIN list : list[i].bad]

Host == Header("H: a", "H", "a")

Singles ==
    {Plain, Unix(With(Plain, <<Host>>)),
     Line("OPTIONS * HTTP/1.0", "OPTIONS", "*", 1, 0),
     With(Plain, <<Header("Connection: close", "Connection", "close")>>),
     Line("PROPPATCH /a?b#c HTTP/1.1", "PROPPATCH", "/a?b#c", 1, 1),
     Line("M-SEARCH  http://u@h:1/?x?#y  HTTP/1.1", "M-SEARCH", "http://u@h:1/?x?#y", 1, 1),
     Line("MKCALENDAR /# HTTP/1.1", "MKCALENDAR", "/#", 1, 1),
     Line("SOURCE /a ICE/1.0", "SOURCE", "/a", 1, 0),
     With(Plain, <<Header("A:b ", "A", "b "), Header("Cont: \t", "Cont", ""), Host>>),
     With(Plain, <<Header("Conn: 1\r\n\t2", "Conn", "1\t2"), Header("U:", "U", "")>>),
     With(Line("CONNECT h:1 HTTP/1.1", "CONNECT", "h:1", 1, 1), <<Host>>),
     With(Plain, <<Header("Upgrade: w", "Upgrade", "w"),
                   Header("Connection: x, upgrade", "Connection", "x, upgrade")>>),
     Body(Plain, "xyz"), Body(Unix(Plain), "x"),
     With(Plain, <<Header("Content-Length: 0", "Content-Length", "0")>>),
     Chunked(Plain, "2\r\nab\r\n1;q\r\nc\r\n0\r\n\r\n", "abc"),
     Chunked(Plain, "0\r\n\r\n", ""),
     Chunked(Plain, "0B\r\n12345678901\r\n00\r\n\r\n", "12345678901")}

(* Every method, with the shortest request line.                           *)
Methods == {Line(m \o " /", m, "/", 0, 9) : m \in http_method}

Keep == Header("Connection: keep-alive", "Connection", "keep-alive")

Pipelines ==
    {<<Plain, Plain, Plain>>,
     <<Body(Plain, "GE"), Body(Plain, "\n")>>,
     <<Chunked(Plain, "1\r\n0\r\n0\r\n\r\n", "0"), Unix(Plain)>>,
     <<With(Line("GET / HTTP/1.0", "GET", "/", 1, 0), <<Keep>>), Plain>>,
     <<With(Plain, <<Header("Connection: Close2, keep-alive, k",
                            "Connection", "Close2, keep-alive, k")>>), Plain>>}

Thirty == "123456789012345678901234567890"

Malformed ==
    {BadHeader("Content-Length: 256"), BadHeader("Content-Length: 2 5"),
     BadHeader("Content-Length: 2590"), BadHeader("Content-Length:"),
     BadHeader("Content-Length: 1\r\nContent-Length: 1"),
     BadHeader("Content-Length: 0\r\nTransfer-Encoding: chunked"),
     BadHeader("A b: c"), BadHeader(": c"), BadHeader("Long: " \o Thirty \o Thirty \o Thirty),
     Bad(Chunked(Plain, "100\r\n\r\n", "")), Bad(Chunked(Plain, "F00\r\n\r\n", "")),
     Bad(Chunked(Plain, "1\r\nab\r\n0\r\n\r\n", "")),
     Bad(Chunked(Plain, "0\r\nT: v\r\n\r\n", "")),
     Bad(Line("PROPX / HTTP/1.1", "", "", 0, 0)), Bad(Line("GET a b HTTP/1.1", "", "", 0, 0)),
     Bad(Line("GET / HTTP/11.1", "", "", 0, 0))}

MCWires == {Wire(<<request>>) : request \in Singles \cup Methods}
           \cup {Wire(list) : list \in Pipelines}
           \cup {Wire(<<request>>) : request \in Malformed}
           \cup {Wire(<<Plain, request>>) : request \in {BadHeader("A b: c")}}
=============================================================================
