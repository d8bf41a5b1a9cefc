---------------------------- MODULE RequestReader ----------------------------
(***************************************************************************)
(* The part of the receive loop that turns the bytes of a connection into  *)
(* requests: packets cut anywhere, the parser kept from packet to packet,  *)
(* a fresh parser for every request, and the rest of a packet kept when    *)
(* the next request starts in it (Http11ServerConnection.cpp).  Queues,    *)
(* limits and the reply side are the business of Http11ServerConnection.   *)
(*                                                                         *)
(* A wire is what a client sends: its bytes, the requests they stand for   *)
(* and whether something malformed follows them.                           *)
(***************************************************************************)
EXTENDS Http11Parser

CONSTANT Wires

VARIABLES
    wire,      \* what the client sends
    pos,       \* how many bytes of it have arrived
    parser,    \* parser_
    receiver,  \* newRequest_ and receiveLoopData_
    rest,      \* nextRequestBuffer_
    start,     \* where in the wire the current request starts (history)
    requests,  \* the complete requests (history)
    closed,    \* shutdown("invalid request format") has been called
    lost       \* a packet ended with the first byte of a next request (history)

readerVars == <<wire, pos, parser, receiver, rest, start, requests, closed, lost>>

Request(s) == [line |-> s.line, headers |-> s.headers, body |-> s.body]

ReaderInit ==
    /\ wire \in Wires
    /\ pos = 0 /\ start = 0 /\ rest = <<>> /\ requests = <<>>
    /\ parser = http_parser_init /\ receiver = NewReceiver
    /\ closed = FALSE /\ lost = FALSE

(* What the loop does with the parser's answer x to a packet that starts   *)
(* at `from`; `fresh` says that it was a new request's first.              *)
Parsed(x, fresh, data, from) ==
    LET completes == x.s.state = "MessageComplete"
        next == completes /\ x.p.http_errno = "CB_message_begin" /\ x.ret > 1
    IN  /\ parser' = x.p /\ receiver' = x.s
        /\ start' = IF fresh THEN from ELSE start
        /\ requests' = IF completes THEN Append(requests, Request(x.s)) ELSE requests
        /\ rest' = IF x.ret # Len(data) /\ next THEN SubSeq(data, x.ret, Len(data)) ELSE <<>>
        /\ closed' = (x.ret # Len(data) /\ ~next)
        /\ lost' = (lost \/ (x.ret = Len(data) /\ next))

(* A complete request's data is reset before the next bytes are parsed.    *)
Parse(data, from) ==
    LET fresh == receiver.state = "MessageComplete"
    IN  Parsed(http_parser_execute(IF fresh THEN http_parser_init ELSE parser,
                                   IF fresh THEN NewReceiver ELSE receiver, data),
               fresh, data, from)

Receive(size) ==
    /\ ~closed /\ rest = <<>> /\ pos + size <= Len(wire.bytes)
    /\ Parse(SubSeq(wire.bytes, pos + 1, pos + size), pos)
    /\ pos' = pos + size
    /\ UNCHANGED wire

ParseRest ==
    /\ ~closed /\ rest # <<>>
    /\ Parse(rest, pos - Len(rest))
    /\ UNCHANGED <<wire, pos>>

ReaderNext == (\E size \in 1..(Len(wire.bytes) - pos) : Receive(size)) \/ ParseRest

ReaderSpec == ReaderInit /\ [][ReaderNext]_readerVars

-----------------------------------------------------------------------------
(* Whatever the client sends, no assert of the parser fails: at most one   *)
(* part of the message is open at the end of a packet, a chunk size starts *)
(* on a fresh count, a body is never read with no length or the length     *)
(* that stands for none, and a recognised header is never left half-way.   *)
AssertsHold == parser.http_errno # "ABORT"

(* How the network cuts the bytes into packets makes no difference: parser *)
(* and receiver are what one packet with all the bytes of the request      *)
(* makes of them, parts that came in pieces included, and they are refused *)
(* exactly when that one packet is.                                        *)
CutIndependent ==
    LET Same(whole) == IF parser.http_errno = "OK" THEN parser = whole.p /\ receiver = whole.s
                       ELSE whole.p.http_errno # "OK"
    IN  (rest = <<>> /\ pos > start) =>
            Same(http_parser_execute(http_parser_init, NewReceiver,
                                     SubSeq(wire.bytes, start + 1, pos)))

(* The requests are those the client meant, in order, with their headers   *)
(* and their bodies; well-formed requests are not refused, and what is     *)
(* malformed, or has a length that does not fit, never becomes a request.  *)
(* The one exception is a packet that ends with the first byte of the next *)
(* request, whose refusal looks like a packet read to its end.             *)
RequestsAsSent ==
    ~lost =>
    /\ Len(requests) <= Len(wire.requests)
    /\ requests = SubSeq(wire.requests, 1, Len(requests))
    /\ closed => wire.bad
    /\ (pos = Len(wire.bytes) /\ rest = <<>> /\ ~wire.bad) => requests = wire.requests

(* The number in a Content-Length header is the number of bytes that the   *)
(* request's body has and will have, in 64 bits too.                       *)
LengthExact ==
    \A i \in DOMAIN receiver.headers :
        (/\ receiver.headers[i][1] = Text("Content-Length")
         /\ receiver.state \in {"HeadersComplete", "Body", "MessageComplete"}
         /\ parser.http_errno = "OK")
        => LET value == receiver.headers[i][2]
               digits == SelectSeq(value, IS_NUM)
               left == IF receiver.state = "MessageComplete" THEN 0 ELSE parser.content_length
           IN  Decimal(digits) = Len(receiver.body) + left

(* The bytes are understood the way they were meant: the same requests,    *)
(* with bodies of the announced length, and no assert fails on the way.    *)
WireUnderstood == AssertsHold /\ RequestsAsSent /\ LengthExact
=============================================================================
