----------------------- MODULE Http11ServerConnection -----------------------
(***************************************************************************)
(* One HTTP/1.1 connection: src/HttpServer/Connections/                    *)
(* Http11ServerConnection.{hpp,cpp} with its request and response streams. *)
(* Two loops of one reactor thread share the queues: the receive loop      *)
(* parses packets and pushes requests and body chunks, the reply loop pops *)
(* them, runs the handlers and writes the responses.  Every continuation   *)
(* of a future is an action; what the code runs without returning to the   *)
(* reactor cannot be interrupted (Busy).                                   *)
(***************************************************************************)
EXTENDS Naturals, Sequences

CONSTANTS Data,                      \* pieces of text on the wire
          Wires,                     \* what a client may send, see Token
          ConnectionNames,           \* the ways to cut "Connection" into pieces
          KeepaliveValues,           \* ... and "keep-alive"
          RequestQueueSize,          \* getRequestQueueSize()
          RequestBodyQueueSize,      \* getRequestBodyQueueSize()
          MaxInitialRequestBytes,    \* getMaxInitialRequestBytes(), in tokens
          MaxInitialRequestPackets,  \* getMaxInitialRequestPackets()
          Responses,                 \* headers handlers set, see Response
          MaxWrites,                 \* bound: writes of a handler per response
          Environment                \* what may happen from outside, see Event

Callbacks == {"message_begin", "url", "header_field", "header_value",
              "headers_complete", "body", "message_complete", "bad"}

(* The wire is the stream of callbacks its bytes make the parser fire, one *)
(* token for each piece no packet boundary divides.  A glued token fires   *)
(* on the last byte of the token before it, so that no packet can end      *)
(* between the two; a message_begin is the first byte of its request.      *)
Token == [on : Callbacks, data : Data, glued : BOOLEAN]

(* What a response's headers say about its length and connection: whether  *)
(* there is a Content-Length that is an integer, and which, a              *)
(* Transfer-Encoding: chunked, a Connection other than keep-alive; and     *)
(* whether the 500 handler has replied with it.  A handler that says       *)
(* chunked encodes what it writes, and ends it when it returns.            *)
Response == [fixed : BOOLEAN, length : Nat, chunked : BOOLEAN, close : BOOLEAN,
             failed : BOOLEAN]

(* Stop: HttpServer stops the connection; tick: its timer fires; the       *)
(* client closes its half of the connection, or resets all of it.          *)
Event == {"stop", "tick", "halfclosed", "reset"}

(* A message begins where the wire does and where the one before it is     *)
(* complete; no piece of a body is empty; and no callback fires after      *)
(* bytes that no request has.                                              *)
WellFormed(tokens) ==
    \A i \in DOMAIN tokens :
      /\ tokens[i].on = "bad" => i = Len(tokens)
      /\ tokens[i].on = "body" => tokens[i].data # ""
      /\ tokens[i].on # "bad" =>
           (tokens[i].on = "message_begin" <=> i = 1 \/ tokens[i - 1].on = "message_complete")

ASSUME WiresAssumption ==
    /\ "" \in Data /\ Wires \subseteq Seq(Token) /\ \A tokens \in Wires : WellFormed(tokens)
    /\ ConnectionNames \subseteq Seq(Data) /\ KeepaliveValues \subseteq Seq(Data)
ASSUME LimitsAssumption ==
    /\ RequestQueueSize \in Nat \ {0}
    /\ RequestBodyQueueSize \in Nat \ {0}
    /\ MaxInitialRequestBytes \in Nat
    /\ MaxInitialRequestPackets \in Nat
    /\ MaxWrites \in Nat
    /\ Responses \subseteq {response \in Response : ~response.failed}
    /\ Environment \subseteq Event

VARIABLES
    sent, wire, peer,        \* the client: all it sends, what is not yet read, its socket
    arrived, inputShut,      \* the pending read's result; shutdown_input() was called
    state,                   \* state_
    parser,                  \* parser_: [phase, close, errno]
    recv,                    \* where the receive loop is
    lastBuffer, parsed,      \* the buffer being parsed, and how much of it is
    nextRequestBuffer,       \* nextRequestBuffer_
    newRequest, rx,          \* newRequest_, receiveLoopData_
    requestQueue, requestBodyQueue, aborted,
    pushing,                 \* the entry push_eventually waits to push
    reply,                   \* where the reply loop is
    context, tx,             \* processingContext_, replyLoopData_
    lastErrorResponse, detectTimeoutFlag,
    received, handled, errors,   \* metrics: counters, and the kinds of errors counted
    out, flushed, delivered  \* history: what was written, responses flushed, body read

clientVars == <<sent, wire, peer>>
parseVars  == <<parser, lastBuffer, parsed, nextRequestBuffer, newRequest, rx>>
queueVars  == <<requestQueue, requestBodyQueue, aborted>>
replyVars  == <<reply, context, tx, out, flushed, delivered>>
metricVars == <<received, handled, errors>>
vars == <<clientVars, arrived, inputShut, state, recv, parseVars, queueVars, pushing,
          replyVars, lastErrorResponse, detectTimeoutFlag, metricVars>>

-----------------------------------------------------------------------------
(* Values *)

NoRequest == [url |-> <<>>, headers |-> <<>>]
NoArrival == [kind |-> "none", data |-> <<>>]

(* receiveLoopData_ = {}, for the request with the given id *)
FreshReceiveData(id) ==
    [requestId |-> id, receivedBytes |-> 0, receivedPackets |-> 0,
     url |-> <<>>, headerField |-> <<>>, headerValue |-> <<>>,
     bodyBuffers |-> <<>>, bodyBufferEnqueueIndex |-> 0, requestEnqueued |-> FALSE]

(* replyLoopData_ = {} *)
FreshReplyData ==
    [requestId |-> 0, requestBodyConsumed |-> FALSE, responseHeadersAppended |-> FALSE,
     responseWrittenBytes |-> 0, keepConnection |-> FALSE]

(* http_parser_init *)
InitialParser == [phase |-> "start", close |-> FALSE, errno |-> "OK"]

\* A slip: what a header says first is not overwritten.
FirstHeaderDecides(request) ==
    \E h \in DOMAIN request.headers :
      /\ request.headers[h].field \in ConnectionNames
      /\ \A i \in 1 .. h - 1 : request.headers[i].field \notin ConnectionNames
      /\ request.headers[h].value \notin KeepaliveValues
      /\ \E i \in DOMAIN request.headers[h].value : request.headers[h].value[i] # ""

(* The last Connection header overwrites the others, and closes the        *)
(* connection unless it is empty or says keep-alive.  Requests are of      *)
(* HTTP/1.1, where no such header keeps it.                                *)
WantsClose(request) ==
    \E h \in DOMAIN request.headers :
      /\ request.headers[h].field \in ConnectionNames
      /\ \A i \in h + 1 .. Len(request.headers) :
           request.headers[i].field \notin ConnectionNames
      /\ request.headers[h].value \notin KeepaliveValues
      /\ \E i \in DOMAIN request.headers[h].value : request.headers[h].value[i] # ""

NoResponse == [fixed |-> FALSE, length |-> 0, chunked |-> FALSE, close |-> FALSE, failed |-> FALSE]

Init ==
    /\ sent \in Wires /\ wire = sent /\ peer = "open"
    /\ arrived = NoArrival /\ inputShut = FALSE
    /\ state = "Initial" /\ parser = InitialParser
    /\ recv = "none" /\ lastBuffer = <<>> /\ parsed = 0 /\ nextRequestBuffer = <<>>
    /\ newRequest = NoRequest /\ rx = FreshReceiveData(0)
    /\ requestQueue = <<>> /\ requestBodyQueue = <<>> /\ aborted = FALSE
    /\ pushing = <<>>
    /\ reply = "none" /\ context = [request |-> NoRequest, response |-> NoResponse]
    /\ tx = FreshReplyData
    /\ lastErrorResponse = FALSE /\ detectTimeoutFlag = FALSE
    /\ received = 0 /\ handled = 0 /\ errors = {}
    /\ out = <<>> /\ flushed = 0 /\ delivered = <<>>

(* The reactor is inside a continuation of the receive loop that has not   *)
(* reached a point where it may yield.                                     *)
Busy == recv \in {"parse", "firstBody", "enqueue"}

-----------------------------------------------------------------------------
(* Connection-wide operations *)

\* A slip the runs must catch: shutdown() forgets to abort the queues.
ShutdownKeepsQueues ==
    inputShut' = TRUE /\ state' = "Closing" /\ UNCHANGED queueVars

(* shutdown() on a connection that is not closed: once Closing it changes  *)
(* nothing, and aborting a queue drops what it holds.                      *)
Shutdown ==
    /\ inputShut' = TRUE
    /\ requestQueue' = <<>> /\ requestBodyQueue' = <<>> /\ aborted' = TRUE
    /\ state' = "Closing"

(* start() *)
Start ==
    /\ state = "Initial"
    /\ state' = "Started" /\ recv' = "read" /\ reply' = "pop"
    /\ UNCHANGED <<clientVars, arrived, inputShut, parseVars, queueVars, pushing, context, tx,
                   out, flushed, delivered, lastErrorResponse, detectTimeoutFlag, metricVars>>

\* A slip: a connection is stopped and timed out after it has closed.
AlsoWhenClosed == state # "Initial" /\ ~Busy

(* HttpServer reaches the connections of its collection, which one leaves  *)
(* when it closes.                                                         *)
Running == state \notin {"Initial", "Closed"} /\ ~Busy

(* stop() *)
Stop ==
    /\ "stop" \in Environment /\ Running /\ Shutdown
    /\ UNCHANGED <<clientVars, arrived, recv, parseVars, pushing, replyVars,
                   lastErrorResponse, detectTimeoutFlag, metricVars>>

\* A slip: ticks set the flag, and nobody looks at it.
TickOnlyMarks ==
    /\ "tick" \in Environment /\ Running
    /\ detectTimeoutFlag' = TRUE
    /\ UNCHANGED <<clientVars, arrived, inputShut, state, recv, parseVars, queueVars, pushing,
                   replyVars, lastErrorResponse, metricVars>>

(* The timer of HttpServer: the first tick without progress sets the flag, *)
(* the second one calls onTimeout().                                       *)
TimerTick ==
    /\ "tick" \in Environment /\ Running
    /\ \/ /\ ~detectTimeoutFlag
          /\ detectTimeoutFlag' = TRUE
          /\ UNCHANGED <<inputShut, queueVars, state, errors>>
       \/ /\ detectTimeoutFlag
          /\ errors' = errors \cup {"timeout"}
          /\ Shutdown
          /\ UNCHANGED detectTimeoutFlag
    /\ UNCHANGED <<clientVars, arrived, recv, parseVars, pushing, replyVars,
                   lastErrorResponse, received, handled>>

(* when_all(...).then: both loops have ended *)
Close ==
    /\ recv = "done" /\ reply = "done" /\ state # "Closed"
    /\ state' = "Closed"
    /\ UNCHANGED <<clientVars, arrived, inputShut, recv, parseVars, queueVars, pushing,
                   replyVars, lastErrorResponse, detectTimeoutFlag, metricVars>>

-----------------------------------------------------------------------------
(* The client and the socket *)

PeerCloses ==
    /\ ~Busy /\ peer = "open"
    /\ peer' \in {"halfclosed", "reset"} \cap Environment
    /\ UNCHANGED <<sent, wire, arrived, inputShut, state, recv, parseVars, queueVars, pushing,
                   replyVars, lastErrorResponse, detectTimeoutFlag, metricVars>>

(* A packet may end after the first n tokens. *)
MayCut(n) == n < Len(wire) => ~wire[n + 1].glued

(* The read of the receive loop resolves: some of the bytes on the wire,   *)
(* the end of the stream, or an error after a reset.                       *)
ReadResolves ==
    /\ ~Busy /\ recv = "read" /\ arrived.kind = "none"
    /\ \/ /\ ~inputShut /\ peer # "reset"
          /\ \E n \in 1 .. Len(wire) :
               /\ MayCut(n)
               /\ arrived' = [kind |-> "data", data |-> SubSeq(wire, 1, n)]
               /\ wire' = SubSeq(wire, n + 1, Len(wire))
       \/ /\ inputShut \/ (wire = <<>> /\ peer = "halfclosed")
          /\ arrived' = [kind |-> "eof", data |-> <<>>]
          /\ UNCHANGED wire
       \/ /\ ~inputShut /\ peer = "reset"
          /\ arrived' = [kind |-> "error", data |-> <<>>]
          /\ UNCHANGED wire
    /\ UNCHANGED <<sent, peer, inputShut, state, recv, parseVars, queueVars, pushing,
                   replyVars, lastErrorResponse, detectTimeoutFlag, metricVars>>

-----------------------------------------------------------------------------
(* The receive loop: receiveRequestLoop() and what it calls *)

(* The part of receiveRequestLoop() before its read, with receiveLoopData_ *)
(* and newRequest_ as its caller leaves them.                              *)
ContinueReceiving(data, request) ==
    \/ /\ state = "Closing"
       /\ recv' = "done" /\ rx' = data /\ newRequest' = request
       /\ UNCHANGED <<state, parser, arrived, lastBuffer, parsed, nextRequestBuffer>>
    \/ /\ state # "Closing"
       /\ recv' = "read"
       /\ IF state = "ReceiveRequestMessageComplete"
            THEN /\ rx' = FreshReceiveData(data.requestId + 1) /\ newRequest' = NoRequest
                 /\ state' = "Started" /\ parser' = InitialParser
            ELSE rx' = data /\ newRequest' = request /\ UNCHANGED <<state, parser>>
       /\ arrived' = IF nextRequestBuffer = <<>> THEN NoArrival
                     ELSE [kind |-> "data", data |-> nextRequestBuffer]
       /\ nextRequestBuffer' = <<>> /\ lastBuffer' = <<>> /\ parsed' = 0

receiveUnchanged == <<clientVars, pushing, replyVars, received, handled>>

(* The read fails: the exception handler of startReceiveRequestLoop() *)
ReceiveFails ==
    /\ ~Busy /\ recv = "read" /\ arrived.kind = "error"
    /\ recv' = "done" /\ arrived' = NoArrival
    /\ errors' = IF state = "Closing" THEN errors ELSE errors \cup {"receive"}
    /\ Shutdown
    /\ UNCHANGED <<receiveUnchanged, parseVars, lastErrorResponse, detectTimeoutFlag>>

ReceiveEnds ==
    /\ ~Busy /\ recv = "read" /\ arrived.kind = "eof"
    /\ recv' = "done" /\ arrived' = NoArrival /\ detectTimeoutFlag' = FALSE
    /\ Shutdown
    /\ UNCHANGED <<receiveUnchanged, parseVars, lastErrorResponse, errors>>

(* The limits on the data of a request before its body *)
WithinLimits(bytes, packets) ==
    bytes <= MaxInitialRequestBytes /\ packets <= MaxInitialRequestPackets

(* A packet: check the limits, then hand it to the parser.  The packet     *)
(* counter is not reached when the byte limit is passed.                   *)
ReceivePacket ==
    LET initial == state # "ReceiveRequestBody"
        bytes   == rx.receivedBytes + Len(arrived.data)
        packets == rx.receivedPackets + 1
        within  == initial => WithinLimits(bytes, packets)
    IN  /\ ~Busy /\ recv = "read" /\ arrived.kind = "data"
        /\ detectTimeoutFlag' = FALSE /\ arrived' = NoArrival
        /\ lastBuffer' = arrived.data /\ parsed' = 0
        /\ rx' = IF initial
                   THEN [rx EXCEPT !.receivedBytes = bytes,
                                   !.receivedPackets = IF bytes > MaxInitialRequestBytes
                                                         THEN @ ELSE packets]
                   ELSE rx
        /\ \/ /\ within /\ recv' = "parse"
              /\ UNCHANGED <<state, inputShut, queueVars, lastErrorResponse, errors>>
           \/ /\ ~within /\ recv' = "done"
              /\ lastErrorResponse' = TRUE /\ errors' = errors \cup {"initial_size"}
              /\ Shutdown
        /\ UNCHANGED <<receiveUnchanged, parser, nextRequestBuffer, newRequest>>

(* http_parser_execute: the next callback it fires *)
token == lastBuffer[parsed + 1]

Parsing == recv = "parse" /\ parser.errno = "OK" /\ parsed < Len(lastBuffer)

Fires(callback) ==
    /\ Parsing /\ token.on = callback
    /\ parser.phase = IF callback = "message_begin" THEN "start" ELSE "message"

callbackUnchanged ==
    <<receiveUnchanged, arrived, inputShut, recv, lastBuffer, nextRequestBuffer,
      queueVars, lastErrorResponse, detectTimeoutFlag, errors>>

Accept(next) == parsed' = parsed + 1 /\ state' = next /\ UNCHANGED callbackUnchanged

(* A callback returned -1: the parser stops, and returns as many bytes as  *)
(* the given number of tokens.                                             *)
Refuse(errno, size) ==
    /\ parser' = [parser EXCEPT !.errno = errno]
    /\ parsed' = size
    /\ UNCHANGED <<callbackUnchanged, state, rx, newRequest>>

(* A data callback that fails on a piece the packet cuts off returns the   *)
(* whole size of the buffer, any other one less.                           *)
RefuseData(errno) == \E size \in {parsed, parsed + 1} : Refuse(errno, size)

(* Bytes no request has here: no callback *)
ParserRejects ==
    /\ Parsing
    /\ \/ token.on = "bad"
       \/ parser.phase # IF token.on = "message_begin" THEN "start" ELSE "message"
    /\ Refuse("INVALID", parsed)

\* A slip: a message may begin in any state.
BeginsInAnyState ==
    /\ Fires("message_begin")
    /\ Accept("ReceiveRequestMessageBegin")
    /\ parser' = [parser EXCEPT !.phase = "message", !.close = FALSE]
    /\ UNCHANGED <<rx, newRequest>>

(* The byte that begins a message is counted as parsed when it is refused. *)
on_message_begin ==
    /\ Fires("message_begin")
    /\ \/ /\ state = "Started"
          /\ Accept("ReceiveRequestMessageBegin")
          /\ parser' = [parser EXCEPT !.phase = "message", !.close = FALSE]
          /\ UNCHANGED <<rx, newRequest>>
       \/ state # "Started" /\ Refuse("CB_message_begin", parsed + 1)

\* A slip: a piece of the url replaces the one before it.
UrlKeepsLastPiece ==
    /\ Fires("url")
    /\ \/ /\ state \in {"ReceiveRequestMessageBegin", "ReceiveRequestUrl"}
          /\ Accept("ReceiveRequestUrl")
          /\ rx' = [rx EXCEPT !.url = <<token.data>>]
          /\ UNCHANGED <<parser, newRequest>>
       \/ /\ state \notin {"ReceiveRequestMessageBegin", "ReceiveRequestUrl"}
          /\ RefuseData("CB_url")

on_url ==
    /\ Fires("url")
    /\ \/ /\ state = "ReceiveRequestMessageBegin"
          /\ Accept("ReceiveRequestUrl")
          /\ rx' = [rx EXCEPT !.url = <<token.data>>]
          /\ UNCHANGED <<parser, newRequest>>
       \/ /\ state = "ReceiveRequestUrl"
          /\ Accept(state)
          /\ rx' = [rx EXCEPT !.url = Append(@, token.data)]
          /\ UNCHANGED <<parser, newRequest>>
       \/ /\ state \notin {"ReceiveRequestMessageBegin", "ReceiveRequestUrl"}
          /\ RefuseData("CB_url")

(* newRequest_ with the header that is complete now *)
WithHeader == [newRequest EXCEPT !.headers =
                 Append(@, [field |-> rx.headerField, value |-> rx.headerValue])]

on_header_field ==
    /\ Fires("header_field")
    /\ \/ /\ state \in {"ReceiveRequestHeaderValue", "ReceiveRequestUrl"}
          /\ Accept("ReceiveRequestHeaderField")
          /\ newRequest' = IF state = "ReceiveRequestHeaderValue" THEN WithHeader ELSE newRequest
          /\ rx' = [rx EXCEPT !.headerField = <<token.data>>]
          /\ UNCHANGED parser
       \/ /\ state = "ReceiveRequestHeaderField"
          /\ Accept(state)
          /\ rx' = [rx EXCEPT !.headerField = Append(@, token.data)]
          /\ UNCHANGED <<parser, newRequest>>
       \/ /\ state \notin {"ReceiveRequestHeaderValue", "ReceiveRequestUrl",
                           "ReceiveRequestHeaderField"}
          /\ RefuseData("CB_header_field")

on_header_value ==
    /\ Fires("header_value")
    /\ \/ /\ state \in {"ReceiveRequestHeaderField", "ReceiveRequestHeaderValue"}
          /\ Accept("ReceiveRequestHeaderValue")
          /\ rx' = [rx EXCEPT !.headerValue = IF state = "ReceiveRequestHeaderField"
                                               THEN <<token.data>> ELSE Append(@, token.data)]
          /\ parser' = [parser EXCEPT !.close =
                       @ \/ (rx.headerField \in ConnectionNames /\ token.data = "close")]
          /\ UNCHANGED newRequest
       \/ /\ state \notin {"ReceiveRequestHeaderField", "ReceiveRequestHeaderValue"}
          /\ RefuseData("CB_header_value")

on_headers_complete ==
    /\ Fires("headers_complete")
    /\ \/ /\ state \in {"ReceiveRequestHeaderValue", "ReceiveRequestUrl"}
          /\ Accept("ReceiveRequestHeadersComplete")
          /\ newRequest' = [(IF state = "ReceiveRequestHeaderValue" THEN WithHeader ELSE newRequest)
                              EXCEPT !.url = rx.url]
          /\ UNCHANGED <<parser, rx>>
       \/ /\ state \notin {"ReceiveRequestHeaderValue", "ReceiveRequestUrl"}
          /\ Refuse("CB_headers_complete", parsed)

on_body ==
    /\ Fires("body")
    /\ \/ /\ state \in {"ReceiveRequestHeadersComplete", "ReceiveRequestBody"}
          /\ Accept("ReceiveRequestBody")
          /\ rx' = [rx EXCEPT !.bodyBuffers = Append(@, token.data)]
          /\ UNCHANGED <<parser, newRequest>>
       \/ /\ state \notin {"ReceiveRequestHeadersComplete", "ReceiveRequestBody"}
          /\ RefuseData("CB_body")

\* A slip: no such tail.
NoTail == rx.bodyBuffers

(* The tail of a body that ends in a packet without body bytes is an empty *)
(* buffer, so that its reader learns of the end.                           *)
BodyBuffersAtEnd ==
    IF rx.requestEnqueued /\ rx.bodyBuffers = <<>> THEN <<"">> ELSE rx.bodyBuffers

(* The parser accepts no further message once one asked to close. *)
on_message_complete ==
    /\ Fires("message_complete")
    /\ \/ /\ state \in {"ReceiveRequestHeadersComplete", "ReceiveRequestBody"}
          /\ Accept("ReceiveRequestMessageComplete")
          /\ rx' = [rx EXCEPT !.bodyBuffers = BodyBuffersAtEnd]
          /\ parser' = [parser EXCEPT !.phase = IF parser.close THEN "dead" ELSE "start"]
          /\ UNCHANGED newRequest
       \/ /\ state \notin {"ReceiveRequestHeadersComplete", "ReceiveRequestBody"}
          /\ Refuse("CB_message_complete", parsed + 1)

(* The bytes left over begin the next request of the pipeline. *)
PipelinedRest ==
    /\ parser.errno = "CB_message_begin" /\ parsed > 1
    /\ state = "ReceiveRequestMessageComplete"

(* The parser has returned: check its result, and turn to the body or to   *)
(* the request it has found.                                               *)
ParseReturns ==
    LET complete == parsed = Len(lastBuffer)
    IN  /\ recv = "parse" /\ (parser.errno # "OK" \/ complete)
        /\ \/ /\ ~complete /\ ~PipelinedRest
              /\ errors' = errors \cup {"invalid_format"} /\ lastErrorResponse' = TRUE
              /\ recv' = "done" /\ Shutdown
              /\ UNCHANGED nextRequestBuffer
           \/ /\ complete \/ PipelinedRest
              /\ nextRequestBuffer' = IF complete THEN nextRequestBuffer
                                      ELSE SubSeq(lastBuffer, parsed, Len(lastBuffer))
              /\ recv' = IF rx.bodyBuffers = <<>> THEN "enqueue" ELSE "firstBody"
              /\ UNCHANGED <<state, inputShut, queueVars, lastErrorResponse, errors>>
        /\ UNCHANGED <<receiveUnchanged, arrived, parser, lastBuffer, parsed, newRequest, rx,
                       detectTimeoutFlag>>

enqueueUnchanged == <<clientVars, inputShut, aborted, replyVars, lastErrorResponse,
                      detectTimeoutFlag, handled, errors>>

\* Slips: one entry too many, and an end marked on every chunk of the last packet.
FullOneLate == Len(requestBodyQueue) > RequestBodyQueueSize
AnyBufferIsEnd(index) == state = "ReceiveRequestMessageComplete"

(* requestBodyQueue_.push_eventually has to wait. *)
BodyQueueFull == Len(requestBodyQueue) >= RequestBodyQueueSize

(* The chunk at the index is the last one of the request's body. *)
IsEnd(index) == index = Len(rx.bodyBuffers) /\ state = "ReceiveRequestMessageComplete"

(* enqueueBodyBuffers(): one entry per call; its last call clears them *)
EnqueueBodyBuffer ==
    LET index == rx.bodyBufferEnqueueIndex + 1
        entry == [buffer |-> rx.bodyBuffers[index], id |-> rx.requestId,
                  isEnd |-> IsEnd(index)]
    IN  /\ recv \in {"firstBody", "body"}
        /\ \/ /\ index > Len(rx.bodyBuffers)
              /\ rx' = [rx EXCEPT !.bodyBuffers = <<>>, !.bodyBufferEnqueueIndex = 0]
              /\ recv' = "enqueueBody"
              /\ UNCHANGED <<requestBodyQueue, pushing>>
           \/ /\ index <= Len(rx.bodyBuffers)
              /\ rx' = [rx EXCEPT !.bodyBufferEnqueueIndex = index]
              /\ \/ /\ aborted /\ recv' = "done"
                    /\ UNCHANGED <<requestBodyQueue, pushing>>
                 \/ /\ ~aborted /\ ~BodyQueueFull
                    /\ requestBodyQueue' = Append(requestBodyQueue, entry) /\ recv' = "body"
                    /\ UNCHANGED pushing
                 \/ /\ ~aborted /\ BodyQueueFull
                    /\ pushing' = <<entry>> /\ recv' = "pushBody"
                    /\ UNCHANGED requestBodyQueue
        /\ UNCHANGED <<enqueueUnchanged, arrived, state, parser, lastBuffer, parsed,
                       nextRequestBuffer, newRequest, requestQueue, received>>

PushBody ==
    /\ recv = "pushBody"
    /\ \/ /\ aborted /\ recv' = "done" /\ UNCHANGED requestBodyQueue
       \/ /\ ~aborted /\ ~BodyQueueFull
          /\ requestBodyQueue' = requestBodyQueue \o pushing /\ recv' = "body"
    /\ pushing' = <<>>
    /\ UNCHANGED <<enqueueUnchanged, arrived, state, parseVars, requestQueue, received>>

(* enqueueRequestAndContinueReceiving() *)
EnqueueRequest(hasBody) ==
    LET headersComplete == state \in {"ReceiveRequestHeadersComplete", "ReceiveRequestBody",
                                      "ReceiveRequestMessageComplete"}
        entry == [request |-> newRequest, id |-> rx.requestId,
                  hasBody |-> hasBody \/ state # "ReceiveRequestMessageComplete"]
        queued == [rx EXCEPT !.requestEnqueued = TRUE]
    IN  \/ /\ rx.requestEnqueued \/ ~headersComplete
           /\ ContinueReceiving(rx, newRequest)
           /\ UNCHANGED <<requestQueue, pushing, received>>
        \/ /\ ~rx.requestEnqueued /\ headersComplete
           /\ received' = received + 1
           /\ \/ /\ Len(requestQueue) < RequestQueueSize
                 /\ requestQueue' = Append(requestQueue, entry)
                 /\ ContinueReceiving(queued, NoRequest)
                 /\ UNCHANGED pushing
              \/ /\ Len(requestQueue) >= RequestQueueSize
                 /\ pushing' = <<entry>> /\ recv' = "pushRequest"
                 /\ rx' = queued /\ newRequest' = NoRequest
                 /\ UNCHANGED <<requestQueue, state, parser, arrived, lastBuffer, parsed,
                                nextRequestBuffer>>

EnqueueAndContinue ==
    /\ recv \in {"enqueue", "enqueueBody"}
    /\ EnqueueRequest(recv = "enqueueBody")
    /\ UNCHANGED <<enqueueUnchanged, requestBodyQueue>>

PushRequest ==
    /\ recv = "pushRequest"
    /\ \/ /\ aborted /\ recv' = "done"
          /\ UNCHANGED <<requestQueue, state, arrived, parseVars>>
       \/ /\ ~aborted /\ Len(requestQueue) < RequestQueueSize
          /\ requestQueue' = requestQueue \o pushing
          /\ ContinueReceiving(rx, newRequest)
    /\ pushing' = <<>>
    /\ UNCHANGED <<enqueueUnchanged, requestBodyQueue, received>>

-----------------------------------------------------------------------------
(* The reply loop: replyResponseLoop(), the handlers and their streams *)

receiverUnchanged == <<clientVars, arrived, recv, parseVars, pushing, received>>

ErrorItem == [kind |-> "error", id |-> tx.requestId, response |-> NoResponse]
HeadItem(response) == [kind |-> "head", id |-> tx.requestId, response |-> response]
BodyItem(response) == [kind |-> "body", id |-> tx.requestId, response |-> response]

(* The start of replyResponseLoop() once `written` is what was sent: wait  *)
(* for a request or, when closing, send the last error if there is one.    *)
EnterReplyLoop(closing, written) ==
    \/ /\ ~closing /\ reply' = "pop"
       /\ out' = written /\ UNCHANGED lastErrorResponse
    \/ /\ closing /\ ~lastErrorResponse /\ reply' = "done"
       /\ out' = written /\ UNCHANGED lastErrorResponse
    \/ /\ closing /\ lastErrorResponse /\ reply' = "error"
       /\ out' = Append(written, ErrorItem) /\ lastErrorResponse' = FALSE

(* The exception handler of startReplyResponseLoop() *)
ReplyFails(written) ==
    /\ errors' = IF state = "Closing" THEN errors ELSE errors \cup {"reply"}
    /\ Shutdown
    /\ EnterReplyLoop(TRUE, written)

(* pop_eventually on the request queue: set up the context and enter the   *)
(* handlers, or fail because the queue was aborted.                        *)
PopRequest ==
    LET entry == Head(requestQueue)
    IN  /\ ~Busy /\ reply = "pop" /\ ~aborted /\ requestQueue # <<>>
        /\ requestQueue' = Tail(requestQueue)
        /\ \E response \in Responses :
             context' = [request |-> entry.request, response |-> response]
        /\ tx' = [FreshReplyData EXCEPT !.requestId = entry.id,
                                        !.requestBodyConsumed = ~entry.hasBody]
        /\ reply' = "handle" /\ delivered' = <<>>
        /\ UNCHANGED <<receiverUnchanged, inputShut, state, requestBodyQueue, aborted, out,
                       flushed, lastErrorResponse, detectTimeoutFlag, handled, errors>>

PopAborted ==
    /\ ~Busy /\ reply = "pop" /\ aborted
    /\ EnterReplyLoop(TRUE, out)
    /\ UNCHANGED <<receiverUnchanged, inputShut, state, queueVars, context, tx, delivered,
                   flushed, detectTimeoutFlag, handled, errors>>

(* checkKeepaliveByConnnectionHeader(), and the response's own header *)
KeepaliveByConnectionHeader(response) == ~WantsClose(context.request) /\ ~response.close

(* appendResponseHeaders() for the given response: what it writes, and the *)
(* reply loop data after it                                                *)
Headers(response) ==
    IF tx.responseHeadersAppended THEN <<>> ELSE <<HeadItem(response)>>
\* A slip: the headers are never marked as sent.
HeadersNotMarked(response) ==
    [tx EXCEPT !.keepConnection = KeepaliveByConnectionHeader(response)]
AppendResponseHeaders(response) ==
    IF tx.responseHeadersAppended THEN tx
    ELSE [tx EXCEPT !.responseHeadersAppended = TRUE,
                    !.keepConnection = KeepaliveByConnectionHeader(response)]

\* Slips: the length written is not compared, the rest of the request's body
\* may still be on its way.
KeptWhateverWritten(data) ==
    (context.response.fixed \/ context.response.chunked) /\ data.requestBodyConsumed
KeptWithoutBody(data) ==
    IF context.response.fixed THEN context.response.length = data.responseWrittenBytes
    ELSE context.response.chunked

\* A slip: the transfer encoding is looked at first.
ChunkedFirst(data) ==
    /\ \/ context.response.chunked
       \/ context.response.fixed /\ context.response.length = data.responseWrittenBytes
    /\ data.requestBodyConsumed

(* checkKeepaliveByContentLength() *)
KeepaliveByContentLength(data) ==
    /\ IF context.response.fixed THEN context.response.length = data.responseWrittenBytes
       ELSE context.response.chunked
    /\ data.requestBodyConsumed

handlerUnchanged == <<receiverUnchanged, flushed, lastErrorResponse, handled>>

(* Http11ServerConnectionResponseStream::write, of one unit of body *)
WriteBody(response) ==
    /\ out' = out \o Headers(response) \o <<BodyItem(response)>>
    /\ tx' = [AppendResponseHeaders(response) EXCEPT !.responseWrittenBytes = @ + 1]
    /\ detectTimeoutFlag' = FALSE

(* ... and of none, which only sends the headers *)
WriteNothing(response) ==
    /\ out' = out \o Headers(response)
    /\ tx' = AppendResponseHeaders(response)
    /\ detectTimeoutFlag' = FALSE

HandlerWrites ==
    /\ ~Busy /\ reply = "handle" /\ reply' = "write"
    /\ \/ tx.responseWrittenBytes < MaxWrites /\ WriteBody(context.response)
       \/ ~tx.responseHeadersAppended /\ WriteNothing(context.response)
    /\ UNCHANGED <<handlerUnchanged, inputShut, state, queueVars, context, delivered, errors>>

(* extensions::reply() overwrites the content length, sent or not, and     *)
(* leaves the transfer encoding.                                           *)
ResponseOf500 == [context.response EXCEPT !.fixed = TRUE, !.length = 1, !.failed = TRUE]

(* HttpServerRequest500Handler: a handler failed, reply with the message,  *)
(* which is written as it is.                                              *)
Reply500 ==
    /\ context' = [context EXCEPT !.response = ResponseOf500]
    /\ WriteBody(ResponseOf500) /\ reply' = "catch"

HandlerThrows ==
    /\ ~Busy /\ reply = "handle" /\ Reply500
    /\ UNCHANGED <<handlerUnchanged, inputShut, state, queueVars, delivered, errors>>

(* A write of the handler resolves; it can only fail once the peer is gone. *)
WriteResolves ==
    /\ ~Busy /\ reply = "write"
    /\ \/ reply' = "handle" /\ UNCHANGED <<context, tx, out, detectTimeoutFlag>>
       \/ peer = "reset" /\ Reply500
    /\ UNCHANGED <<handlerUnchanged, inputShut, state, queueVars, delivered, errors>>

Write500Resolves ==
    /\ ~Busy /\ reply = "catch"
    /\ \/ /\ reply' = "caught"
          /\ UNCHANGED <<inputShut, state, queueVars, out, lastErrorResponse, errors>>
       \/ peer = "reset" /\ ReplyFails(out)
    /\ UNCHANGED <<receiverUnchanged, context, tx, delivered, flushed, detectTimeoutFlag, handled>>

(* Http11ServerConnectionRequestStream::read, the chunk at the queue's head *)
TakeBody ==
    LET entry == Head(requestBodyQueue)
    IN  /\ requestBodyQueue # <<>>
        /\ requestBodyQueue' = Tail(requestBodyQueue)
        /\ \/ /\ entry.id = tx.requestId
              /\ tx' = [tx EXCEPT !.requestBodyConsumed = @ \/ entry.isEnd]
              /\ delivered' = IF entry.buffer = "" THEN delivered
                              ELSE Append(delivered, entry.buffer)
              /\ reply' = "handle"
              /\ UNCHANGED <<context, out, detectTimeoutFlag>>
           \/ /\ entry.id # tx.requestId   \* LogicException: request id not matched
              /\ Reply500 /\ UNCHANGED delivered
        /\ UNCHANGED <<handlerUnchanged, inputShut, state, requestQueue, aborted, errors>>

(* The queue was aborted: the read throws into the handler. *)
ReadAborted ==
    /\ aborted /\ Reply500
    /\ UNCHANGED <<handlerUnchanged, inputShut, state, queueVars, delivered, errors>>

HandlerReads ==
    /\ ~Busy /\ reply = "handle" /\ ~tx.requestBodyConsumed
    /\ \/ TakeBody
       \/ requestBodyQueue = <<>> /\ ReadAborted
       \/ /\ requestBodyQueue = <<>> /\ ~aborted /\ reply' = "read"
          /\ UNCHANGED <<handlerUnchanged, inputShut, state, queueVars, context, tx, out,
                         delivered, detectTimeoutFlag, errors>>

ReadResumes == ~Busy /\ reply = "read" /\ (TakeBody \/ ReadAborted)

(* The first handler's future resolves: flush the response, and go on with *)
(* the next request or shut down.                                          *)
HandlerReturns ==
    LET response == context.response
        data     == AppendResponseHeaders(response)
        kept     == data.keepConnection /\ KeepaliveByContentLength(data)
        written  == out \o Headers(response)
    IN  /\ ~Busy /\ reply \in {"handle", "caught"}
        /\ detectTimeoutFlag' = FALSE
        /\ tx' = [data EXCEPT !.keepConnection = kept]
        /\ \/ \* the flush is not available yet
              /\ reply' = "flush" /\ out' = written
              /\ UNCHANGED <<inputShut, state, queueVars, flushed, handled, errors, lastErrorResponse>>
           \/ \* keep-alive and the flush is available, failed or not
              /\ kept /\ EnterReplyLoop(state = "Closing", written)
              /\ handled' = handled + 1
              /\ flushed' = flushed + 1 \/ (peer = "reset" /\ flushed' = flushed)
              /\ UNCHANGED <<inputShut, state, queueVars, errors>>
           \/ /\ ~kept /\ handled' = handled + 1 /\ flushed' = flushed + 1
              /\ Shutdown /\ EnterReplyLoop(TRUE, written)
              /\ UNCHANGED errors
           \/ /\ ~kept /\ peer = "reset" /\ ReplyFails(written)
              /\ UNCHANGED <<handled, flushed>>
        /\ UNCHANGED <<receiverUnchanged, context, delivered>>

FlushResolves ==
    /\ ~Busy /\ reply = "flush"
    /\ \/ /\ handled' = handled + 1 /\ flushed' = flushed + 1
          /\ \/ /\ tx.keepConnection /\ EnterReplyLoop(state = "Closing", out)
                /\ UNCHANGED <<inputShut, state, queueVars>>
             \/ ~tx.keepConnection /\ Shutdown /\ EnterReplyLoop(TRUE, out)
          /\ UNCHANGED errors
       \/ /\ peer = "reset" /\ ReplyFails(out)
          /\ UNCHANGED <<handled, flushed>>
    /\ UNCHANGED <<receiverUnchanged, context, tx, delivered, detectTimeoutFlag>>

(* The error response is flushed, or failed: both end the loop. *)
ErrorResponseResolves ==
    /\ ~Busy /\ reply = "error" /\ reply' = "done"
    /\ UNCHANGED <<receiverUnchanged, inputShut, state, queueVars, context, tx, out, flushed,
                   delivered, lastErrorResponse, detectTimeoutFlag, handled, errors>>

-----------------------------------------------------------------------------
ReceiveStep ==
    \/ ReceiveFails \/ ReceiveEnds \/ ReceivePacket \/ ParserRejects
    \/ on_message_begin \/ on_url \/ on_header_field \/ on_header_value
    \/ on_headers_complete \/ on_body \/ on_message_complete
    \/ ParseReturns \/ EnqueueBodyBuffer \/ PushBody \/ EnqueueAndContinue \/ PushRequest

(* Steps of the reply loop and of the handlers it runs *)
HandlerStep == HandlerReads \/ ReadResumes \/ HandlerWrites \/ HandlerThrows \/ HandlerReturns
ReplyStep == PopRequest \/ PopAborted

(* Writes resolve when the client reads, or when it is gone. *)
WriteStep == WriteResolves \/ Write500Resolves \/ FlushResolves \/ ErrorResponseResolves

(* A closed connection takes no further step. *)
Closed == state = "Closed" /\ UNCHANGED vars

Next ==
    \/ Start \/ Stop \/ TimerTick \/ Close \/ PeerCloses \/ ReadResolves
    \/ ReceiveStep \/ ReplyStep \/ HandlerStep \/ WriteStep
    \/ Closed

Spec == Init /\ [][Next]_vars
=============================================================================
