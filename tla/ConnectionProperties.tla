----------------------- MODULE ConnectionProperties -----------------------
(* What Http11ServerConnection must and must not do. *)
EXTENDS Http11ServerConnection, FiniteSets

(* Types *)

States == {"Initial", "Started", "ReceiveRequestMessageBegin", "ReceiveRequestUrl",
           "ReceiveRequestHeaderField", "ReceiveRequestHeaderValue",
           "ReceiveRequestHeadersComplete", "ReceiveRequestBody",
           "ReceiveRequestMessageComplete", "Closing", "Closed"}
Pieces == Seq(Data)
Request == [url : Pieces, headers : Seq([field : Pieces, value : Pieces])]
RequestEntry == [request : Request, id : Nat, hasBody : BOOLEAN]
BodyEntry == [buffer : Data, id : Nat, isEnd : BOOLEAN]
ReceiveData == [requestId : Nat, receivedBytes : Nat, receivedPackets : Nat, url : Pieces,
                headerField : Pieces, headerValue : Pieces, bodyBuffers : Pieces,
                bodyBufferEnqueueIndex : Nat, requestEnqueued : BOOLEAN]
ReplyData == [requestId : Nat, requestBodyConsumed : BOOLEAN, responseHeadersAppended : BOOLEAN,
              responseWrittenBytes : Nat, keepConnection : BOOLEAN]
Errnos == {"OK", "INVALID", "CB_message_begin", "CB_url", "CB_header_field", "CB_header_value",
           "CB_headers_complete", "CB_body", "CB_message_complete"}
Parser == [phase : {"start", "message", "dead"}, close : BOOLEAN, errno : Errnos]
Arrival == [kind : {"none", "data", "eof", "error"}, data : Seq(Token)]
Context == [request : Request, response : Response]
Item == [kind : {"head", "body", "error"}, id : Nat, response : Response]

ClientTypes ==
    /\ sent \in Seq(Token) /\ wire \in Seq(Token)
    /\ peer \in {"open", "halfclosed", "reset"}
    /\ arrived \in Arrival /\ inputShut \in BOOLEAN
ReceiveTypes ==
    /\ state \in States /\ parser \in Parser
    /\ lastBuffer \in Seq(Token) /\ parsed \in Nat /\ nextRequestBuffer \in Seq(Token)
    /\ newRequest \in Request /\ rx \in ReceiveData
QueueTypes ==
    /\ requestQueue \in Seq(RequestEntry) /\ Len(requestQueue) <= RequestQueueSize
    /\ requestBodyQueue \in Seq(BodyEntry) /\ Len(requestBodyQueue) <= RequestBodyQueueSize
    /\ aborted \in BOOLEAN
    /\ recv \in {"none", "read", "parse", "firstBody", "body", "pushBody", "enqueue",
                 "enqueueBody", "pushRequest", "done"}
    /\ recv = "pushBody" => pushing \in Seq(BodyEntry) /\ Len(pushing) = 1
    /\ recv = "pushRequest" => pushing \in Seq(RequestEntry) /\ Len(pushing) = 1
ReplyTypes ==
    /\ reply \in {"none", "pop", "handle", "read", "write", "catch", "caught", "flush",
                  "error", "done"}
    /\ context \in Context /\ tx \in ReplyData
    /\ lastErrorResponse \in BOOLEAN /\ detectTimeoutFlag \in BOOLEAN
HistoryTypes ==
    /\ received \in Nat /\ handled \in Nat /\ flushed \in Nat
    /\ errors \subseteq {"timeout", "receive", "initial_size", "invalid_format", "reply"}
    /\ out \in Seq(Item) /\ delivered \in Pieces

(* Every variable has its type, and the queues respect their capacity. *)
TypeOK == ClientTypes /\ ReceiveTypes /\ QueueTypes /\ ReplyTypes /\ HistoryTypes

-----------------------------------------------------------------------------
(* The reference for what a handler sees: the client's messages, cut out   *)
(* of the whole wire.  Every set of positions is one up to n, so that it   *)
(* also tells what a message has shown so far.                             *)

Begins(tokens, n) == {i \in DOMAIN tokens : i <= n /\ tokens[i].on = "message_begin"}
MessageOf(tokens, i) == Cardinality(Begins(tokens, i))   \* the first one is 1

Positions(tokens, k, callback, n) ==
    {i \in DOMAIN tokens : i <= n /\ MessageOf(tokens, i) = k /\ tokens[i].on = callback}

(* ... and those before the end of its headers *)
HeadPositions(tokens, k, callback, n) ==
    {i \in Positions(tokens, k, callback, n) : Positions(tokens, k, "headers_complete", i) = {}}

(* A header starts with a field that follows no field. *)
HeaderStarts(tokens, k, n) ==
    {i \in HeadPositions(tokens, k, "header_field", n) : tokens[i - 1].on # "header_field"}
HeaderPositions(tokens, k, h, callback, n) ==
    {i \in HeadPositions(tokens, k, callback, n) : Cardinality(HeaderStarts(tokens, k, i)) = h}

(* The pieces are the data at the positions, in order: every piece has its *)
(* place, and every position is one.                                       *)
PiecesAt(tokens, pieces, positions) ==
    \E place \in [DOMAIN pieces -> positions] :
      /\ \A i, j \in DOMAIN pieces : i < j => place[i] < place[j]
      /\ \A i \in DOMAIN pieces : pieces[i] = tokens[place[i]].data
      /\ \A p \in positions : \E i \in DOMAIN pieces : place[i] = p

(* The header, and the request, is what message k has shown of it up to n. *)
HeaderSent(tokens, header, k, h, n) ==
    /\ PiecesAt(tokens, header.field, HeaderPositions(tokens, k, h, "header_field", n))
    /\ PiecesAt(tokens, header.value, HeaderPositions(tokens, k, h, "header_value", n))
RequestSent(tokens, request, k, n) ==
    /\ PiecesAt(tokens, request.url, HeadPositions(tokens, k, "url", n))
    /\ Len(request.headers) = Cardinality(HeaderStarts(tokens, k, n))
    /\ \A h \in DOMAIN request.headers : HeaderSent(tokens, request.headers[h], k, h, n)

Handling == reply \in {"handle", "read", "write", "catch", "caught", "flush"}

(* The handlers see the requests in the order they were sent, each exactly *)
(* as it was sent, however the packets cut its url, its headers and the    *)
(* boundary to the next request (on_url .. on_headers_complete,            *)
(* nextRequestBuffer_, the request queue).                                 *)
HeadIntact == Handling => RequestSent(sent, context.request, tx.requestId + 1, Len(sent))

(* The body a handler reads is a prefix of the body of its own request,    *)
(* and all of it once the stream says it has ended (the empty tail buffer, *)
(* isEnd, hasBody and requestBodyConsumed agree).                          *)
BodyIntact ==
    Handling =>
      /\ \E n \in 0 .. Len(sent) : PiecesAt(sent, delivered, Positions(sent, tx.requestId + 1, "body", n))
      /\ tx.requestBodyConsumed =>
           PiecesAt(sent, delivered, Positions(sent, tx.requestId + 1, "body", Len(sent)))

(* A handler sees its request and nothing else: the url, the headers and   *)
(* the body that the client sent as that request.                          *)
RequestIntact == HeadIntact /\ BodyIntact

(* The chunk a handler is about to read belongs to the request it handles: *)
(* the LogicException "request id not matched" is never thrown.            *)
BodyBelongsToRequest ==
    reply \in {"handle", "read"} /\ ~tx.requestBodyConsumed /\ requestBodyQueue # <<>>
      => Head(requestBodyQueue).id = tx.requestId

(* Where the responses begin in what was written *)
Heads(written) == {i \in DOMAIN written : written[i].kind = "head"}

(* The id of a response is the number of those before it.  Each body       *)
(* follows its own headers, and an error response is the last item.        *)
InOrder(written) ==
    /\ \A i \in Heads(written) : written[i].id = Cardinality({j \in Heads(written) : j < i})
    /\ \A i \in DOMAIN written : written[i].kind = "error" => i = Len(written)
    /\ \A i \in DOMAIN written :
         written[i].kind = "body" => i > 1 /\ written[i - 1].id = written[i].id

(* Responses go out in request order, one for each request, each body      *)
(* after its own headers; an error response comes last, at most once.      *)
ResponsesInOrder == InOrder(out)

(* The end of the response that begins at i can be told: it is chunked and *)
(* nothing but chunks follows, or as much as was announced.                *)
BodyOf(written, id) == {n \in DOMAIN written : written[n].kind = "body" /\ written[n].id = id}
Delimited(written, i) ==
    LET body == BodyOf(written, written[i].id)
    IN  IF written[i].response.chunked THEN \A n \in body : ~written[n].response.failed
        ELSE written[i].response.fixed /\ written[i].response.length = Cardinality(body)

(* Only the message of the 500 handler went out, under headers it does not *)
(* fit: they say chunked, or were sent before the handler failed.          *)
MessageMisplaced(written, i) ==
    /\ written[i].response.chunked \/ ~written[i].response.failed
    /\ Cardinality(BodyOf(written, written[i].id)) = 1
    /\ \E n \in BodyOf(written, written[i].id) : written[n].response.failed

(* What another response may follow *)
EndsBeforeNext(written, i) ==
    ~written[i].response.close /\ (Delimited(written, i) \/ MessageMisplaced(written, i))
DelimitedIfFollowed(written) == \A i, j \in Heads(written) : i < j => EndsBeforeNext(written, i)

(* A client can tell where a response ends when another one follows, and   *)
(* it did not say it was the last.  What was written when a handler failed *)
(* is not followed by another response, unless that was nothing: then the  *)
(* message may go out under headers that say chunked, or, after an empty   *)
(* write, something else.                                                  *)
ResponsesDelimited == DelimitedIfFollowed(out)

(* Pieces that stand at these positions join to one of the texts.          *)
Spelt(tokens, texts, positions) == \E pieces \in texts : PiecesAt(tokens, pieces, positions)

(* Message k asks to close the connection: its last Connection header is   *)
(* not empty and not keep-alive.                                           *)
ClientCloses(tokens, k) ==
    LET last == Cardinality(HeaderStarts(tokens, k, Len(tokens)))
        IsConnection(h) ==
          Spelt(tokens, ConnectionNames, HeaderPositions(tokens, k, h, "header_field", Len(tokens)))
        value(h) == HeaderPositions(tokens, k, h, "header_value", Len(tokens))
    IN  \E h \in 1 .. last :
          /\ IsConnection(h) /\ \A i \in h + 1 .. last : ~IsConnection(i)
          /\ ~Spelt(tokens, KeepaliveValues, value(h))
          /\ \E p \in value(h) : tokens[p].data # ""

(* Nothing follows the response to a client that asked to close.           *)
ClosersAreLast == \A i, j \in Heads(out) : i < j => ~ClientCloses(sent, out[i].id + 1)

(* A response another one follows is delimited, and neither side asked to  *)
(* close.                                                                  *)
KeptResponsesFramed == ResponsesDelimited /\ ClosersAreLast

(* Closing is final: no parser callback that still runs on data read       *)
(* before the shutdown revives the connection, no request or chunk is      *)
(* queued, and no further request is handed to the handlers.               *)
StaysClosing ==
    state \in {"Closing", "Closed"} =>
      /\ state' \in {"Closing", "Closed"} /\ (state = "Closed" => state' = "Closed")
      /\ requestQueue' = <<>> /\ requestBodyQueue' = <<>>
      /\ received' = received
      /\ reply = "pop" => reply' # "handle"
ClosingIsFinal == [][StaysClosing]_vars

(* To the server, whatever the connection does in between is being open:   *)
(* it lives the life HttpServer relies on, starting once, closing after a  *)
(* shutdown only, and unmarked by progress only (ConnectionLifecycle).     *)
LifecyclePhase == IF state \in {"Initial", "Closing", "Closed"} THEN state ELSE "Started"
Lifecycle == INSTANCE ConnectionLifecycle WITH phase <- LifecyclePhase, flag <- detectTimeoutFlag
ImplementsLifecycle == Lifecycle!Spec

-----------------------------------------------------------------------------
(* Why BodyBelongsToRequest holds: the inductive invariant.  The ids of    *)
(* the requests in the queue are consecutive and end just below the one    *)
(* the receive loop works on; the chunks in the body queue are sorted by   *)
(* request, nothing follows the last chunk of a request, and the requests  *)
(* that still expect chunks have their last one in the queue unless it is  *)
(* the receive loop's own request.                                         *)

(* The id of the next request to enter the queue *)
NextPush == IF rx.requestEnqueued /\ recv # "pushRequest" THEN rx.requestId + 1 ELSE rx.requestId

(* The last chunk of the receive loop's request, if it has any, is queued. *)
BodyPushed ==
    /\ state = "ReceiveRequestMessageComplete"
    /\ \/ recv \in {"enqueueBody", "pushRequest"}
       \/ recv = "body" /\ rx.bodyBufferEnqueueIndex = Len(rx.bodyBuffers)

EndQueued(id) == \E j \in DOMAIN requestBodyQueue :
                   requestBodyQueue[j].id = id /\ requestBodyQueue[j].isEnd

ControlInv ==
    /\ aborted <=> state \in {"Closing", "Closed"}
    /\ aborted => requestQueue = <<>> /\ requestBodyQueue = <<>>
    /\ recv = "done" => aborted
    /\ reply \in {"error", "done"} => aborted
    /\ state = "Closed" => recv = "done" /\ reply = "done"
    /\ state = "Initial" <=> recv = "none"
    /\ state = "Initial" <=> reply = "none"
    /\ state = "Initial" =>
         requestQueue = <<>> /\ requestBodyQueue = <<>> /\ ~rx.requestEnqueued
    /\ recv = "read" => state # "ReceiveRequestMessageComplete"
    /\ recv = "firstBody" => rx.bodyBuffers # <<>>
    /\ recv \in {"none", "read", "parse", "firstBody", "enqueue", "enqueueBody", "pushRequest"}
         => rx.bodyBufferEnqueueIndex = 0
    /\ recv \in {"none", "read", "enqueue", "enqueueBody", "pushRequest"}
         => rx.bodyBuffers = <<>>
    /\ recv \in {"body", "pushBody"} => rx.bodyBufferEnqueueIndex \in 1 .. Len(rx.bodyBuffers)
    /\ recv \in {"parse", "enqueue"} /\ state = "ReceiveRequestMessageComplete"
         /\ rx.requestEnqueued => rx.bodyBuffers # <<>>
    /\ rx.bodyBuffers # <<>> \/ recv = "enqueueBody" =>
         state \in {"ReceiveRequestBody", "ReceiveRequestMessageComplete", "Closing", "Closed"}
    /\ reply = "read" => ~tx.requestBodyConsumed
    /\ reply = "flush" /\ tx.keepConnection => tx.requestBodyConsumed

PushingInv ==
    /\ recv = "pushBody" /\ ~aborted =>
         /\ pushing[1].id = rx.requestId
         /\ pushing[1].isEnd <=> /\ rx.bodyBufferEnqueueIndex = Len(rx.bodyBuffers)
                                /\ state = "ReceiveRequestMessageComplete"
    /\ recv = "pushRequest" =>
         /\ pushing[1].id = rx.requestId /\ rx.requestEnqueued
         /\ ~aborted /\ ~pushing[1].hasBody => state = "ReceiveRequestMessageComplete"

RequestIdsInv ==
    ~aborted =>
      /\ \A i \in DOMAIN requestQueue : requestQueue[i].id + Len(requestQueue) + 1 = NextPush + i
      /\ Handling => tx.requestId + 1 + Len(requestQueue) = NextPush
      /\ \A i \in DOMAIN requestQueue :
           requestQueue[i].id = rx.requestId => requestQueue[i].hasBody

(* The receive loop's request has no chunk in the queue yet, or never will. *)
NoChunk ==
    \/ ~rx.requestEnqueued /\ recv \in {"none", "read", "parse", "firstBody", "enqueue"}
    \/ recv = "pushRequest" /\ ~pushing[1].hasBody

BodyOrderInv ==
    /\ \A i, j \in DOMAIN requestBodyQueue : i < j =>
         /\ requestBodyQueue[i].id <= requestBodyQueue[j].id
         /\ requestBodyQueue[i].isEnd => requestBodyQueue[i].id < requestBodyQueue[j].id
    /\ \A j \in DOMAIN requestBodyQueue :
         /\ requestBodyQueue[j].id <= rx.requestId
         /\ requestBodyQueue[j].id = rx.requestId => ~NoChunk
         /\ requestBodyQueue[j].isEnd /\ requestBodyQueue[j].id = rx.requestId => BodyPushed
         /\ \A i \in DOMAIN requestQueue :
              requestBodyQueue[j].id = requestQueue[i].id => requestQueue[i].hasBody
         /\ reply = "pop" => requestBodyQueue[j].id + Len(requestQueue) >= NextPush
         /\ Handling => /\ requestBodyQueue[j].id >= tx.requestId
                        /\ tx.requestBodyConsumed => requestBodyQueue[j].id > tx.requestId

(* Requests that expect more chunks: queued, being handled, or about to be *)
(* queued                                                                  *)
Expecting(id) ==
    \/ \E i \in DOMAIN requestQueue : requestQueue[i].id = id /\ requestQueue[i].hasBody
    \/ Handling /\ tx.requestId = id /\ ~tx.requestBodyConsumed
    \/ id = rx.requestId /\ IF recv = "pushRequest" THEN pushing[1].hasBody
                                                    ELSE ~rx.requestEnqueued

BodyEndInv ==
    ~aborted =>
      /\ \A id \in 0 .. rx.requestId : Expecting(id) => EndQueued(id) \/ (id = rx.requestId /\ ~BodyPushed)
      /\ rx.requestEnqueued /\ recv # "pushRequest" /\ requestQueue = <<>>
           /\ (reply = "pop" \/ (Handling /\ tx.requestBodyConsumed)) => BodyPushed

(* The five parts together imply BodyBelongsToRequest, and every step of   *)
(* the connection preserves them.                                          *)
PairingInv == ControlInv /\ PushingInv /\ RequestIdsInv /\ BodyOrderInv /\ BodyEndInv

-----------------------------------------------------------------------------
(* Why the responses are in order and delimited: the ids of the requests   *)
(* that were answered have no gap up to the one being handled, and the     *)
(* reply loop goes on only when the bytes the response stream has counted  *)
(* are those the headers announced.                                        *)

Waiting == reply \in {"none", "pop"} /\ ~aborted

AnswerInv ==
    /\ reply \notin {"error", "done"} => \A i \in DOMAIN out : out[i].kind # "error"
    /\ reply \in {"write", "catch", "caught", "flush"} => tx.responseHeadersAppended
    /\ Handling =>
         Cardinality(Heads(out)) = tx.requestId + IF tx.responseHeadersAppended THEN 1 ELSE 0
    /\ Waiting => Cardinality(Heads(out)) + Len(requestQueue) = NextPush
    /\ \A i \in DOMAIN out : out[i].kind # "error" => out[i].id < Cardinality(Heads(out))
    /\ Handling /\ tx.responseHeadersAppended => out # <<>> /\ out[Len(out)].id = tx.requestId
    /\ ResponsesInOrder

(* The headers that are out are those of the response that is compared     *)
(* with what was written, or were sent before its handler failed.          *)
SentAs(response) ==
    \/ response = context.response
    \/ ~response.failed /\ context.response.failed

FramingInv ==
    /\ context.response.failed =>
         context.response.fixed /\ context.response.length = 1
    /\ Handling =>
         /\ tx.responseWrittenBytes = Cardinality(BodyOf(out, tx.requestId))
         /\ context.response.failed <=> \E n \in BodyOf(out, tx.requestId) : out[n].response.failed
    /\ Handling /\ tx.responseHeadersAppended =>
         \E h \in Heads(out) : /\ out[h].id = tx.requestId /\ SentAs(out[h].response)
                               /\ tx.keepConnection => ~out[h].response.close
    /\ \/ Waiting
       \/ Handling /\ ~tx.responseHeadersAppended
       \/ reply = "flush" /\ tx.keepConnection
       => \A h \in Heads(out) : EndsBeforeNext(out, h)
    /\ ResponsesDelimited

-----------------------------------------------------------------------------
(* Why RequestIntact holds: where the receive loop is on the wire, what it *)
(* has collected of the message there, and where the pieces of bodies are  *)
(* from between the parser and the handler that reads them.                *)

(* What was read and not parsed, and the position of the last token parsed *)
Unparsed == CASE recv \in {"none", "read"} -> arrived.data
              [] recv = "parse" -> lastBuffer
              [] OTHER -> nextRequestBuffer
Place == Len(sent) - Len(wire) - Len(Unparsed) + IF recv = "parse" THEN parsed ELSE 0

WireInv ==
    /\ Len(Unparsed) + Len(wire) <= Len(sent)
    /\ \A i \in DOMAIN Unparsed : Unparsed[i] = sent[Len(sent) - Len(wire) - Len(Unparsed) + i]
    /\ \A i \in DOMAIN wire : wire[i] = sent[Len(sent) - Len(wire) + i]
    /\ arrived.kind # "data" => arrived.data = <<>>
    /\ recv = "parse" => parsed <= Len(lastBuffer)
    /\ recv \in {"none", "read", "parse"} => nextRequestBuffer = <<>>

(* The parser has failed: it accepts nothing more until it is reset, which *)
(* a failure after the end of a message never comes to.                    *)
Stuck ==
    /\ parser.errno # "OK"
    /\ state = "ReceiveRequestMessageComplete" =>
         /\ parser.errno # "CB_message_begin"
         /\ recv = "parse" /\ parsed < Len(lastBuffer)

(* The last token accepted is the last one parsed, or the one before a     *)
(* message_begin that was refused.                                         *)
AcceptedUpTo(n) ==
    \/ n = Place /\ (recv = "parse" => parser.errno = "OK")
    \/ /\ n = Place - 1 /\ sent[Place].on = "message_begin"
       /\ \/ state = "Started"
          \/ state = "ReceiveRequestMessageComplete" /\ parser.errno = "CB_message_begin"
    \/ Stuck

BeforeMessage == state \in {"Initial", "Started"}
InHead == state \in {"ReceiveRequestMessageBegin", "ReceiveRequestUrl",
                     "ReceiveRequestHeaderField", "ReceiveRequestHeaderValue"}
AfterHead == state \in {"ReceiveRequestHeadersComplete", "ReceiveRequestBody",
                        "ReceiveRequestMessageComplete"}
LastCallback ==
    CASE state = "ReceiveRequestMessageBegin" -> "message_begin"
      [] state = "ReceiveRequestUrl" -> "url"
      [] state = "ReceiveRequestHeaderField" -> "header_field"
      [] state = "ReceiveRequestHeaderValue" -> "header_value"
      [] state = "ReceiveRequestHeadersComplete" -> "headers_complete"
      [] state = "ReceiveRequestBody" -> "body"
      [] OTHER -> "message_complete"

PhaseInv ==
    /\ BeforeMessage => parser.phase = "start"
    /\ InHead \/ state \in {"ReceiveRequestHeadersComplete", "ReceiveRequestBody"}
         => parser.phase = "message"
    /\ state = "ReceiveRequestMessageComplete" => parser.phase # "message"

(* The head of the request as far as the loop has it *)
Collected ==
    LET header(value) == [field |-> rx.headerField, value |-> value]
    IN  CASE state = "ReceiveRequestMessageBegin" -> NoRequest
          [] state = "ReceiveRequestUrl" -> [url |-> rx.url, headers |-> <<>>]
          [] state = "ReceiveRequestHeaderField" ->
               [url |-> rx.url, headers |-> Append(newRequest.headers, header(<<>>))]
          [] OTHER ->
               [url |-> rx.url, headers |-> Append(newRequest.headers, header(rx.headerValue))]

CollectedInv(n) ==
    /\ MessageOf(sent, n) = IF BeforeMessage THEN rx.requestId ELSE rx.requestId + 1
    /\ IF BeforeMessage THEN n = 0 \/ sent[n].on = "message_complete"
                        ELSE n > 0 /\ sent[n].on = LastCallback
    /\ BeforeMessage \/ state \in {"ReceiveRequestMessageBegin", "ReceiveRequestUrl"}
         => newRequest = NoRequest
    /\ InHead => /\ Positions(sent, rx.requestId + 1, "headers_complete", n) = {}
                 /\ RequestSent(sent, Collected, rx.requestId + 1, n)
    /\ AfterHead => /\ Positions(sent, rx.requestId + 1, "headers_complete", n) # {}
                    /\ ~rx.requestEnqueued =>
                         RequestSent(sent, newRequest, rx.requestId + 1, Len(sent))

(* An entry of the request queue is a message, which has a body unless the *)
(* entry says otherwise.                                                   *)
EntrySent(tokens, entry) ==
    /\ RequestSent(tokens, entry.request, entry.id + 1, Len(tokens))
    /\ ~entry.hasBody => Positions(tokens, entry.id + 1, "body", Len(tokens)) = {}

(* The chunks on their way: those in the queue and those that the receive  *)
(* loop still has to push                                                  *)
Pushed == IF recv = "pushBody" THEN rx.bodyBufferEnqueueIndex - 1 ELSE rx.bodyBufferEnqueueIndex
Flow == [j \in 1 .. (Len(requestBodyQueue) + Len(rx.bodyBuffers) - Pushed) |->
           IF j <= Len(requestBodyQueue) THEN requestBodyQueue[j]
           ELSE LET index == Pushed + j - Len(requestBodyQueue)
                IN  [buffer |-> rx.bodyBuffers[index], id |-> rx.requestId,
                     isEnd |-> IsEnd(index)]]

(* The body of message k up to b is that up to a and the buffer, which is  *)
(* empty when it only marks the end.                                       *)
Extends(tokens, k, a, b, buffer) ==
    IF buffer = "" THEN Positions(tokens, k, "body", b) = Positions(tokens, k, "body", a)
    ELSE /\ b \in Positions(tokens, k, "body", Len(tokens)) /\ b > a /\ tokens[b].data = buffer
         /\ Positions(tokens, k, "body", b) = Positions(tokens, k, "body", a) \cup {b}

(* How far the body of the request being handled is delivered, when it is  *)
(* up to c; and where the chunk at j of a body starts, when cut says where *)
(* the chunks before it end                                                *)
Done(c) == [id |-> tx.requestId, upTo |-> IF Handling THEN c ELSE 0]
DoneOf(done, id) == IF id = done.id THEN done.upTo ELSE 0
ChunkStart(flow, cut, done, id, j) ==
    IF j = 1 THEN DoneOf(done, id) ELSE IF flow[j - 1].id = id THEN cut[j - 1] ELSE 0

(* The chunks continue the bodies they belong to, one after the other, and *)
(* those that the receive loop has still to find start where they end.     *)
ChunkSound(tokens, flow, cut, done, j) ==
    LET k == flow[j].id + 1
    IN  /\ Extends(tokens, k, ChunkStart(flow, cut, done, flow[j].id, j), cut[j], flow[j].buffer)
        /\ flow[j].isEnd => Positions(tokens, k, "body", cut[j])
                              = Positions(tokens, k, "body", Len(tokens))
FlowInv(n, cut, c) ==
    /\ \A j \in DOMAIN Flow : ChunkSound(sent, Flow, cut, Done(c), j)
    /\ ~BodyPushed =>
         LET end == ChunkStart(Flow, cut, Done(c), rx.requestId, Len(Flow) + 1)
         IN  Positions(sent, rx.requestId + 1, "body", end)
               = Positions(sent, rx.requestId + 1, "body", n)

DeliveredInv(c) ==
    Handling => /\ PiecesAt(sent, delivered, Positions(sent, tx.requestId + 1, "body", c))
                /\ tx.requestBodyConsumed =>
                     Positions(sent, tx.requestId + 1, "body", c)
                       = Positions(sent, tx.requestId + 1, "body", Len(sent))

RequestsSent ==
    /\ \A i \in DOMAIN requestQueue : EntrySent(sent, requestQueue[i])
    /\ recv = "pushRequest" => EntrySent(sent, pushing[1])
    /\ Handling => RequestSent(sent, context.request, tx.requestId + 1, Len(sent))

LoopInv ==
    /\ WireInv /\ PhaseInv
    /\ recv = "pushBody" => pushing[1].buffer = rx.bodyBuffers[rx.bodyBufferEnqueueIndex]

ReceivedInv(c) ==
    \E n \in 0 .. Len(sent) :
      /\ AcceptedUpTo(n) /\ CollectedInv(n)
      /\ \E cut \in [DOMAIN Flow -> 0 .. Len(sent)] : FlowInv(n, cut, c)

IntactInv ==
    /\ sent \in Wires /\ RequestsSent /\ (~aborted => LoopInv)
    /\ \E c \in 0 .. Len(sent) : DeliveredInv(c) /\ (~aborted => ReceivedInv(c))

(* Why ClosersAreLast holds: while the connection may go on, no response   *)
(* was to a client that asked to close.                                    *)
ClosersInv ==
    /\ \/ Waiting
       \/ Handling /\ (tx.responseHeadersAppended => tx.keepConnection)
       => \A h \in Heads(out) : ~ClientCloses(sent, out[h].id + 1)
    /\ ClosersAreLast

-----------------------------------------------------------------------------
(* Liveness.  The reactor runs every task that is ready, handlers return,  *)
(* and the network delivers: reads and writes resolve.                     *)

ServerFairness ==
    /\ WF_vars(Start) /\ WF_vars(Close) /\ WF_vars(ReadResolves)
    /\ WF_vars(ReceiveStep) /\ WF_vars(ReplyStep)
    /\ WF_vars(ReadResumes) /\ WF_vars(HandlerReturns)

(* The client reads what it is sent, or goes away. *)
ClientFairness == WF_vars(WriteStep)

ServerSpec == Spec /\ ServerFairness
FairSpec   == ServerSpec /\ ClientFairness

(* shutdown() breaks both loops: a connection that is closing gets closed, *)
(* so that stop() returns.                                                 *)
ClosingEnds == (state = "Closing") ~> (state = "Closed")

(* A request that was put in the queue is answered, unless the connection  *)
(* is shut down first or the client never sends the rest of it.            *)
SentInFull == sent[Len(sent)].on # "body"
RequestsAnswered ==
    \A k \in 1 .. 2 :
      (SentInFull /\ received >= k) ~>
        \/ Cardinality(Heads(out)) >= k
        \/ state \in {"Closing", "Closed"}

(* The timer bounds the life of a connection nobody feeds: as long as it   *)
(* ticks, every connection that starts is closed in the end.               *)
IdleConnectionsClose == WF_vars(TimerTick) => ((state = "Started") ~> (state = "Closed"))

-----------------------------------------------------------------------------
(* Statements of the repository that the code does not keep *)

(* Http11ServerConnection.hpp: when message_begin is refused, "the caller  *)
(* should check parser_.http_errno and remember rest of the buffer": no    *)
(* byte of the next request is dropped, so the next packet starts one.     *)
RestOfBufferRemembered ==
    state = "Started" /\ recv = "read" /\ arrived.kind = "none" /\ wire # <<>>
      => wire[1].on = "message_begin"

(* Http11ServerConnection.cpp: the receive loop pushes requests to the     *)
(* queue "once headers competed (notice the body may not completed)": it   *)
(* never waits for room for a body nobody can read yet.                    *)
QueuedOnceHeadersComplete == recv = "pushBody" => rx.requestEnqueued

(* HttpServerSharedData.hpp: request_invalid_format_errors is "the total   *)
(* number of invalid format errors": it counts nothing for a well-formed   *)
(* wire.                                                                   *)
WellFormedNeverInvalid ==
    (\A i \in DOMAIN sent : sent[i].on # "bad") => "invalid_format" \notin errors

(* HttpServerSharedData.hpp: request_handled is "the total number of http  *)
(* request handled successfully": the response was flushed.                *)
HandledSuccessfully == handled <= flushed

(* Http11ServerConnection.cpp: a response without content length closes    *)
(* the "connection to indicate response is end": nothing follows it.       *)
CloseIndicatesEnd ==
    \A i \in DOMAIN out :
      out[i].kind = "head" /\ ~out[i].response.fixed /\ ~out[i].response.chunked =>
      \A j \in DOMAIN out : j > i => out[j].id = out[i].id /\ out[j].kind = "body"

(* Http11ServerConnection.cpp: when the connection is kept, "response      *)
(* content is written with fixed size or chunked encoding": the headers    *)
(* that were sent say where it ends.                                       *)
FixedSizeOrChunked == \A i, j \in Heads(out) : i < j => Delimited(out, i)
=============================================================================
