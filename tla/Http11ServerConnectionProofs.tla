-------------------- MODULE Http11ServerConnectionProofs --------------------
(***************************************************************************)
(* Proofs about Http11ServerConnection for any wires, queue sizes, limits, *)
(* responses and environment: its types; every handler reads the body of   *)
(* its own request, since PairingInv is inductive; and what that says of   *)
(* the two loops also shows that closing is final and that a connection    *)
(* lives the life HttpServer relies on.  Responses leave it in the order   *)
(* of their requests, one for each, and a client can tell where one ends   *)
(* that another one follows: AnswerInv and FramingInv are inductive        *)
(* together with PairingInv.                                               *)
(***************************************************************************)
EXTENDS ConnectionProperties, SequenceTheorems, FiniteSetTheorems, TLAPS

USE DEF clientVars, parseVars, queueVars, replyVars, metricVars, receiveUnchanged,
        callbackUnchanged, enqueueUnchanged, receiverUnchanged, handlerUnchanged

-----------------------------------------------------------------------------
(* Types of the values the actions build *)

LEMMA PieceSeq == ASSUME NEW d \in Data, NEW s \in Pieces
                  PROVE  <<d>> \in Pieces /\ Append(s, d) \in Pieces
  BY DEF Pieces

LEMMA SizesAreNatural == RequestQueueSize \in Nat /\ RequestBodyQueueSize \in Nat
  BY LimitsAssumption

LEMMA FreshTypes ==
    /\ NoArrival \in Arrival /\ InitialParser \in Parser /\ NoRequest \in Request
    /\ FreshReplyData \in ReplyData /\ NoResponse \in Response
    /\ \A id \in Nat : FreshReceiveData(id) \in ReceiveData
  BY DEF NoArrival, Arrival, InitialParser, Parser, Errnos, NoRequest, Request, Pieces,
         ReceiveData, FreshReceiveData, FreshReplyData, ReplyData, NoResponse, Response

(* The token the parser is at is one the client sent. *)
LEMMA TokenType == ASSUME TypeOK, Parsing PROVE token.data \in Data
  <1>1. parsed + 1 \in 1 .. Len(lastBuffer)
    BY DEF TypeOK, ReceiveTypes, Parsing
  <1>2. token \in Token
    BY <1>1 DEF TypeOK, ReceiveTypes, token
  <1> QED
    BY <1>2 DEF Token

LEMMA TypeInit == Init => TypeOK
  <1> SUFFICES ASSUME Init PROVE TypeOK
    OBVIOUS
  <1>1. ClientTypes
    BY WiresAssumption, FreshTypes DEF Init, ClientTypes
  <1>2. ReceiveTypes
    BY FreshTypes DEF Init, ReceiveTypes, States
  <1>3. requestQueue = <<>> /\ requestBodyQueue = <<>>
    BY DEF Init
  <1>4. QueueTypes
    <2>1. Len(requestQueue) <= RequestQueueSize /\ Len(requestBodyQueue) <= RequestBodyQueueSize
      BY <1>3, LimitsAssumption
    <2>2. requestQueue \in Seq(RequestEntry) /\ requestBodyQueue \in Seq(BodyEntry)
      BY <1>3
    <2> QED
      BY <2>1, <2>2 DEF Init, QueueTypes
  <1>5. ReplyTypes
    BY FreshTypes DEF Init, ReplyTypes, Context
  <1>6. HistoryTypes
    BY DEF Init, HistoryTypes, Pieces
  <1> QED
    BY <1>1, <1>2, <1>4, <1>5, <1>6 DEF TypeOK

(* shutdown() keeps the types of what it changes. *)
LEMMA ShutdownTypes ==
    ASSUME TypeOK, Shutdown
    PROVE  /\ inputShut' \in BOOLEAN /\ state' \in States /\ aborted' \in BOOLEAN
           /\ requestQueue' \in Seq(RequestEntry) /\ Len(requestQueue') <= RequestQueueSize
           /\ requestBodyQueue' \in Seq(BodyEntry)
           /\ Len(requestBodyQueue') <= RequestBodyQueueSize
  BY LimitsAssumption DEF Shutdown, States

-----------------------------------------------------------------------------
(* Types are preserved: connection, client and socket *)

LEMMA TypeEnvironment ==
    ASSUME TypeOK, Start \/ Stop \/ TimerTick \/ Close \/ PeerCloses \/ ReadResolves
    PROVE  TypeOK'
  <1>1. CASE Start
    <2>1. ReceiveTypes'
      BY <1>1 DEF Start, TypeOK, ReceiveTypes, States
    <2>2. ClientTypes' /\ QueueTypes' /\ ReplyTypes' /\ HistoryTypes'
      BY <1>1 DEF Start, TypeOK, ClientTypes, QueueTypes, ReplyTypes, HistoryTypes
    <2> QED
      BY <2>1, <2>2 DEF TypeOK
  <1>2. CASE Stop
    <2>1. ClientTypes'
      BY <1>2, ShutdownTypes DEF Stop, TypeOK, ClientTypes
    <2>2. ReceiveTypes'
      BY <1>2, ShutdownTypes DEF Stop, TypeOK, ReceiveTypes
    <2>3. QueueTypes'
      BY <1>2, ShutdownTypes DEF Stop, TypeOK, QueueTypes
    <2>4. ReplyTypes' /\ HistoryTypes'
      BY <1>2 DEF Stop, TypeOK, ReplyTypes, HistoryTypes
    <2> QED
      BY <2>1, <2>2, <2>3, <2>4 DEF TypeOK
  <1>3. CASE TimerTick
    <2>1. ClientTypes'
      BY <1>3, ShutdownTypes DEF TimerTick, TypeOK, ClientTypes
    <2>2. ReceiveTypes'
      BY <1>3, ShutdownTypes DEF TimerTick, TypeOK, ReceiveTypes
    <2>3. QueueTypes'
      BY <1>3, ShutdownTypes DEF TimerTick, TypeOK, QueueTypes
    <2>4. ReplyTypes' /\ HistoryTypes'
      BY <1>3 DEF TimerTick, TypeOK, ReplyTypes, HistoryTypes
    <2> QED
      BY <2>1, <2>2, <2>3, <2>4 DEF TypeOK
  <1>4. CASE Close
    <2>1. ReceiveTypes'
      BY <1>4 DEF Close, TypeOK, ReceiveTypes, States
    <2>2. ClientTypes' /\ QueueTypes' /\ ReplyTypes' /\ HistoryTypes'
      BY <1>4 DEF Close, TypeOK, ClientTypes, QueueTypes, ReplyTypes, HistoryTypes
    <2> QED
      BY <2>1, <2>2 DEF TypeOK
  <1>5. CASE PeerCloses
    <2>1. ClientTypes' /\ ReceiveTypes' /\ QueueTypes' /\ ReplyTypes' /\ HistoryTypes'
      BY <1>5 DEF PeerCloses, TypeOK, ClientTypes, ReceiveTypes, QueueTypes, ReplyTypes, HistoryTypes
    <2> QED
      BY <2>1 DEF TypeOK
  <1>6. CASE ReadResolves
    <2>a. wire' \in Seq(Token) /\ arrived' \in Arrival
      <3>1. ASSUME NEW n \in 1 .. Len(wire)
            PROVE  SubSeq(wire, 1, n) \in Seq(Token) /\ SubSeq(wire, n + 1, Len(wire)) \in Seq(Token)
        BY <3>1, SubSeqProperties DEF TypeOK, ClientTypes
      <3>2. \A s \in Seq(Token), k \in {"data", "eof", "error"} : [kind |-> k, data |-> s] \in Arrival
        BY DEF Arrival
      <3>3. CASE \E n \in 1 .. Len(wire) :
                    /\ arrived' = [kind |-> "data", data |-> SubSeq(wire, 1, n)]
                    /\ wire' = SubSeq(wire, n + 1, Len(wire))
        BY <3>1, <3>2, <3>3
      <3>4. CASE arrived' \in {[kind |-> "eof", data |-> <<>>], [kind |-> "error", data |-> <<>>]}
                   /\ wire' = wire
        <4>1. <<>> \in Seq(Token) /\ wire \in Seq(Token)
          BY DEF TypeOK, ClientTypes
        <4> QED
          BY <3>2, <3>4, <4>1
      <3> QED
        BY <1>6, <3>3, <3>4 DEF ReadResolves
    <2>1. ClientTypes'
      BY <1>6, <2>a DEF ReadResolves, TypeOK, ClientTypes
    <2>2. ReceiveTypes' /\ QueueTypes' /\ ReplyTypes' /\ HistoryTypes'
      BY <1>6 DEF ReadResolves, TypeOK, ReceiveTypes, QueueTypes, ReplyTypes, HistoryTypes
    <2> QED
      BY <2>1, <2>2 DEF TypeOK
  <1> QED
    BY <1>1, <1>2, <1>3, <1>4, <1>5, <1>6

-----------------------------------------------------------------------------
(* Types are preserved: the receive loop *)

LEMMA TypeReceive ==
    ASSUME TypeOK, ReceiveFails \/ ReceiveEnds \/ ReceivePacket
    PROVE  TypeOK'
  <1>1. CASE ReceiveFails
    <2>1. ClientTypes'
      BY <1>1, ShutdownTypes, FreshTypes DEF ReceiveFails, TypeOK, ClientTypes
    <2>2. ReceiveTypes'
      BY <1>1, ShutdownTypes DEF ReceiveFails, TypeOK, ReceiveTypes
    <2>3. QueueTypes'
      BY <1>1, ShutdownTypes DEF ReceiveFails, TypeOK, QueueTypes
    <2>4. ReplyTypes' /\ HistoryTypes'
      BY <1>1 DEF ReceiveFails, TypeOK, ReplyTypes, HistoryTypes
    <2> QED
      BY <2>1, <2>2, <2>3, <2>4 DEF TypeOK
  <1>2. CASE ReceiveEnds
    <2>1. ClientTypes'
      BY <1>2, ShutdownTypes, FreshTypes DEF ReceiveEnds, TypeOK, ClientTypes
    <2>2. ReceiveTypes'
      BY <1>2, ShutdownTypes DEF ReceiveEnds, TypeOK, ReceiveTypes
    <2>3. QueueTypes'
      BY <1>2, ShutdownTypes DEF ReceiveEnds, TypeOK, QueueTypes
    <2>4. ReplyTypes' /\ HistoryTypes'
      BY <1>2 DEF ReceiveEnds, TypeOK, ReplyTypes, HistoryTypes
    <2> QED
      BY <2>1, <2>2, <2>3, <2>4 DEF TypeOK
  <1>3. CASE ReceivePacket
    <2>a. lastBuffer' \in Seq(Token) /\ Len(arrived.data) \in Nat
      BY <1>3 DEF ReceivePacket, TypeOK, ClientTypes, Arrival
    <2>b. rx' \in ReceiveData
      <3>1. \A b, p \in Nat : [rx EXCEPT !.receivedBytes = b, !.receivedPackets = p] \in ReceiveData
        BY DEF TypeOK, ReceiveTypes, ReceiveData
      <3>2. /\ rx.receivedBytes + Len(arrived.data) \in Nat
            /\ rx.receivedPackets \in Nat /\ rx.receivedPackets + 1 \in Nat
        BY <2>a DEF TypeOK, ReceiveTypes, ReceiveData
      <3>3. \/ rx' = rx
            \/ \E p \in {rx.receivedPackets, rx.receivedPackets + 1} :
                 rx' = [rx EXCEPT !.receivedBytes = rx.receivedBytes + Len(arrived.data),
                                  !.receivedPackets = p]
        BY <1>3 DEF ReceivePacket
      <3> QED
        BY <3>1, <3>2, <3>3 DEF TypeOK, ReceiveTypes
    <2>1. ClientTypes'
      BY <1>3, ShutdownTypes, FreshTypes DEF ReceivePacket, TypeOK, ClientTypes
    <2>2. ReceiveTypes'
      BY <1>3, <2>a, <2>b, ShutdownTypes DEF ReceivePacket, TypeOK, ReceiveTypes
    <2>3. QueueTypes'
      BY <1>3, ShutdownTypes DEF ReceivePacket, TypeOK, QueueTypes
    <2>4. ReplyTypes' /\ HistoryTypes'
      BY <1>3 DEF ReceivePacket, TypeOK, ReplyTypes, HistoryTypes
    <2> QED
      BY <2>1, <2>2, <2>3, <2>4 DEF TypeOK
  <1> QED
    BY <1>1, <1>2, <1>3

LEMMA TypeRefuse ==
    ASSUME TypeOK, NEW errno \in Errnos, NEW size \in Nat, Refuse(errno, size)
    PROVE  TypeOK'
  <1>1. ReceiveTypes'
    BY DEF Refuse, TypeOK, ReceiveTypes, Parser
  <1> QED
    BY <1>1 DEF Refuse, TypeOK, ClientTypes, QueueTypes, ReplyTypes, HistoryTypes

LEMMA TypeRefuseData ==
    ASSUME TypeOK, NEW errno \in Errnos, RefuseData(errno)
    PROVE  TypeOK'
  <1>1. PICK size \in {parsed, parsed + 1} : Refuse(errno, size)
    BY DEF RefuseData
  <1>2. size \in Nat
    BY DEF TypeOK, ReceiveTypes
  <1> QED
    BY <1>1, <1>2, TypeRefuse

LEMMA TypeAccept ==
    ASSUME TypeOK, NEW next \in States, Accept(next),
           rx' \in ReceiveData, newRequest' \in Request, parser' \in Parser
    PROVE  TypeOK'
  <1>1. ReceiveTypes'
    BY DEF Accept, TypeOK, ReceiveTypes
  <1> QED
    BY <1>1 DEF Accept, TypeOK, ClientTypes, QueueTypes, ReplyTypes, HistoryTypes

LEMMA TypeWithHeader == ASSUME TypeOK PROVE WithHeader \in Request
  <1> DEFINE header == [field |-> rx.headerField, value |-> rx.headerValue]
             Header == [field : Pieces, value : Pieces]
  <1>1. header \in Header
    BY DEF TypeOK, ReceiveTypes, ReceiveData
  <1>2. newRequest.headers \in Seq(Header)
    BY DEF TypeOK, ReceiveTypes, Request
  <1>3. Append(newRequest.headers, header) \in Seq(Header)
    BY <1>1, <1>2
  <1> QED
    BY <1>3 DEF WithHeader, TypeOK, ReceiveTypes, Request

LEMMA TypeCallback ==
    ASSUME TypeOK,
           \/ ParserRejects \/ on_message_begin \/ on_url \/ on_header_field \/ on_header_value
           \/ on_headers_complete \/ on_body \/ on_message_complete
    PROVE  TypeOK'
  <1>n. parsed \in Nat /\ parsed + 1 \in Nat
    BY DEF TypeOK, ReceiveTypes
  <1>1. CASE ParserRejects
    BY <1>1, <1>n, TypeRefuse DEF ParserRejects, Errnos
  <1>2. CASE on_message_begin
    <2>1. CASE state \in {"Started"}
      <3>1. rx' \in ReceiveData
        BY <1>2, <2>1 DEF on_message_begin, TypeOK, ReceiveTypes, ReceiveData
      <3>2. parser' \in Parser /\ newRequest' \in Request
        BY <1>2, <2>1, TypeWithHeader DEF on_message_begin, TypeOK, ReceiveTypes, Parser
      <3>3. Accept("ReceiveRequestMessageBegin")
        BY <1>2, <2>1 DEF on_message_begin
      <3> QED
        BY <3>1, <3>2, <3>3, TypeAccept DEF States
    <2>2. CASE state \notin {"Started"}
      BY <1>2, <2>2, <1>n, TypeRefuse DEF on_message_begin, Errnos
    <2> QED
      BY <2>1, <2>2
  <1>3. CASE on_url
    <2>1. CASE state \in {"ReceiveRequestMessageBegin", "ReceiveRequestUrl"}
      <3>d. /\ <<token.data>> \in Pieces
            /\ Append(rx.url, token.data) \in Pieces
        BY <1>3, TokenType, PieceSeq DEF on_url, Fires, TypeOK, ReceiveTypes, ReceiveData
      <3>1. rx' \in ReceiveData
        BY <1>3, <2>1, <3>d DEF on_url, TypeOK, ReceiveTypes, ReceiveData
      <3>2. parser' \in Parser /\ newRequest' \in Request
        BY <1>3, <2>1, TypeWithHeader DEF on_url, TypeOK, ReceiveTypes, Parser
      <3>3. Accept("ReceiveRequestUrl")
        BY <1>3, <2>1 DEF on_url
      <3> QED
        BY <3>1, <3>2, <3>3, TypeAccept DEF States
    <2>2. CASE state \notin {"ReceiveRequestMessageBegin", "ReceiveRequestUrl"}
      BY <1>3, <2>2, <1>n, TypeRefuseData DEF on_url, Errnos
    <2> QED
      BY <2>1, <2>2
  <1>4. CASE on_header_field
    <2>1. CASE state \in {"ReceiveRequestHeaderValue", "ReceiveRequestUrl", "ReceiveRequestHeaderField"}
      <3>d. /\ <<token.data>> \in Pieces
            /\ Append(rx.headerField, token.data) \in Pieces
        BY <1>4, TokenType, PieceSeq DEF on_header_field, Fires, TypeOK, ReceiveTypes, ReceiveData
      <3>1. rx' \in ReceiveData
        BY <1>4, <2>1, <3>d DEF on_header_field, TypeOK, ReceiveTypes, ReceiveData
      <3>2. parser' \in Parser /\ newRequest' \in Request
        BY <1>4, <2>1, TypeWithHeader DEF on_header_field, TypeOK, ReceiveTypes, Parser
      <3>3. Accept("ReceiveRequestHeaderField")
        BY <1>4, <2>1 DEF on_header_field
      <3> QED
        BY <3>1, <3>2, <3>3, TypeAccept DEF States
    <2>2. CASE state \notin {"ReceiveRequestHeaderValue", "ReceiveRequestUrl", "ReceiveRequestHeaderField"}
      BY <1>4, <2>2, <1>n, TypeRefuseData DEF on_header_field, Errnos
    <2> QED
      BY <2>1, <2>2
  <1>5. CASE on_header_value
    <2>1. CASE state \in {"ReceiveRequestHeaderField", "ReceiveRequestHeaderValue"}
      <3>d. /\ <<token.data>> \in Pieces
            /\ Append(rx.headerValue, token.data) \in Pieces
        BY <1>5, TokenType, PieceSeq DEF on_header_value, Fires, TypeOK, ReceiveTypes, ReceiveData
      <3>1. rx' \in ReceiveData
        BY <1>5, <2>1, <3>d DEF on_header_value, TypeOK, ReceiveTypes, ReceiveData
      <3>2. parser' \in Parser /\ newRequest' \in Request
        BY <1>5, <2>1, TypeWithHeader DEF on_header_value, TypeOK, ReceiveTypes, Parser
      <3>3. Accept("ReceiveRequestHeaderValue")
        BY <1>5, <2>1 DEF on_header_value
      <3> QED
        BY <3>1, <3>2, <3>3, TypeAccept DEF States
    <2>2. CASE state \notin {"ReceiveRequestHeaderField", "ReceiveRequestHeaderValue"}
      BY <1>5, <2>2, <1>n, TypeRefuseData DEF on_header_value, Errnos
    <2> QED
      BY <2>1, <2>2
  <1>6. CASE on_headers_complete
    <2>1. CASE state \in {"ReceiveRequestHeaderValue", "ReceiveRequestUrl"}
      <3>1. rx' \in ReceiveData
        BY <1>6, <2>1 DEF on_headers_complete, TypeOK, ReceiveTypes, ReceiveData
      <3>2. parser' \in Parser /\ newRequest' \in Request
        BY <1>6, <2>1, TypeWithHeader DEF on_headers_complete, TypeOK, ReceiveTypes, Parser, Request, ReceiveData
      <3>3. Accept("ReceiveRequestHeadersComplete")
        BY <1>6, <2>1 DEF on_headers_complete
      <3> QED
        BY <3>1, <3>2, <3>3, TypeAccept DEF States
    <2>2. CASE state \notin {"ReceiveRequestHeaderValue", "ReceiveRequestUrl"}
      BY <1>6, <2>2, <1>n, TypeRefuse DEF on_headers_complete, Errnos
    <2> QED
      BY <2>1, <2>2
  <1>7. CASE on_body
    <2>1. CASE state \in {"ReceiveRequestHeadersComplete", "ReceiveRequestBody"}
      <3>d. /\ <<token.data>> \in Pieces
            /\ Append(rx.bodyBuffers, token.data) \in Pieces
        BY <1>7, TokenType, PieceSeq DEF on_body, Fires, TypeOK, ReceiveTypes, ReceiveData
      <3>1. rx' \in ReceiveData
        BY <1>7, <2>1, <3>d DEF on_body, TypeOK, ReceiveTypes, ReceiveData
      <3>2. parser' \in Parser /\ newRequest' \in Request
        BY <1>7, <2>1, TypeWithHeader DEF on_body, TypeOK, ReceiveTypes, Parser
      <3>3. Accept("ReceiveRequestBody")
        BY <1>7, <2>1 DEF on_body
      <3> QED
        BY <3>1, <3>2, <3>3, TypeAccept DEF States
    <2>2. CASE state \notin {"ReceiveRequestHeadersComplete", "ReceiveRequestBody"}
      BY <1>7, <2>2, <1>n, TypeRefuseData DEF on_body, Errnos
    <2> QED
      BY <2>1, <2>2
  <1>8. CASE on_message_complete
    <2>1. CASE state \in {"ReceiveRequestHeadersComplete", "ReceiveRequestBody"}
      <3>e. "" \in Data
        BY WiresAssumption
      <3>d. <<"">> \in Pieces
        BY <3>e, PieceSeq, FreshTypes DEF Request
      <3>1. rx' \in ReceiveData
        <4>1. BodyBuffersAtEnd \in Pieces
          BY <3>d DEF BodyBuffersAtEnd, TypeOK, ReceiveTypes, ReceiveData
        <4> QED
          BY <1>8, <2>1, <4>1 DEF on_message_complete, TypeOK, ReceiveTypes, ReceiveData
      <3>2. parser' \in Parser /\ newRequest' \in Request
        BY <1>8, <2>1, TypeWithHeader DEF on_message_complete, TypeOK, ReceiveTypes, Parser
      <3>3. Accept("ReceiveRequestMessageComplete")
        BY <1>8, <2>1 DEF on_message_complete
      <3> QED
        BY <3>1, <3>2, <3>3, TypeAccept DEF States
    <2>2. CASE state \notin {"ReceiveRequestHeadersComplete", "ReceiveRequestBody"}
      BY <1>8, <2>2, <1>n, TypeRefuse DEF on_message_complete, Errnos
    <2> QED
      BY <2>1, <2>2
  <1> QED
    BY <1>1, <1>2, <1>3, <1>4, <1>5, <1>6, <1>7, <1>8

LEMMA TypeParseReturns == ASSUME TypeOK, ParseReturns PROVE TypeOK'
  <1>1. nextRequestBuffer' \in Seq(Token)
    <2>1. CASE parsed = Len(lastBuffer)
      BY <2>1 DEF ParseReturns, TypeOK, ReceiveTypes
    <2>2. CASE parsed # Len(lastBuffer) /\ PipelinedRest
      <3>1. SubSeq(lastBuffer, parsed, Len(lastBuffer)) \in Seq(Token)
        BY <2>2 DEF PipelinedRest, TypeOK, ReceiveTypes
      <3> QED
        BY <2>2, <3>1 DEF ParseReturns
    <2>3. CASE parsed # Len(lastBuffer) /\ ~PipelinedRest
      BY <2>3 DEF ParseReturns, TypeOK, ReceiveTypes
    <2> QED
      BY <2>1, <2>2, <2>3
  <1>2. ClientTypes'
    BY ShutdownTypes DEF ParseReturns, TypeOK, ClientTypes
  <1>3. ReceiveTypes'
    BY <1>1, ShutdownTypes DEF ParseReturns, TypeOK, ReceiveTypes
  <1>4. QueueTypes'
    BY ShutdownTypes DEF ParseReturns, TypeOK, QueueTypes
  <1>5. ReplyTypes' /\ HistoryTypes'
    BY DEF ParseReturns, TypeOK, ReplyTypes, HistoryTypes
  <1> QED
    BY <1>2, <1>3, <1>4, <1>5 DEF TypeOK

LEMMA TypeContinueReceiving ==
    ASSUME TypeOK, NEW data \in ReceiveData, NEW request \in Request,
           ContinueReceiving(data, request)
    PROVE  /\ ReceiveTypes' /\ arrived' \in Arrival /\ recv' \in {"read", "done"}
  <1>1. arrived' \in Arrival
    BY FreshTypes DEF ContinueReceiving, TypeOK, ClientTypes, ReceiveTypes, Arrival
  <1>2. rx' \in ReceiveData
    <2>1. data.requestId + 1 \in Nat
      BY DEF ReceiveData
    <2> QED
      BY <2>1, FreshTypes DEF ContinueReceiving
  <1>3. ReceiveTypes'
    <2>1. /\ lastBuffer' \in Seq(Token) /\ nextRequestBuffer' \in Seq(Token) /\ parsed' \in Nat
      <3>1. lastBuffer \in Seq(Token) /\ nextRequestBuffer \in Seq(Token) /\ parsed \in Nat
        BY DEF TypeOK, ReceiveTypes
      <3>2. <<>> \in Seq(Token)
        OBVIOUS
      <3>3. CASE state = "Closing"
        BY <3>1, <3>3 DEF ContinueReceiving
      <3>4. CASE state # "Closing"
        <4>1. lastBuffer' = <<>> /\ nextRequestBuffer' = <<>> /\ parsed' = 0
          BY <3>4 DEF ContinueReceiving
        <4> QED
          BY <3>2, <4>1
      <3> QED
        BY <3>3, <3>4
    <2>2. state' \in States /\ parser' \in Parser /\ newRequest' \in Request
      BY FreshTypes DEF ContinueReceiving, TypeOK, ReceiveTypes, States
    <2> QED
      BY <1>2, <2>1, <2>2 DEF ReceiveTypes
  <1> QED
    BY <1>1, <1>3 DEF ContinueReceiving

LEMMA TypeEnqueueBody == ASSUME TypeOK, EnqueueBodyBuffer \/ PushBody PROVE TypeOK'
  <1>1. CASE EnqueueBodyBuffer
    <2> DEFINE index == rx.bodyBufferEnqueueIndex + 1
               entry == [buffer |-> rx.bodyBuffers[index], id |-> rx.requestId,
                         isEnd |-> IsEnd(index)]
    <2>i. index \in Nat \ {0} /\ rx.bodyBuffers \in Seq(Data) /\ rx.requestId \in Nat
      BY DEF TypeOK, ReceiveTypes, ReceiveData, Pieces
    <2>a. rx' \in ReceiveData
      <3>1. /\ \A n \in Nat : [rx EXCEPT !.bodyBufferEnqueueIndex = n] \in ReceiveData
            /\ \A b \in Pieces :
                 [rx EXCEPT !.bodyBuffers = b, !.bodyBufferEnqueueIndex = 0] \in ReceiveData
        BY DEF TypeOK, ReceiveTypes, ReceiveData
      <3>2. <<>> \in Pieces
        BY DEF Pieces
      <3> QED
        BY <1>1, <2>i, <3>1, <3>2 DEF EnqueueBodyBuffer
    <2>e. index <= Len(rx.bodyBuffers) => entry \in BodyEntry
      BY <2>i DEF BodyEntry, IsEnd
    <2> HIDE DEF entry
    <2>b. /\ requestBodyQueue' \in Seq(BodyEntry) /\ Len(requestBodyQueue') <= RequestBodyQueueSize
          /\ recv' = "pushBody" => pushing' \in Seq(BodyEntry) /\ Len(pushing') = 1
          /\ recv' \in {"enqueueBody", "done", "body", "pushBody"}
      <3>1. CASE index > Len(rx.bodyBuffers)
        BY <1>1, <2>i, <3>1 DEF EnqueueBodyBuffer, TypeOK, QueueTypes
      <3>2. CASE index <= Len(rx.bodyBuffers)
        <4>4. requestBodyQueue \in Seq(BodyEntry) /\ Len(requestBodyQueue) <= RequestBodyQueueSize
          BY DEF TypeOK, QueueTypes
        <4>1. \/ recv' = "done" /\ requestBodyQueue' = requestBodyQueue
              \/ /\ recv' = "body" /\ Len(requestBodyQueue) < RequestBodyQueueSize
                 /\ requestBodyQueue' = Append(requestBodyQueue, entry)
              \/ recv' = "pushBody" /\ requestBodyQueue' = requestBodyQueue /\ pushing' = <<entry>>
          BY <1>1, <2>i, <3>2, <4>4, SizesAreNatural DEF EnqueueBodyBuffer, BodyQueueFull, entry
        <4>2. entry \in BodyEntry
          BY <2>e, <3>2
        <4>3. /\ Append(requestBodyQueue, entry) \in Seq(BodyEntry)
              /\ Len(Append(requestBodyQueue, entry)) = Len(requestBodyQueue) + 1
              /\ <<entry>> \in Seq(BodyEntry) /\ Len(<<entry>>) = 1
          BY <4>2 DEF TypeOK, QueueTypes
        <4> QED
          <5>1. CASE requestBodyQueue' = requestBodyQueue
            BY <4>1, <4>3, <4>4, <5>1
          <5>2. CASE /\ recv' = "body" /\ Len(requestBodyQueue) < RequestBodyQueueSize
                     /\ requestBodyQueue' = Append(requestBodyQueue, entry)
            <6>1. Len(requestBodyQueue') <= RequestBodyQueueSize
              BY <4>3, <4>4, <5>2, SizesAreNatural
            <6> QED
              BY <4>3, <5>2, <6>1
          <5> QED
            BY <4>1, <5>1, <5>2
      <3> QED
        BY <2>i, <3>1, <3>2
    <2>1. ReceiveTypes'
      BY <1>1, <2>a DEF EnqueueBodyBuffer, TypeOK, ReceiveTypes
    <2>2. QueueTypes'
      BY <1>1, <2>b DEF EnqueueBodyBuffer, TypeOK, QueueTypes
    <2>3. ClientTypes' /\ ReplyTypes' /\ HistoryTypes'
      BY <1>1 DEF EnqueueBodyBuffer, TypeOK, ClientTypes, ReplyTypes, HistoryTypes
    <2> QED
      BY <2>1, <2>2, <2>3 DEF TypeOK
  <1>2. CASE PushBody
    <2>a. requestBodyQueue' \in Seq(BodyEntry) /\ Len(requestBodyQueue') <= RequestBodyQueueSize
      <3>1. /\ requestBodyQueue \o pushing \in Seq(BodyEntry)
            /\ Len(requestBodyQueue \o pushing) = Len(requestBodyQueue) + 1
        <4>1. /\ requestBodyQueue \in Seq(BodyEntry)
              /\ pushing \in Seq(BodyEntry) /\ Len(pushing) = 1
          BY <1>2 DEF PushBody, TypeOK, QueueTypes
        <4>2. requestBodyQueue \o pushing \in Seq(BodyEntry)
          BY <4>1, ConcatProperties
        <4>3. Len(requestBodyQueue \o pushing) = Len(requestBodyQueue) + Len(pushing)
          BY <4>1, ConcatProperties
        <4> QED
          BY <4>1, <4>2, <4>3
      <3>2. requestBodyQueue \in Seq(BodyEntry) /\ Len(requestBodyQueue) <= RequestBodyQueueSize
        BY DEF TypeOK, QueueTypes
      <3> QED
        BY <1>2, <3>1, <3>2, SizesAreNatural DEF PushBody, BodyQueueFull
    <2>1. QueueTypes'
      BY <1>2, <2>a DEF PushBody, TypeOK, QueueTypes
    <2>2. ClientTypes' /\ ReceiveTypes' /\ ReplyTypes' /\ HistoryTypes'
      BY <1>2 DEF PushBody, TypeOK, ClientTypes, ReceiveTypes, ReplyTypes, HistoryTypes
    <2> QED
      BY <2>1, <2>2 DEF TypeOK
  <1> QED
    BY <1>1, <1>2

LEMMA TypeEnqueueRequest == ASSUME TypeOK, EnqueueAndContinue \/ PushRequest PROVE TypeOK'
  <1>1. CASE EnqueueAndContinue
    <2> DEFINE entry == [request |-> newRequest, id |-> rx.requestId,
                         hasBody |-> (recv = "enqueueBody") \/ state # "ReceiveRequestMessageComplete"]
               queued == [rx EXCEPT !.requestEnqueued = TRUE]
    <2>e. entry \in RequestEntry /\ queued \in ReceiveData
      BY DEF TypeOK, ReceiveTypes, ReceiveData, RequestEntry
    <2>r. rx \in ReceiveData /\ newRequest \in Request /\ NoRequest \in Request
      BY FreshTypes DEF TypeOK, ReceiveTypes
    <2>c. \/ /\ ContinueReceiving(rx, newRequest)
             /\ UNCHANGED <<requestQueue, pushing, received>>
          \/ /\ ContinueReceiving(queued, NoRequest)
             /\ Len(requestQueue) < RequestQueueSize /\ requestQueue' = Append(requestQueue, entry)
             /\ received' = received + 1
          \/ /\ recv' = "pushRequest" /\ pushing' = <<entry>> /\ rx' = queued
             /\ newRequest' = NoRequest /\ received' = received + 1
             /\ UNCHANGED <<requestQueue, state, parser, arrived, lastBuffer, parsed,
                            nextRequestBuffer>>
      BY <1>1 DEF EnqueueAndContinue, EnqueueRequest
    <2> HIDE DEF entry, queued
    <2>1. ReceiveTypes' /\ arrived' \in Arrival
      BY <2>c, <2>e, <2>r, TypeContinueReceiving DEF TypeOK, ReceiveTypes, ClientTypes
    <2>2. ClientTypes'
      BY <1>1, <2>1 DEF EnqueueAndContinue, TypeOK, ClientTypes
    <2>3. QueueTypes'
      <3>1. requestQueue' \in Seq(RequestEntry) /\ Len(requestQueue') <= RequestQueueSize
        BY <2>c, <2>e, SizesAreNatural DEF TypeOK, QueueTypes
      <3>2. \/ recv' \in {"read", "done"}
            \/ recv' = "pushRequest" /\ pushing' \in Seq(RequestEntry) /\ Len(pushing') = 1
        <4>1. <<entry>> \in Seq(RequestEntry) /\ Len(<<entry>>) = 1
          BY <2>e
        <4> QED
          BY <2>c, <2>e, <2>r, <4>1, TypeContinueReceiving
      <3> QED
        BY <1>1, <3>1, <3>2 DEF EnqueueAndContinue, TypeOK, QueueTypes
    <2>4. received' \in Nat
      BY <2>c DEF TypeOK, HistoryTypes
    <2>5. ReplyTypes' /\ HistoryTypes'
      BY <1>1, <2>4 DEF EnqueueAndContinue, TypeOK, ReplyTypes, HistoryTypes
    <2> QED
      BY <2>1, <2>2, <2>3, <2>5 DEF TypeOK
  <1>2. CASE PushRequest
    <2>r. rx \in ReceiveData /\ newRequest \in Request
      BY DEF TypeOK, ReceiveTypes
    <2>c. \/ ContinueReceiving(rx, newRequest) /\ Len(requestQueue) < RequestQueueSize
               /\ requestQueue' = requestQueue \o pushing
          \/ recv' = "done" /\ UNCHANGED <<requestQueue, state, arrived, parseVars>>
      BY <1>2 DEF PushRequest
    <2>1. ReceiveTypes' /\ arrived' \in Arrival /\ recv' \in {"read", "done"}
      BY <2>c, <2>r, TypeContinueReceiving DEF TypeOK, ReceiveTypes, ClientTypes
    <2>2. ClientTypes'
      BY <1>2, <2>1 DEF PushRequest, TypeOK, ClientTypes
    <2>3. QueueTypes'
      <3>1. /\ requestQueue \o pushing \in Seq(RequestEntry)
            /\ Len(requestQueue \o pushing) = Len(requestQueue) + 1
        <4>1. /\ requestQueue \in Seq(RequestEntry)
              /\ pushing \in Seq(RequestEntry) /\ Len(pushing) = 1
          BY <1>2 DEF PushRequest, TypeOK, QueueTypes
        <4>2. requestQueue \o pushing \in Seq(RequestEntry)
          BY <4>1, ConcatProperties
        <4>3. Len(requestQueue \o pushing) = Len(requestQueue) + Len(pushing)
          BY <4>1, ConcatProperties
        <4> QED
          BY <4>1, <4>2, <4>3
      <3>2. requestQueue \in Seq(RequestEntry) /\ Len(requestQueue) <= RequestQueueSize
        BY DEF TypeOK, QueueTypes
      <3>3. requestQueue' \in Seq(RequestEntry) /\ Len(requestQueue') <= RequestQueueSize
        BY <2>c, <3>1, <3>2, SizesAreNatural
      <3> QED
        BY <1>2, <2>1, <3>3 DEF PushRequest, TypeOK, QueueTypes
    <2>4. ReplyTypes' /\ HistoryTypes'
      BY <1>2 DEF PushRequest, TypeOK, ReplyTypes, HistoryTypes
    <2> QED
      BY <2>1, <2>2, <2>3, <2>4 DEF TypeOK
  <1> QED
    BY <1>1, <1>2

-----------------------------------------------------------------------------
(* Types are preserved: the reply loop *)

LEMMA TypeEnterReplyLoop ==
    ASSUME TypeOK, NEW closing, NEW written \in Seq(Item), EnterReplyLoop(closing, written)
    PROVE  /\ reply' \in {"pop", "done", "error"} /\ out' \in Seq(Item)
           /\ lastErrorResponse' \in BOOLEAN
  <1>1. ErrorItem \in Item
    BY FreshTypes DEF ErrorItem, Item, TypeOK, ReplyTypes, ReplyData
  <1>2. Append(written, ErrorItem) \in Seq(Item)
    BY <1>1
  <1>3. lastErrorResponse \in BOOLEAN
    BY DEF TypeOK, ReplyTypes
  <1> QED
    BY <1>2, <1>3 DEF EnterReplyLoop

LEMMA TypeResponseHeaders ==
    ASSUME TypeOK, NEW response \in Response
    PROVE  /\ out \o Headers(response) \in Seq(Item)
           /\ AppendResponseHeaders(response) \in ReplyData
  <1>1. HeadItem(response) \in Item
    BY DEF HeadItem, Item, TypeOK, ReplyTypes, ReplyData
  <1>2. Headers(response) \in Seq(Item)
    BY <1>1 DEF Headers
  <1>3. out \in Seq(Item)
    BY DEF TypeOK, HistoryTypes
  <1>4. AppendResponseHeaders(response) \in ReplyData
    BY DEF TypeOK, ReplyTypes, AppendResponseHeaders, KeepaliveByConnectionHeader, ReplyData
  <1> QED
    BY <1>2, <1>3, <1>4, ConcatProperties

LEMMA TypeWriteBody ==
    ASSUME TypeOK, NEW response \in Response, WriteBody(response)
    PROVE  out' \in Seq(Item) /\ tx' \in ReplyData /\ detectTimeoutFlag' \in BOOLEAN
  <1>1. BodyItem(response) \in Item
    BY DEF BodyItem, Item, TypeOK, ReplyTypes, ReplyData
  <1>2. <<BodyItem(response)>> \in Seq(Item)
    BY <1>1
  <1>3. out' \in Seq(Item)
    BY <1>2, TypeResponseHeaders, ConcatProperties DEF WriteBody
  <1>4. \A d \in ReplyData : [d EXCEPT !.responseWrittenBytes = @ + 1] \in ReplyData
    BY DEF ReplyData
  <1> QED
    BY <1>3, <1>4, TypeResponseHeaders DEF WriteBody

LEMMA TypeWriteNothing ==
    ASSUME TypeOK, NEW response \in Response, WriteNothing(response)
    PROVE  out' \in Seq(Item) /\ tx' \in ReplyData /\ detectTimeoutFlag' \in BOOLEAN
  BY TypeResponseHeaders DEF WriteNothing

LEMMA TypeReply500 ==
    ASSUME TypeOK, Reply500
    PROVE  /\ out' \in Seq(Item) /\ tx' \in ReplyData /\ detectTimeoutFlag' \in BOOLEAN
           /\ context' \in Context /\ reply' = "catch"
  <1>1. ResponseOf500 \in Response
    BY DEF TypeOK, ReplyTypes, Context, Response, ResponseOf500
  <1>2. /\ WriteBody(ResponseOf500) /\ reply' = "catch"
        /\ context' = [context EXCEPT !.response = ResponseOf500]
    BY DEF Reply500
  <1>3. context' \in Context
    BY <1>1, <1>2 DEF TypeOK, ReplyTypes, Context
  <1> QED
    BY <1>1, <1>2, <1>3, TypeWriteBody

LEMMA TypePop == ASSUME TypeOK, PopRequest \/ PopAborted PROVE TypeOK'
  <1>1. CASE PopRequest
    <2>h. Head(requestQueue) \in RequestEntry
      BY <1>1 DEF PopRequest, TypeOK, QueueTypes
    <2>a. Tail(requestQueue) \in Seq(RequestEntry) /\ Len(Tail(requestQueue)) = Len(requestQueue) - 1
      BY <1>1, HeadTailProperties DEF PopRequest, TypeOK, QueueTypes
    <2>b. tx' \in ReplyData /\ context' \in Context
      <3>1. /\ Head(requestQueue).request \in Request /\ Head(requestQueue).id \in Nat
            /\ Head(requestQueue).hasBody \in BOOLEAN
        BY <2>h DEF RequestEntry
      <3>2. \A d \in ReplyData, id \in Nat, b \in BOOLEAN :
              [d EXCEPT !.requestId = id, !.requestBodyConsumed = b] \in ReplyData
        BY DEF ReplyData
      <3>3. tx' \in ReplyData
        <4>1. (~Head(requestQueue).hasBody) \in BOOLEAN
          OBVIOUS
        <4>2. tx' = [FreshReplyData EXCEPT !.requestId = Head(requestQueue).id,
                                           !.requestBodyConsumed = ~Head(requestQueue).hasBody]
          BY <1>1 DEF PopRequest
        <4> QED
          BY <3>1, <3>2, <4>1, <4>2, FreshTypes
      <3>4. context' \in Context
        <4>1. PICK response \in Responses :
                context' = [request |-> Head(requestQueue).request, response |-> response]
          BY <1>1 DEF PopRequest
        <4>2. response \in Response
          BY LimitsAssumption
        <4> QED
          BY <3>1, <4>1, <4>2 DEF Context
      <3> QED
        BY <3>3, <3>4
    <2>1. QueueTypes'
      BY <1>1, <2>a, SizesAreNatural DEF PopRequest, TypeOK, QueueTypes
    <2>2. ReplyTypes'
      BY <1>1, <2>b DEF PopRequest, TypeOK, ReplyTypes
    <2>3. HistoryTypes'
      BY <1>1 DEF PopRequest, TypeOK, HistoryTypes, Pieces
    <2>4. ClientTypes' /\ ReceiveTypes'
      BY <1>1 DEF PopRequest, TypeOK, ClientTypes, ReceiveTypes
    <2> QED
      BY <2>1, <2>2, <2>3, <2>4 DEF TypeOK
  <1>2. CASE PopAborted
    <2>a. /\ reply' \in {"pop", "done", "error"} /\ out' \in Seq(Item)
          /\ lastErrorResponse' \in BOOLEAN
      BY <1>2, TypeEnterReplyLoop DEF PopAborted, TypeOK, HistoryTypes
    <2>1. ReplyTypes'
      BY <1>2, <2>a DEF PopAborted, TypeOK, ReplyTypes
    <2>2. HistoryTypes'
      BY <1>2, <2>a DEF PopAborted, TypeOK, HistoryTypes
    <2>3. ClientTypes' /\ ReceiveTypes' /\ QueueTypes'
      BY <1>2 DEF PopAborted, TypeOK, ClientTypes, ReceiveTypes, QueueTypes
    <2> QED
      BY <2>1, <2>2, <2>3 DEF TypeOK
  <1> QED
    BY <1>1, <1>2

LEMMA TypeTakeBody == ASSUME TypeOK, TakeBody PROVE TypeOK'
  <1> DEFINE entry == Head(requestBodyQueue)
  <1>1. entry \in BodyEntry /\ Tail(requestBodyQueue) \in Seq(BodyEntry)
        /\ Len(Tail(requestBodyQueue)) = Len(requestBodyQueue) - 1
    BY HeadTailProperties DEF TakeBody, TypeOK, QueueTypes
  <1>2. QueueTypes'
    <2>1. requestBodyQueue \in Seq(BodyEntry) /\ Len(requestBodyQueue) <= RequestBodyQueueSize
      BY DEF TypeOK, QueueTypes
    <2>2. Len(requestBodyQueue) \in Nat
      BY <2>1
    <2>3. requestBodyQueue' = Tail(requestBodyQueue)
      BY DEF TakeBody
    <2>4. Len(requestBodyQueue') <= RequestBodyQueueSize
      BY <1>1, <2>1, <2>2, <2>3, SizesAreNatural
    <2> QED
      BY <1>1, <2>3, <2>4 DEF TakeBody, TypeOK, QueueTypes
  <1>3. CASE entry.id = tx.requestId
    <2>1. tx' \in ReplyData /\ reply' = "handle"
      BY <1>1, <1>3 DEF TakeBody, TypeOK, ReplyTypes, ReplyData, BodyEntry
    <2>2. delivered' \in Pieces
      BY <1>1, <1>3, PieceSeq DEF TakeBody, TypeOK, HistoryTypes, BodyEntry
    <2>3. ReplyTypes' /\ HistoryTypes'
      BY <1>3, <2>1, <2>2 DEF TakeBody, TypeOK, ReplyTypes, HistoryTypes
    <2> QED
      BY <1>2, <2>3 DEF TakeBody, TypeOK, ClientTypes, ReceiveTypes
  <1>4. CASE entry.id # tx.requestId
    <2>1. ReplyTypes' /\ HistoryTypes'
      BY <1>4, TypeReply500 DEF TakeBody, TypeOK, ReplyTypes, HistoryTypes
    <2> QED
      BY <1>2, <2>1 DEF TakeBody, TypeOK, ClientTypes, ReceiveTypes
  <1> QED
    BY <1>3, <1>4

LEMMA TypeReadAborted == ASSUME TypeOK, ReadAborted PROVE TypeOK'
  <1>1. ReplyTypes' /\ HistoryTypes'
    BY TypeReply500 DEF ReadAborted, TypeOK, ReplyTypes, HistoryTypes
  <1> QED
    BY <1>1 DEF ReadAborted, TypeOK, ClientTypes, ReceiveTypes, QueueTypes

LEMMA TypeHandler ==
    ASSUME TypeOK, HandlerReads \/ ReadResumes \/ HandlerWrites \/ HandlerThrows
    PROVE  TypeOK'
  <1>1. CASE HandlerReads
    <2>1. CASE TakeBody \/ ReadAborted
      BY <2>1, TypeTakeBody, TypeReadAborted
    <2>2. CASE ~(TakeBody \/ ReadAborted)
      BY <1>1, <2>2 DEF HandlerReads, TypeOK, ClientTypes, ReceiveTypes, QueueTypes, ReplyTypes,
                        HistoryTypes
    <2> QED
      BY <2>1, <2>2
  <1>2. CASE ReadResumes
    BY <1>2, TypeTakeBody, TypeReadAborted DEF ReadResumes
  <1>3. CASE HandlerWrites
    <2>a. out' \in Seq(Item) /\ tx' \in ReplyData /\ detectTimeoutFlag' \in BOOLEAN
      <3>1. context.response \in Response
        BY DEF TypeOK, ReplyTypes, Context
      <3> QED
        BY <1>3, <3>1, TypeWriteBody, TypeWriteNothing DEF HandlerWrites
    <2>1. ReplyTypes'
      BY <1>3, <2>a DEF HandlerWrites, TypeOK, ReplyTypes
    <2>2. HistoryTypes'
      BY <1>3, <2>a DEF HandlerWrites, TypeOK, HistoryTypes
    <2>3. ClientTypes' /\ ReceiveTypes' /\ QueueTypes'
      BY <1>3 DEF HandlerWrites, TypeOK, ClientTypes, ReceiveTypes, QueueTypes
    <2> QED
      BY <2>1, <2>2, <2>3 DEF TypeOK
  <1>4. CASE HandlerThrows
    <2>1. ReplyTypes'
      BY <1>4, TypeReply500 DEF HandlerThrows, TypeOK, ReplyTypes
    <2>2. HistoryTypes'
      BY <1>4, TypeReply500 DEF HandlerThrows, TypeOK, HistoryTypes
    <2>3. ClientTypes' /\ ReceiveTypes' /\ QueueTypes'
      BY <1>4 DEF HandlerThrows, TypeOK, ClientTypes, ReceiveTypes, QueueTypes
    <2> QED
      BY <2>1, <2>2, <2>3 DEF TypeOK
  <1> QED
    BY <1>1, <1>2, <1>3, <1>4

LEMMA ReplyFailsTypes ==
    ASSUME TypeOK, NEW written \in Seq(Item), ReplyFails(written)
    PROVE  /\ inputShut' \in BOOLEAN /\ state' \in States /\ aborted' \in BOOLEAN
           /\ requestQueue' \in Seq(RequestEntry) /\ Len(requestQueue') <= RequestQueueSize
           /\ requestBodyQueue' \in Seq(BodyEntry)
           /\ Len(requestBodyQueue') <= RequestBodyQueueSize
           /\ errors' \subseteq {"timeout", "receive", "initial_size", "invalid_format", "reply"}
           /\ reply' \in {"pop", "done", "error"} /\ out' \in Seq(Item)
           /\ lastErrorResponse' \in BOOLEAN
  <1>1. errors' \subseteq {"timeout", "receive", "initial_size", "invalid_format", "reply"}
    BY DEF ReplyFails, TypeOK, HistoryTypes
  <1> QED
    BY <1>1, ShutdownTypes, TypeEnterReplyLoop DEF ReplyFails

LEMMA TypeWrites ==
    ASSUME TypeOK, WriteResolves \/ Write500Resolves \/ FlushResolves \/ ErrorResponseResolves
    PROVE  TypeOK'
  <1>o. out \in Seq(Item)
    BY DEF TypeOK, HistoryTypes
  <1>1. CASE WriteResolves
    <2>1. ReplyTypes'
      BY <1>1, TypeReply500 DEF WriteResolves, TypeOK, ReplyTypes
    <2>2. HistoryTypes'
      BY <1>1, TypeReply500 DEF WriteResolves, TypeOK, HistoryTypes
    <2>3. ClientTypes' /\ ReceiveTypes' /\ QueueTypes'
      BY <1>1 DEF WriteResolves, TypeOK, ClientTypes, ReceiveTypes, QueueTypes
    <2> QED
      BY <2>1, <2>2, <2>3 DEF TypeOK
  <1>2. CASE Write500Resolves
    <2>1. ClientTypes'
      BY <1>2, <1>o, ReplyFailsTypes DEF Write500Resolves, TypeOK, ClientTypes
    <2>2. ReceiveTypes'
      BY <1>2, <1>o, ReplyFailsTypes DEF Write500Resolves, TypeOK, ReceiveTypes
    <2>3. QueueTypes'
      BY <1>2, <1>o, ReplyFailsTypes DEF Write500Resolves, TypeOK, QueueTypes
    <2>4. ReplyTypes'
      BY <1>2, <1>o, ReplyFailsTypes DEF Write500Resolves, TypeOK, ReplyTypes
    <2>5. HistoryTypes'
      BY <1>2, <1>o, ReplyFailsTypes DEF Write500Resolves, TypeOK, HistoryTypes
    <2> QED
      BY <2>1, <2>2, <2>3, <2>4, <2>5 DEF TypeOK
  <1>3. CASE FlushResolves
    <2>a. /\ reply' \in {"pop", "done", "error"} /\ out' \in Seq(Item)
          /\ lastErrorResponse' \in BOOLEAN
      BY <1>3, <1>o, TypeEnterReplyLoop, ReplyFailsTypes DEF FlushResolves
    <2>1. ClientTypes'
      BY <1>3, <2>a, <1>o, ReplyFailsTypes, ShutdownTypes DEF FlushResolves, TypeOK, ClientTypes
    <2>2. ReceiveTypes'
      BY <1>3, <2>a, <1>o, ReplyFailsTypes, ShutdownTypes DEF FlushResolves, TypeOK, ReceiveTypes
    <2>3. QueueTypes'
      BY <1>3, <2>a, <1>o, ReplyFailsTypes, ShutdownTypes DEF FlushResolves, TypeOK, QueueTypes
    <2>4. ReplyTypes'
      BY <1>3, <2>a, <1>o, ReplyFailsTypes, ShutdownTypes DEF FlushResolves, TypeOK, ReplyTypes
    <2>5. HistoryTypes'
      <3>1. handled' \in Nat /\ flushed' \in Nat
        <4>1. handled' \in {handled, handled + 1} /\ flushed' \in {flushed, flushed + 1}
          BY <1>3 DEF FlushResolves
        <4>2. handled \in Nat /\ flushed \in Nat
          BY DEF TypeOK, HistoryTypes
        <4> QED
          BY <4>1, <4>2
      <3>2. errors' \subseteq {"timeout", "receive", "initial_size", "invalid_format", "reply"}
        BY <1>3, <1>o, ReplyFailsTypes DEF FlushResolves, TypeOK, HistoryTypes
      <3>3. received' = received /\ delivered' = delivered
        BY <1>3 DEF FlushResolves
      <3> QED
        BY <2>a, <3>1, <3>2, <3>3 DEF TypeOK, HistoryTypes
    <2> QED
      BY <2>1, <2>2, <2>3, <2>4, <2>5 DEF TypeOK
  <1>4. CASE ErrorResponseResolves
    <2>1. ClientTypes' /\ ReceiveTypes' /\ QueueTypes' /\ ReplyTypes' /\ HistoryTypes'
      BY <1>4 DEF ErrorResponseResolves, TypeOK, ClientTypes, ReceiveTypes, QueueTypes, ReplyTypes, HistoryTypes
    <2> QED
      BY <2>1 DEF TypeOK
  <1> QED
    BY <1>1, <1>2, <1>3, <1>4

LEMMA TypeHandlerReturns == ASSUME TypeOK, HandlerReturns PROVE TypeOK'
  <1> DEFINE data == AppendResponseHeaders(context.response)
             kept == data.keepConnection /\ KeepaliveByContentLength(data)
             written == out \o Headers(context.response)
  <1>1. written \in Seq(Item) /\ data \in ReplyData
    BY TypeResponseHeaders DEF TypeOK, ReplyTypes, Context
  <1>2. tx' \in ReplyData
    <2>1. tx' = [data EXCEPT !.keepConnection = kept]
      BY DEF HandlerReturns
    <2>2. kept \in BOOLEAN
      BY <1>1 DEF ReplyData, KeepaliveByContentLength
    <2> HIDE DEF data, kept
    <2> QED
      BY <1>1, <2>1, <2>2 DEF ReplyData
  <1>3. \/ /\ reply' = "flush" /\ out' = written
           /\ UNCHANGED <<inputShut, state, queueVars, flushed, handled, errors, lastErrorResponse>>
        \/ /\ EnterReplyLoop(state = "Closing", written)
           /\ handled' = handled + 1 /\ flushed' \in {flushed, flushed + 1}
           /\ UNCHANGED <<inputShut, state, queueVars, errors>>
        \/ /\ handled' = handled + 1 /\ flushed' = flushed + 1
           /\ Shutdown /\ EnterReplyLoop(TRUE, written)
           /\ UNCHANGED errors
        \/ ReplyFails(written) /\ UNCHANGED <<handled, flushed>>
    BY DEF HandlerReturns
  <1> HIDE DEF written
  <1>4. /\ reply' \in {"pop", "done", "error", "flush"} /\ out' \in Seq(Item)
        /\ lastErrorResponse' \in BOOLEAN
    BY <1>1, <1>3, TypeEnterReplyLoop, ReplyFailsTypes DEF TypeOK, ReplyTypes
  <1>5. ClientTypes'
    BY <1>1, <1>3, ShutdownTypes, ReplyFailsTypes DEF HandlerReturns, TypeOK, ClientTypes
  <1>6. ReceiveTypes'
    BY <1>1, <1>3, ShutdownTypes, ReplyFailsTypes DEF HandlerReturns, TypeOK, ReceiveTypes
  <1>7. QueueTypes'
    BY <1>1, <1>3, ShutdownTypes, ReplyFailsTypes DEF HandlerReturns, TypeOK, QueueTypes
  <1>8. ReplyTypes'
    BY <1>2, <1>4 DEF HandlerReturns, TypeOK, ReplyTypes
  <1>9. HistoryTypes'
    <2>1. handled' \in Nat /\ flushed' \in Nat
      <3>1. handled' \in {handled, handled + 1} /\ flushed' \in {flushed, flushed + 1}
        BY <1>3
      <3>2. handled \in Nat /\ flushed \in Nat
        BY DEF TypeOK, HistoryTypes
      <3> QED
        BY <3>1, <3>2
    <2>2. errors' \subseteq {"timeout", "receive", "initial_size", "invalid_format", "reply"}
      BY <1>1, <1>3, ReplyFailsTypes DEF TypeOK, HistoryTypes
    <2>3. received' = received /\ delivered' = delivered
      BY DEF HandlerReturns
    <2> QED
      BY <1>4, <2>1, <2>2, <2>3 DEF TypeOK, HistoryTypes
  <1> QED
    BY <1>5, <1>6, <1>7, <1>8, <1>9 DEF TypeOK

(* Every variable keeps its type and the queues never hold more than their *)
(* capacity, whatever the client, the handlers and the timer do.           *)
THEOREM TypeInvariant == Spec => []TypeOK
  <1>1. TypeOK /\ [Next]_vars => TypeOK'
    <2> SUFFICES ASSUME TypeOK, [Next]_vars PROVE TypeOK'
      OBVIOUS
    <2>1. CASE Start \/ Stop \/ TimerTick \/ Close \/ PeerCloses \/ ReadResolves
      BY <2>1, TypeEnvironment
    <2>2. CASE ReceiveStep
      BY <2>2, TypeReceive, TypeCallback, TypeParseReturns, TypeEnqueueBody, TypeEnqueueRequest
      DEF ReceiveStep
    <2>3. CASE ReplyStep
      BY <2>3, TypePop DEF ReplyStep
    <2>4. CASE HandlerStep
      BY <2>4, TypeHandler, TypeHandlerReturns DEF HandlerStep
    <2>5. CASE WriteStep
      BY <2>5, TypeWrites DEF WriteStep
    <2>6. CASE UNCHANGED vars
      BY <2>6 DEF vars, TypeOK, ClientTypes, ReceiveTypes, QueueTypes, ReplyTypes, HistoryTypes
    <2> QED
      BY <2>1, <2>2, <2>3, <2>4, <2>5, <2>6 DEF Next, Closed
  <1> QED
    BY <1>1, TypeInit, PTL DEF Spec

-----------------------------------------------------------------------------
(* Consequences of the invariant *)

(* A request is never handled before the receive loop has reached it. *)
LEMMA HandledIsReceived ==
    ASSUME TypeOK, PairingInv, ~aborted, Handling
    PROVE  /\ tx.requestId \in 0 .. rx.requestId /\ tx.requestId < NextPush
           /\ NextPush \in {rx.requestId, rx.requestId + 1}
           /\ Len(requestQueue) \in Nat /\ tx.requestId + 1 + Len(requestQueue) = NextPush
  <1>1. tx.requestId \in Nat /\ rx.requestId \in Nat /\ Len(requestQueue) \in Nat
    BY DEF TypeOK, ReceiveTypes, ReplyTypes, QueueTypes, ReceiveData, ReplyData
  <1>2. tx.requestId + 1 + Len(requestQueue) = NextPush
    BY DEF PairingInv, RequestIdsInv
  <1> QED
    BY <1>1, <1>2 DEF NextPush

LEMMA PairingImpliesBelongs == ASSUME TypeOK, PairingInv PROVE BodyBelongsToRequest
  <1> SUFFICES ASSUME reply \in {"handle", "read"}, ~tx.requestBodyConsumed,
                      requestBodyQueue # <<>>
               PROVE  Head(requestBodyQueue).id = tx.requestId
    BY DEF BodyBelongsToRequest
  <1>1. ~aborted /\ Handling
    BY DEF PairingInv, ControlInv, Handling
  <1>2. 1 \in DOMAIN requestBodyQueue /\ Head(requestBodyQueue) = requestBodyQueue[1]
        /\ \A j \in DOMAIN requestBodyQueue : j \in Nat /\ 1 <= j /\ requestBodyQueue[j].id \in Nat
    <2>1. requestBodyQueue \in Seq(BodyEntry)
      BY DEF TypeOK, QueueTypes
    <2>2. \A j \in DOMAIN requestBodyQueue : requestBodyQueue[j] \in BodyEntry
      BY <2>1
    <2>3. \A j \in DOMAIN requestBodyQueue : requestBodyQueue[j].id \in Nat
      BY <2>2 DEF BodyEntry
    <2> QED
      BY <2>1, <2>3
  <1>3. requestBodyQueue[1].id >= tx.requestId /\ requestBodyQueue[1].id <= rx.requestId
    BY <1>1, <1>2 DEF PairingInv, BodyOrderInv
  <1>4. EndQueued(tx.requestId) \/ tx.requestId = rx.requestId
    BY <1>1, HandledIsReceived DEF PairingInv, BodyEndInv, Expecting
  <1>5. tx.requestId \in Nat /\ rx.requestId \in Nat
    BY DEF TypeOK, ReceiveTypes, ReplyTypes, ReceiveData, ReplyData
  <1>6. CASE EndQueued(tx.requestId)
    <2>1. PICK j \in DOMAIN requestBodyQueue : requestBodyQueue[j].id = tx.requestId
      BY <1>6 DEF EndQueued
    <2>2. requestBodyQueue[1].id <= requestBodyQueue[j].id
      <3>1. CASE j = 1
        BY <1>2, <3>1
      <3>2. CASE j # 1
        <4>1. 1 < j
          BY <1>2, <3>2
        <4> QED
          BY <1>2, <4>1 DEF PairingInv, BodyOrderInv
      <3> QED
        BY <3>1, <3>2
    <2> QED
      BY <1>2, <1>3, <1>5, <2>1, <2>2
  <1>7. CASE tx.requestId = rx.requestId
    BY <1>2, <1>3, <1>5, <1>7
  <1> QED
    BY <1>4, <1>6, <1>7

-----------------------------------------------------------------------------
(* Steps that change nothing the invariant is about, or shut down *)

LEMMA PairingInit == Init => PairingInv
  BY DEF Init, PairingInv, ControlInv, PushingInv, RequestIdsInv, BodyOrderInv, BodyEndInv,
         Handling, NextPush, BodyPushed, EndQueued, Expecting, NoChunk, FreshReceiveData,
         FreshReplyData

LEMMA PairingUnchanged ==
    ASSUME PairingInv,
           UNCHANGED <<aborted, state, requestQueue, requestBodyQueue, recv, reply, rx, tx, pushing>>
    PROVE  PairingInv'
  BY DEF PairingInv, ControlInv, PushingInv, RequestIdsInv, BodyOrderInv, BodyEndInv,
         Handling, NextPush, BodyPushed, EndQueued, Expecting, NoChunk

(* Nothing is left to pair once the queues are aborted. *)
LEMMA PairingAborted ==
    ASSUME aborted', requestQueue' = <<>>, requestBodyQueue' = <<>>, ControlInv', PushingInv'
    PROVE  PairingInv'
  BY DEF PairingInv, RequestIdsInv, BodyOrderInv, BodyEndInv

LEMMA PairingShutdown ==
    ASSUME PairingInv, Shutdown, recv # "none", recv' \in {recv, "done"}, pushing' = pushing,
           rx'.requestId = rx.requestId, rx'.requestEnqueued = rx.requestEnqueued,
           rx'.bodyBuffers = rx.bodyBuffers,
           rx'.bodyBufferEnqueueIndex = rx.bodyBufferEnqueueIndex,
           (reply' = reply /\ tx' = tx) \/ reply' \in {"pop", "done", "error"}
    PROVE  PairingInv'
  <1>1. ControlInv'
    BY DEF PairingInv, ControlInv, Shutdown
  <1>2. PushingInv'
    BY DEF PairingInv, PushingInv, Shutdown
  <1> QED
    BY <1>1, <1>2, PairingAborted DEF Shutdown

LEMMA PairingEnvironment ==
    ASSUME TypeOK, PairingInv, Start \/ Stop \/ TimerTick \/ Close \/ PeerCloses \/ ReadResolves
    PROVE  PairingInv'
  <1>1. CASE Start
    <2>1. ControlInv'
      BY <1>1 DEF Start, PairingInv, ControlInv
    <2>2. /\ ~rx.requestEnqueued /\ recv = "none" /\ recv' = "read" /\ reply' = "pop"
          /\ requestQueue' = <<>> /\ requestBodyQueue' = <<>>
          /\ UNCHANGED <<rx, tx, aborted, pushing>>
      BY <1>1 DEF Start, PairingInv, ControlInv
    <2>3. PushingInv'
      BY <2>2 DEF PushingInv
    <2>4. RequestIdsInv' /\ BodyOrderInv'
      BY <2>2 DEF RequestIdsInv, BodyOrderInv, Handling
    <2>5. BodyEndInv'
      BY <2>2 DEF BodyEndInv, Expecting, Handling, BodyPushed
    <2> QED
      BY <2>1, <2>3, <2>4, <2>5 DEF PairingInv
  <1>2. CASE Stop
    BY <1>2, PairingShutdown DEF Stop, Running, PairingInv, ControlInv
  <1>3. CASE TimerTick
    <2>1. CASE detectTimeoutFlag
      BY <1>3, <2>1, PairingShutdown DEF TimerTick, Running, PairingInv, ControlInv
    <2>2. CASE ~detectTimeoutFlag
      BY <1>3, <2>2, PairingUnchanged DEF TimerTick
    <2> QED
      BY <2>1, <2>2
  <1>4. CASE Close
    <2>1. /\ aborted /\ recv = "done" /\ reply = "done" /\ state' = "Closed"
          /\ requestQueue = <<>> /\ requestBodyQueue = <<>>
          /\ UNCHANGED <<aborted, requestQueue, requestBodyQueue, recv, reply, rx, tx, pushing>>
      BY <1>4 DEF Close, PairingInv, ControlInv
    <2>2. ControlInv' /\ PushingInv'
      BY <2>1 DEF PairingInv, ControlInv, PushingInv
    <2> QED
      BY <2>1, <2>2, PairingAborted
  <1>5. CASE PeerCloses \/ ReadResolves
    BY <1>5, PairingUnchanged DEF PeerCloses, ReadResolves
  <1> QED
    BY <1>1, <1>2, <1>3, <1>4, <1>5

-----------------------------------------------------------------------------
(* The receive loop up to the end of parsing: no chunk is queued, and the  *)
(* request it works on stays the same.                                     *)

SameRequest ==
    /\ rx'.requestId = rx.requestId /\ rx'.requestEnqueued = rx.requestEnqueued
    /\ rx'.bodyBufferEnqueueIndex = rx.bodyBufferEnqueueIndex

BeforeBody == {"read", "parse", "firstBody", "enqueue"}

(* What is paired does not depend on how far a packet is parsed. *)
LEMMA PairingParsing ==
    ASSUME PairingInv, ControlInv', SameRequest,
           recv \in BeforeBody, recv' \in BeforeBody,
           UNCHANGED <<aborted, requestQueue, requestBodyQueue, reply, tx>>
    PROVE  PairingInv'
  <1>1. PushingInv'
    BY DEF PushingInv, BeforeBody
  <1>2. NextPush' = NextPush /\ BodyPushed' = BodyPushed /\ NoChunk' = NoChunk
        /\ Handling' = Handling
    BY DEF NextPush, BodyPushed, NoChunk, Handling, SameRequest, BeforeBody
  <1>3. RequestIdsInv'
    BY <1>2 DEF PairingInv, RequestIdsInv, SameRequest
  <1>4. BodyOrderInv'
    BY <1>2 DEF PairingInv, BodyOrderInv, SameRequest
  <1>5. BodyEndInv'
    BY <1>2 DEF PairingInv, BodyEndInv, Expecting, EndQueued, SameRequest, BeforeBody
  <1> QED
    BY <1>1, <1>3, <1>4, <1>5 DEF PairingInv

LEMMA PairingReceive ==
    ASSUME TypeOK, PairingInv, ReceiveFails \/ ReceiveEnds \/ ReceivePacket
    PROVE  PairingInv'
  <1>1. CASE ReceiveFails \/ ReceiveEnds
    BY <1>1, PairingShutdown DEF ReceiveFails, ReceiveEnds
  <1>2. CASE ReceivePacket
    <2>1. /\ SameRequest /\ rx'.bodyBuffers = rx.bodyBuffers
          /\ recv = "read" /\ UNCHANGED <<reply, tx, pushing>>
      <3>1. rx \in ReceiveData
        BY DEF TypeOK, ReceiveTypes
      <3> QED
        BY <1>2, <3>1 DEF ReceivePacket, SameRequest, ReceiveData
    <2>2. CASE Shutdown /\ recv' = "done"
      BY <2>1, <2>2, PairingShutdown DEF SameRequest
    <2>3. CASE recv' = "parse" /\ UNCHANGED <<state, queueVars>>
      <3>1. ControlInv'
        BY <2>1, <2>3 DEF PairingInv, ControlInv, SameRequest
      <3> QED
        BY <2>1, <2>3, <3>1, PairingParsing DEF BeforeBody
    <2> QED
      BY <1>2, <2>2, <2>3 DEF ReceivePacket
  <1> QED
    BY <1>1, <1>2

(* A callback the parser refuses changes neither the request nor its body. *)
LEMMA PairingRefuse ==
    ASSUME PairingInv, NEW errno, NEW size, Refuse(errno, size)
    PROVE  PairingInv'
  BY PairingUnchanged DEF Refuse

LEMMA PairingAccept ==
    ASSUME TypeOK, PairingInv, NEW next, Accept(next), Parsing, SameRequest,
           state \notin {"Closing", "Closed", "ReceiveRequestMessageComplete"},
           next \notin {"Initial", "Closing", "Closed"},
           \/ /\ rx'.bodyBuffers = rx.bodyBuffers /\ next # "ReceiveRequestMessageComplete"
              /\ state \notin {"ReceiveRequestBody"}
           \/ next = "ReceiveRequestBody"
           \/ /\ next = "ReceiveRequestMessageComplete"
              /\ rx'.requestEnqueued => rx'.bodyBuffers # <<>>
    PROVE  PairingInv'
  <1>1. recv = "parse" /\ recv' = "parse" /\ state' = next
        /\ UNCHANGED <<aborted, requestQueue, requestBodyQueue, reply, tx>>
    BY DEF Accept, Parsing
  <1>2. ControlInv'
    BY <1>1 DEF PairingInv, ControlInv, SameRequest
  <1> QED
    BY <1>1, <1>2, PairingParsing DEF BeforeBody

LEMMA PairingCallback ==
    ASSUME TypeOK, PairingInv,
           \/ ParserRejects \/ on_message_begin \/ on_url \/ on_header_field \/ on_header_value
           \/ on_headers_complete \/ on_body \/ on_message_complete
    PROVE  PairingInv'
  <1>r. rx \in ReceiveData
    BY DEF TypeOK, ReceiveTypes
  <1>1. CASE ParserRejects
    BY <1>1, PairingRefuse DEF ParserRejects
  <1>2. CASE on_message_begin
    <2>1. CASE state = "Started"
      BY <1>2, <2>1, PairingAccept DEF on_message_begin, Fires, SameRequest
    <2>2. CASE state # "Started"
      BY <1>2, <2>2, PairingRefuse DEF on_message_begin
    <2> QED
      BY <2>1, <2>2
  <1>3. CASE on_url
    <2>1. CASE state \in {"ReceiveRequestMessageBegin", "ReceiveRequestUrl"}
      <3>1. SameRequest /\ rx'.bodyBuffers = rx.bodyBuffers
        BY <1>3, <1>r, <2>1 DEF on_url, SameRequest, ReceiveData
      <3> QED
        BY <1>3, <2>1, <3>1, PairingAccept DEF on_url, Fires
    <2>2. CASE state \notin {"ReceiveRequestMessageBegin", "ReceiveRequestUrl"}
      BY <1>3, <2>2, PairingRefuse DEF on_url, RefuseData
    <2> QED
      BY <2>1, <2>2
  <1>4. CASE on_header_field
    <2>1. CASE state \in {"ReceiveRequestHeaderValue", "ReceiveRequestUrl", "ReceiveRequestHeaderField"}
      <3>1. SameRequest /\ rx'.bodyBuffers = rx.bodyBuffers
        BY <1>4, <1>r, <2>1 DEF on_header_field, SameRequest, ReceiveData
      <3> QED
        BY <1>4, <2>1, <3>1, PairingAccept DEF on_header_field, Fires
    <2>2. CASE state \notin {"ReceiveRequestHeaderValue", "ReceiveRequestUrl", "ReceiveRequestHeaderField"}
      BY <1>4, <2>2, PairingRefuse DEF on_header_field, RefuseData
    <2> QED
      BY <2>1, <2>2
  <1>5. CASE on_header_value
    <2>1. CASE state \in {"ReceiveRequestHeaderField", "ReceiveRequestHeaderValue"}
      <3>1. SameRequest /\ rx'.bodyBuffers = rx.bodyBuffers
        BY <1>5, <1>r, <2>1 DEF on_header_value, SameRequest, ReceiveData
      <3> QED
        BY <1>5, <2>1, <3>1, PairingAccept DEF on_header_value, Fires
    <2>2. CASE state \notin {"ReceiveRequestHeaderField", "ReceiveRequestHeaderValue"}
      BY <1>5, <2>2, PairingRefuse DEF on_header_value, RefuseData
    <2> QED
      BY <2>1, <2>2
  <1>6. CASE on_headers_complete
    <2>1. CASE state \in {"ReceiveRequestHeaderValue", "ReceiveRequestUrl"}
      BY <1>6, <2>1, PairingAccept DEF on_headers_complete, Fires, SameRequest
    <2>2. CASE state \notin {"ReceiveRequestHeaderValue", "ReceiveRequestUrl"}
      BY <1>6, <2>2, PairingRefuse DEF on_headers_complete
    <2> QED
      BY <2>1, <2>2
  <1>7. CASE on_body
    <2>1. CASE state \in {"ReceiveRequestHeadersComplete", "ReceiveRequestBody"}
      <3>1. SameRequest
        BY <1>7, <1>r, <2>1 DEF on_body, SameRequest, ReceiveData
      <3> QED
        BY <1>7, <2>1, <3>1, PairingAccept DEF on_body, Fires
    <2>2. CASE state \notin {"ReceiveRequestHeadersComplete", "ReceiveRequestBody"}
      BY <1>7, <2>2, PairingRefuse DEF on_body, RefuseData
    <2> QED
      BY <2>1, <2>2
  <1>8. CASE on_message_complete
    <2>1. CASE state \in {"ReceiveRequestHeadersComplete", "ReceiveRequestBody"}
      <3>1. SameRequest /\ rx'.bodyBuffers = BodyBuffersAtEnd
        BY <1>8, <1>r, <2>1 DEF on_message_complete, SameRequest, ReceiveData
      <3>2. rx.requestEnqueued => BodyBuffersAtEnd # <<>>
        <4>1. <<"">> # <<>>
          OBVIOUS
        <4> QED
          BY <4>1 DEF BodyBuffersAtEnd
      <3> QED
        BY <1>8, <2>1, <3>1, <3>2, PairingAccept DEF on_message_complete, Fires, SameRequest
    <2>2. CASE state \notin {"ReceiveRequestHeadersComplete", "ReceiveRequestBody"}
      BY <1>8, <2>2, PairingRefuse DEF on_message_complete
    <2> QED
      BY <2>1, <2>2
  <1> QED
    BY <1>1, <1>2, <1>3, <1>4, <1>5, <1>6, <1>7, <1>8

LEMMA PairingParseReturns == ASSUME PairingInv, ParseReturns PROVE PairingInv'
  <1>1. CASE Shutdown /\ recv' = "done"
    BY <1>1, PairingShutdown DEF ParseReturns
  <1>2. CASE /\ recv' = IF rx.bodyBuffers = <<>> THEN "enqueue" ELSE "firstBody"
             /\ UNCHANGED <<state, queueVars>>
    <2>1. recv = "parse" /\ UNCHANGED <<rx, reply, tx>>
      BY DEF ParseReturns
    <2>2. ControlInv'
      BY <1>2, <2>1 DEF PairingInv, ControlInv
    <2> QED
      BY <1>2, <2>1, <2>2, PairingParsing DEF SameRequest, BeforeBody
  <1> QED
    BY <1>1, <1>2 DEF ParseReturns

-----------------------------------------------------------------------------
(* The receive loop queues chunks *)

(* What Append does to an entry's position *)
LEMMA AppendEntries ==
    ASSUME NEW S, NEW s \in Seq(S), NEW e \in S
    PROVE  /\ Append(s, e) \in Seq(S)
           /\ Len(s) \in Nat /\ Len(Append(s, e)) = Len(s) + 1
           /\ DOMAIN s = 1 .. Len(s) /\ DOMAIN Append(s, e) = 1 .. Len(s) + 1
           /\ \A i \in 1 .. Len(s) : Append(s, e)[i] = s[i]
           /\ Append(s, e)[Len(s) + 1] = e
  OBVIOUS

LEMMA ConcatOne ==
    ASSUME NEW S, NEW s \in Seq(S), NEW p \in Seq(S), Len(p) = 1
    PROVE  p[1] \in S /\ s \o p = Append(s, p[1])
  <1>1. p[1] \in S
    OBVIOUS
  <1>2. PICK r \in Seq(S), e \in S : p = Append(r, e)
    <2>1. p # <<>>
      OBVIOUS
    <2> QED
      BY <2>1, SequenceEmptyOrAppend
  <1>3. r = <<>>
    <2>1. Len(r) = 0
      BY <1>2, AppendProperties
    <2> QED
      BY <2>1
  <1>4. p = <<p[1]>>
    BY <1>2, <1>3
  <1>5. Append(s, p[1]) = s \o <<p[1]>>
    BY <1>1, AppendIsConcat
  <1> QED
    BY <1>1, <1>4, <1>5

LEMMA QueueEntryTypes ==
    ASSUME TypeOK
    PROVE  /\ \A j \in DOMAIN requestBodyQueue : requestBodyQueue[j].id \in Nat
           /\ \A i \in DOMAIN requestQueue : requestQueue[i].id \in Nat
           /\ rx.requestId \in Nat /\ tx.requestId \in Nat
           /\ DOMAIN requestBodyQueue = 1 .. Len(requestBodyQueue) /\ Len(requestBodyQueue) \in Nat
           /\ DOMAIN requestQueue = 1 .. Len(requestQueue) /\ Len(requestQueue) \in Nat
  <1>1. requestBodyQueue \in Seq(BodyEntry) /\ requestQueue \in Seq(RequestEntry)
    BY DEF TypeOK, QueueTypes
  <1>2. \A j \in DOMAIN requestBodyQueue : requestBodyQueue[j] \in BodyEntry
    BY <1>1
  <1>3. \A i \in DOMAIN requestQueue : requestQueue[i] \in RequestEntry
    BY <1>1
  <1>4. rx.requestId \in Nat /\ tx.requestId \in Nat
    BY DEF TypeOK, ReceiveTypes, ReplyTypes, ReceiveData, ReplyData
  <1> QED
    BY <1>1, <1>2, <1>3, <1>4 DEF BodyEntry, RequestEntry

(* A chunk of the receive loop's request goes to the end of the queue. *)
LEMMA PairingPushChunk ==
    ASSUME TypeOK, PairingInv, ControlInv', ~aborted, ~BodyPushed,
           NEW e \in BodyEntry, e.id = rx.requestId, e.isEnd <=> BodyPushed',
           requestBodyQueue' = Append(requestBodyQueue, e),
           recv \in {"firstBody", "body", "pushBody"}, recv' = "body",
           rx'.requestId = rx.requestId, rx'.requestEnqueued = rx.requestEnqueued,
           UNCHANGED <<aborted, requestQueue, reply, tx>>
    PROVE  PairingInv'
  <1>1. NextPush' = NextPush /\ Handling' = Handling /\ ~NoChunk'
    BY DEF NextPush, Handling, NoChunk
  <1>2. /\ Len(requestBodyQueue) \in Nat
        /\ DOMAIN requestBodyQueue = 1 .. Len(requestBodyQueue)
        /\ DOMAIN requestBodyQueue' = 1 .. Len(requestBodyQueue) + 1
        /\ \A j \in DOMAIN requestBodyQueue : requestBodyQueue'[j] = requestBodyQueue[j]
        /\ requestBodyQueue'[Len(requestBodyQueue) + 1] = e
    BY AppendEntries DEF TypeOK, QueueTypes
  <1>3. PushingInv'
    BY DEF PushingInv
  <1>4. RequestIdsInv'
    BY <1>1 DEF PairingInv, RequestIdsInv
  <1>5. /\ reply = "pop" => e.id + Len(requestQueue) >= NextPush
        /\ Handling => e.id >= tx.requestId /\ (tx.requestBodyConsumed => e.id > tx.requestId)
    <2>1. NextPush \in {rx.requestId, rx.requestId + 1}
          /\ (NextPush = rx.requestId + 1 => rx.requestEnqueued)
      BY QueueEntryTypes DEF NextPush
    <2>2. requestQueue = <<>> \/ Len(requestQueue) > 0
      BY QueueEntryTypes DEF TypeOK, QueueTypes
    <2>3. CASE reply = "pop"
      <3>1. rx.requestEnqueued => Len(requestQueue) > 0
        BY <2>2, <2>3 DEF PairingInv, BodyEndInv
      <3> QED
        BY <2>1, <2>3, <3>1, QueueEntryTypes DEF Handling
    <2>4. CASE Handling
      <3>1. tx.requestBodyConsumed /\ rx.requestEnqueued => Len(requestQueue) > 0
        BY <2>2, <2>4 DEF PairingInv, BodyEndInv
      <3> QED
        BY <2>1, <2>4, <3>1, QueueEntryTypes, HandledIsReceived DEF Handling
    <2> QED
      BY <2>3, <2>4
  <1>6. BodyOrderInv'
    <2>1. \A i, j \in DOMAIN requestBodyQueue' : i < j =>
            /\ requestBodyQueue'[i].id <= requestBodyQueue'[j].id
            /\ requestBodyQueue'[i].isEnd => requestBodyQueue'[i].id < requestBodyQueue'[j].id
      <3> SUFFICES ASSUME NEW i \in DOMAIN requestBodyQueue', NEW j \in DOMAIN requestBodyQueue', i < j
                   PROVE  /\ requestBodyQueue'[i].id <= requestBodyQueue'[j].id
                          /\ requestBodyQueue'[i].isEnd =>
                               requestBodyQueue'[i].id < requestBodyQueue'[j].id
        OBVIOUS
      <3>1. i \in DOMAIN requestBodyQueue /\ requestBodyQueue'[i] = requestBodyQueue[i]
        BY <1>2
      <3>2. CASE j \in DOMAIN requestBodyQueue
        BY <1>2, <3>1, <3>2 DEF PairingInv, BodyOrderInv
      <3>3. CASE j = Len(requestBodyQueue) + 1
        <4>1. /\ requestBodyQueue[i].id <= rx.requestId
              /\ requestBodyQueue[i].isEnd => requestBodyQueue[i].id # rx.requestId
          BY <3>1 DEF PairingInv, BodyOrderInv
        <4> QED
          BY <1>2, <3>1, <3>3, <4>1, QueueEntryTypes
      <3> QED
        BY <1>2, <3>2, <3>3
    <2>2. ASSUME NEW j \in DOMAIN requestBodyQueue'
          PROVE  /\ requestBodyQueue'[j].id <= rx'.requestId
                 /\ requestBodyQueue'[j].isEnd /\ requestBodyQueue'[j].id = rx'.requestId => BodyPushed'
                 /\ \A i \in DOMAIN requestQueue' :
                      requestBodyQueue'[j].id = requestQueue'[i].id => requestQueue'[i].hasBody
                 /\ reply' = "pop" => requestBodyQueue'[j].id + Len(requestQueue') >= NextPush'
                 /\ Handling' => /\ requestBodyQueue'[j].id >= tx'.requestId
                                 /\ tx'.requestBodyConsumed => requestBodyQueue'[j].id > tx'.requestId
      <3>1. CASE j \in DOMAIN requestBodyQueue
        BY <1>1, <1>2, <3>1 DEF PairingInv, BodyOrderInv
      <3>2. CASE j = Len(requestBodyQueue) + 1
        BY <1>1, <1>2, <1>5, <3>2, QueueEntryTypes DEF PairingInv, RequestIdsInv
      <3> QED
        BY <1>2, <3>1, <3>2
    <2> QED
      BY <1>1, <2>1, <2>2 DEF BodyOrderInv
  <1>7. BodyEndInv'
    <2>1. \A id : EndQueued(id) => EndQueued(id)'
      BY <1>2 DEF EndQueued
    <2>2. BodyPushed' => EndQueued(rx.requestId)'
      BY <1>2 DEF EndQueued
    <2>3. \A id : Expecting(id)' => Expecting(id)
      BY <1>1 DEF Expecting
    <2> QED
      BY <1>1, <2>1, <2>2, <2>3 DEF PairingInv, BodyEndInv
  <1> QED
    BY <1>3, <1>4, <1>6, <1>7 DEF PairingInv

LEMMA PairingEnqueueBody == ASSUME TypeOK, PairingInv, EnqueueBodyBuffer \/ PushBody PROVE PairingInv'
  <1>r. rx \in ReceiveData /\ rx.bodyBuffers \in Seq(Data)
    BY DEF TypeOK, ReceiveTypes, ReceiveData, Pieces
  <1>l. Len(rx.bodyBuffers) \in Nat /\ rx.bodyBufferEnqueueIndex \in Nat
        /\ (rx.bodyBuffers # <<>> => Len(rx.bodyBuffers) > 0)
    BY <1>r DEF ReceiveData
  <1>1. CASE EnqueueBodyBuffer
    <2> DEFINE index == rx.bodyBufferEnqueueIndex + 1
               entry == [buffer |-> rx.bodyBuffers[index], id |-> rx.requestId,
                         isEnd |-> IsEnd(index)]
    <2>1. recv \in {"firstBody", "body"} /\ UNCHANGED <<aborted, requestQueue, reply, tx, state>>
      BY <1>1 DEF EnqueueBodyBuffer
    <2>2. recv = "firstBody" => rx.bodyBufferEnqueueIndex = 0 /\ index <= Len(rx.bodyBuffers)
      BY <1>l DEF PairingInv, ControlInv
    <2>3. CASE index > Len(rx.bodyBuffers)
      <3>1. /\ rx' = [rx EXCEPT !.bodyBuffers = <<>>, !.bodyBufferEnqueueIndex = 0]
            /\ recv' = "enqueueBody" /\ recv = "body" /\ UNCHANGED requestBodyQueue
        BY <1>1, <1>l, <2>1, <2>2, <2>3 DEF EnqueueBodyBuffer
      <3>2. /\ rx'.requestId = rx.requestId /\ rx'.requestEnqueued = rx.requestEnqueued
            /\ rx'.bodyBuffers = <<>> /\ rx'.bodyBufferEnqueueIndex = 0
        BY <1>r, <3>1 DEF ReceiveData
      <3>3. rx.bodyBufferEnqueueIndex = Len(rx.bodyBuffers) /\ rx.bodyBuffers # <<>>
        BY <1>r, <1>l, <2>3, <3>1 DEF PairingInv, ControlInv
      <3>4. ControlInv'
        BY <2>1, <3>1, <3>2, <3>3 DEF PairingInv, ControlInv
      <3>5. NextPush' = NextPush /\ BodyPushed' = BodyPushed /\ Handling' = Handling /\ ~NoChunk'
        BY <2>1, <3>1, <3>2, <3>3 DEF NextPush, BodyPushed, NoChunk, Handling
      <3>6. PushingInv' /\ RequestIdsInv' /\ BodyOrderInv'
        BY <2>1, <3>1, <3>2, <3>5 DEF PairingInv, PushingInv, RequestIdsInv, BodyOrderInv
      <3>7. BodyEndInv'
        BY <2>1, <3>1, <3>2, <3>5 DEF PairingInv, BodyEndInv, Expecting, EndQueued
      <3> QED
        BY <3>4, <3>6, <3>7 DEF PairingInv
    <2>4. CASE index <= Len(rx.bodyBuffers)
      <3>1. rx' = [rx EXCEPT !.bodyBufferEnqueueIndex = index]
        BY <1>1, <1>l, <2>4 DEF EnqueueBodyBuffer
      <3>2. /\ rx'.requestId = rx.requestId /\ rx'.requestEnqueued = rx.requestEnqueued
            /\ rx'.bodyBuffers = rx.bodyBuffers /\ rx'.bodyBufferEnqueueIndex = index
        BY <1>r, <3>1 DEF ReceiveData
      <3>3. ~BodyPushed
        BY <1>l, <2>1, <2>2, <2>4 DEF BodyPushed
      <3>4. rx.bodyBuffers # <<>> /\ index \in 1 .. Len(rx.bodyBuffers)
        BY <1>l, <2>4
      <3>5. CASE aborted
        <4>1. recv' = "done" /\ requestBodyQueue' = requestBodyQueue
          BY <1>1, <1>l, <2>4, <3>5 DEF EnqueueBodyBuffer
        <4>2. ControlInv' /\ PushingInv'
          BY <2>1, <3>2, <3>4, <3>5, <4>1 DEF PairingInv, ControlInv, PushingInv
        <4> QED
          BY <2>1, <3>5, <4>1, <4>2, PairingAborted DEF PairingInv, ControlInv
      <3>6. CASE ~aborted /\ ~BodyQueueFull
        <4>1. recv' = "body" /\ requestBodyQueue' = Append(requestBodyQueue, entry)
          BY <1>1, <1>l, <2>4, <3>6 DEF EnqueueBodyBuffer
        <4>2. entry \in BodyEntry /\ entry.id = rx.requestId /\ entry.isEnd = IsEnd(index)
          BY <1>r, <3>4 DEF BodyEntry, IsEnd, ReceiveData
        <4>3. BodyPushed' <=> IsEnd(index)
          BY <2>1, <3>2, <4>1 DEF BodyPushed, IsEnd
        <4>4. ControlInv'
          BY <2>1, <3>2, <3>4, <3>6, <4>1 DEF PairingInv, ControlInv
        <4> HIDE DEF entry
        <4> QED
          BY <2>1, <3>2, <3>3, <3>6, <4>1, <4>2, <4>3, <4>4, PairingPushChunk
      <3>7. CASE ~aborted /\ BodyQueueFull
        <4>1. recv' = "pushBody" /\ requestBodyQueue' = requestBodyQueue /\ pushing' = <<entry>>
          BY <1>1, <1>l, <2>4, <3>7 DEF EnqueueBodyBuffer
        <4>2. ControlInv'
          BY <2>1, <3>2, <3>4, <3>7, <4>1 DEF PairingInv, ControlInv
        <4>3. PushingInv'
          <5>1. pushing'[1] = entry
            BY <4>1
          <5> QED
            BY <2>1, <3>2, <4>1, <5>1 DEF PushingInv, IsEnd
        <4>4. NextPush' = NextPush /\ ~BodyPushed' /\ Handling' = Handling /\ ~NoChunk'
          BY <2>1, <3>2, <4>1 DEF NextPush, BodyPushed, NoChunk, Handling
        <4>5. RequestIdsInv'
          BY <2>1, <3>2, <4>4 DEF PairingInv, RequestIdsInv
        <4>6. BodyOrderInv'
          BY <2>1, <3>2, <3>3, <4>1, <4>4 DEF PairingInv, BodyOrderInv
        <4>7. BodyEndInv'
          BY <2>1, <3>2, <3>3, <4>1, <4>4 DEF PairingInv, BodyEndInv, Expecting, EndQueued
        <4> QED
          BY <4>2, <4>3, <4>5, <4>6, <4>7 DEF PairingInv
      <3> QED
        BY <3>5, <3>6, <3>7
    <2> QED
      BY <1>l, <2>3, <2>4
  <1>2. CASE PushBody
    <2>1. recv = "pushBody" /\ UNCHANGED <<aborted, requestQueue, reply, tx, state, rx>>
      BY <1>2 DEF PushBody
    <2>2. CASE aborted
      <3>1. recv' = "done" /\ requestBodyQueue' = requestBodyQueue
        BY <1>2, <2>2 DEF PushBody
      <3>2. ControlInv' /\ PushingInv'
        BY <2>1, <2>2, <3>1 DEF PairingInv, ControlInv, PushingInv
      <3> QED
        BY <2>1, <2>2, <3>1, <3>2, PairingAborted DEF PairingInv, ControlInv
    <2>3. CASE ~aborted
      <3>1. recv' = "body" /\ requestBodyQueue' = requestBodyQueue \o pushing
        BY <1>2, <2>3 DEF PushBody
      <3>2. /\ pushing \in Seq(BodyEntry) /\ Len(pushing) = 1 /\ requestBodyQueue \in Seq(BodyEntry)
        BY <2>1 DEF TypeOK, QueueTypes
      <3>3. pushing[1] \in BodyEntry /\ requestBodyQueue' = Append(requestBodyQueue, pushing[1])
        BY <3>1, <3>2, ConcatOne
      <3>4. ~BodyPushed
        BY <2>1 DEF BodyPushed
      <3>5. pushing[1].id = rx.requestId /\ (pushing[1].isEnd <=> BodyPushed')
        BY <2>1, <2>3, <3>1 DEF PairingInv, PushingInv, BodyPushed
      <3>6. ControlInv'
        BY <2>1, <2>3, <3>1 DEF PairingInv, ControlInv
      <3> QED
        BY <2>1, <2>3, <3>1, <3>3, <3>4, <3>5, <3>6, PairingPushChunk
    <2> QED
      BY <2>2, <2>3
  <1> QED
    BY <1>1, <1>2

-----------------------------------------------------------------------------
(* The receive loop queues requests and goes on reading *)

(* Going on with the next packet of a request that is not complete keeps   *)
(* receiveLoopData_; going on after a complete one starts it afresh.       *)
LEMMA ContinueCases ==
    ASSUME NEW data, NEW request, ContinueReceiving(data, request), state # "Closing"
    PROVE  /\ recv' = "read"
           /\ state # "ReceiveRequestMessageComplete" => rx' = data /\ state' = state
           /\ state = "ReceiveRequestMessageComplete" =>
                /\ state' = "Started" /\ rx'.requestId = data.requestId + 1
                /\ ~rx'.requestEnqueued /\ rx'.bodyBuffers = <<>>
                /\ rx'.bodyBufferEnqueueIndex = 0
  BY DEF ContinueReceiving, FreshReceiveData

(* The request is queued already, or its headers are not complete. *)
LEMMA PairingContinue ==
    ASSUME TypeOK, PairingInv, ~aborted, recv \in {"enqueue", "enqueueBody"},
           ContinueReceiving(rx, newRequest),
           state = "ReceiveRequestMessageComplete" => rx.requestEnqueued,
           recv = "enqueueBody" => rx.requestEnqueued,
           UNCHANGED <<aborted, requestQueue, requestBodyQueue, reply, tx, pushing>>
    PROVE  PairingInv'
  <1>0. state # "Closing"
    BY DEF PairingInv, ControlInv
  <1>1. CASE state # "ReceiveRequestMessageComplete"
    <2>1. recv' = "read" /\ rx' = rx /\ state' = state
      BY <1>0, <1>1, ContinueCases
    <2>2. ControlInv'
      BY <1>1, <2>1 DEF PairingInv, ControlInv
    <2>3. NextPush' = NextPush /\ ~BodyPushed' /\ ~BodyPushed /\ Handling' = Handling
      BY <1>1, <2>1 DEF NextPush, BodyPushed, Handling
    <2>4. NoChunk' => NoChunk
      BY <2>1 DEF NoChunk
    <2>5. PushingInv' /\ RequestIdsInv'
      BY <2>1, <2>3 DEF PairingInv, PushingInv, RequestIdsInv
    <2>6. BodyOrderInv'
      BY <2>1, <2>3, <2>4 DEF PairingInv, BodyOrderInv
    <2>7. BodyEndInv'
      BY <2>1, <2>3 DEF PairingInv, BodyEndInv, Expecting, EndQueued
    <2> QED
      BY <2>2, <2>5, <2>6, <2>7 DEF PairingInv
  <1>2. CASE state = "ReceiveRequestMessageComplete"
    <2>1. /\ recv' = "read" /\ state' = "Started" /\ rx'.requestId = rx.requestId + 1
          /\ ~rx'.requestEnqueued /\ rx'.bodyBuffers = <<>> /\ rx'.bodyBufferEnqueueIndex = 0
      BY <1>0, <1>2, ContinueCases
    <2>2. recv = "enqueueBody"
      BY <1>2 DEF PairingInv, ControlInv
    <2>3. ControlInv'
      BY <1>2, <2>1 DEF PairingInv, ControlInv
    <2>4. NextPush' = NextPush /\ NextPush = rx.requestId + 1 /\ BodyPushed /\ ~BodyPushed'
          /\ Handling' = Handling
      BY <1>2, <2>1, <2>2 DEF NextPush, BodyPushed, Handling
    <2>5. \A i \in DOMAIN requestQueue : requestQueue[i].id <= rx.requestId
      BY <2>4, QueueEntryTypes DEF PairingInv, RequestIdsInv
    <2>6. PushingInv' /\ RequestIdsInv'
      BY <2>1, <2>4, <2>5, QueueEntryTypes DEF PairingInv, PushingInv, RequestIdsInv
    <2>7. BodyOrderInv'
      <3>1. \A j \in DOMAIN requestBodyQueue : requestBodyQueue[j].id < rx.requestId + 1
        BY QueueEntryTypes DEF PairingInv, BodyOrderInv
      <3> QED
        BY <2>1, <2>4, <3>1, QueueEntryTypes DEF PairingInv, BodyOrderInv
    <2>8. BodyEndInv'
      <3>1. \A id \in 0 .. rx.requestId : Expecting(id)' => Expecting(id)
        BY <2>1, <2>4, QueueEntryTypes DEF Expecting
      <3>2. \A id \in 0 .. rx.requestId : Expecting(id)' => EndQueued(id)'
        BY <2>4, <3>1 DEF PairingInv, BodyEndInv, EndQueued
      <3> QED
        BY <2>1, <2>4, <3>2, QueueEntryTypes DEF BodyEndInv
    <2> QED
      BY <2>3, <2>6, <2>7, <2>8 DEF PairingInv
  <1> QED
    BY <1>1, <1>2

(* The receive loop's request enters the queue, and the loop goes on. *)
LEMMA PairingPushRequest ==
    ASSUME TypeOK, PairingInv, ~aborted, NEW e \in RequestEntry,
           recv \in {"enqueue", "enqueueBody", "pushRequest"},
           NEW data, NEW request, ContinueReceiving(data, request),
           data.requestId = rx.requestId, data.requestEnqueued,
           data.bodyBuffers = rx.bodyBuffers,
           data.bodyBufferEnqueueIndex = rx.bodyBufferEnqueueIndex,
           NextPush = rx.requestId, e.id = rx.requestId,
           state # "ReceiveRequestMessageComplete" => e.hasBody,
           e.hasBody => Expecting(rx.requestId),
           e.hasBody /\ state = "ReceiveRequestMessageComplete" => BodyPushed,
           ~e.hasBody => NoChunk,
           requestQueue' = Append(requestQueue, e),
           UNCHANGED <<aborted, requestBodyQueue, reply, tx>>
    PROVE  PairingInv'
  <1>0. state # "Closing"
    BY DEF PairingInv, ControlInv
  <1>1. /\ DOMAIN requestQueue' = 1 .. Len(requestQueue) + 1
        /\ Len(requestQueue') = Len(requestQueue) + 1
        /\ \A i \in DOMAIN requestQueue : requestQueue'[i] = requestQueue[i]
        /\ requestQueue'[Len(requestQueue) + 1] = e
    BY AppendEntries DEF TypeOK, QueueTypes
  <1>2. /\ recv' = "read" /\ state' # "ReceiveRequestMessageComplete"
        /\ rx'.bodyBuffers = <<>> /\ rx'.bodyBufferEnqueueIndex = 0
        /\ \/ /\ state # "ReceiveRequestMessageComplete" /\ rx'.requestId = rx.requestId
              /\ rx'.requestEnqueued /\ state' = state
           \/ /\ state = "ReceiveRequestMessageComplete" /\ rx'.requestId = rx.requestId + 1
              /\ ~rx'.requestEnqueued /\ state' = "Started"
    BY <1>0, ContinueCases DEF PairingInv, ControlInv
  <1>3. NextPush' = rx.requestId + 1 /\ ~BodyPushed' /\ Handling' = Handling
    BY <1>2 DEF NextPush, BodyPushed, Handling
  <1>4. ControlInv'
    BY <1>2 DEF PairingInv, ControlInv
  <1>5. PushingInv'
    BY <1>2 DEF PushingInv
  <1>6. RequestIdsInv'
    <2>1. \A i \in DOMAIN requestQueue' :
            requestQueue'[i].id + Len(requestQueue') + 1 = NextPush' + i
      <3>1. \A i \in DOMAIN requestQueue : requestQueue[i].id + Len(requestQueue) + 1 = rx.requestId + i
        BY DEF PairingInv, RequestIdsInv
      <3> SUFFICES ASSUME NEW i \in DOMAIN requestQueue'
                   PROVE  requestQueue'[i].id + Len(requestQueue') + 1 = NextPush' + i
        OBVIOUS
      <3>2. CASE i \in DOMAIN requestQueue
        <4> DEFINE a == requestQueue[i].id
                   b == Len(requestQueue)
                   c == rx.requestId
                   d == i
        <4>1. requestQueue'[i].id = a /\ Len(requestQueue') = b + 1 /\ NextPush' = c + 1
          BY <1>1, <1>3, <3>2
        <4>2. a + b + 1 = c + d
          BY <3>1, <3>2
        <4>3. a \in Nat /\ b \in Nat /\ c \in Nat /\ d \in Nat
          BY <3>2, QueueEntryTypes
        <4> HIDE DEF a, b, c, d
        <4>4. a + (b + 1) + 1 = (c + 1) + d
          BY <4>2, <4>3
        <4> QED
          BY <4>1, <4>4 DEF d
      <3>3. CASE i = Len(requestQueue) + 1
        BY <1>1, <1>3, <3>3, QueueEntryTypes
      <3> QED
        BY <1>1, <3>2, <3>3, QueueEntryTypes
    <2>2. Handling' => tx'.requestId + 1 + Len(requestQueue') = NextPush'
      <3>1. Handling => tx.requestId + 1 + Len(requestQueue) = rx.requestId
        BY DEF PairingInv, RequestIdsInv
      <3>2. tx'.requestId = tx.requestId
        OBVIOUS
      <3> DEFINE a == tx.requestId
                 b == Len(requestQueue)
                 c == rx.requestId
      <3>3. (Handling => a + 1 + b = c) /\ a \in Nat /\ b \in Nat /\ c \in Nat
        BY <3>1, QueueEntryTypes
      <3>4. tx'.requestId = a /\ Len(requestQueue') = b + 1 /\ NextPush' = c + 1
        BY <1>1, <1>3, <3>2
      <3> HIDE DEF a, b, c
      <3>5. Handling => a + 1 + (b + 1) = c + 1
        BY <3>3
      <3> QED
        BY <1>3, <3>4, <3>5
    <2>3. \A i \in DOMAIN requestQueue' :
            requestQueue'[i].id = rx'.requestId => requestQueue'[i].hasBody
      <3>1. \A i \in DOMAIN requestQueue : requestQueue[i].id < rx.requestId
        BY QueueEntryTypes DEF PairingInv, RequestIdsInv
      <3> QED
        BY <1>1, <1>2, <3>1, QueueEntryTypes
    <2> QED
      BY <2>1, <2>2, <2>3 DEF RequestIdsInv
  <1>7. BodyOrderInv'
    <2>1. ASSUME NEW j \in DOMAIN requestBodyQueue'
          PROVE  /\ requestBodyQueue'[j].id <= rx'.requestId
                 /\ requestBodyQueue'[j].id = rx'.requestId => ~NoChunk'
                 /\ requestBodyQueue'[j].isEnd => requestBodyQueue'[j].id # rx'.requestId
                 /\ \A i \in DOMAIN requestQueue' :
                      requestBodyQueue'[j].id = requestQueue'[i].id => requestQueue'[i].hasBody
                 /\ reply' = "pop" => requestBodyQueue'[j].id + Len(requestQueue') >= NextPush'
      <3>1. requestBodyQueue[j].id <= rx.requestId /\ requestBodyQueue[j].id \in Nat
        BY QueueEntryTypes DEF PairingInv, BodyOrderInv
      <3>2. rx'.requestId = rx.requestId => ~NoChunk'
        BY <1>2, QueueEntryTypes DEF NoChunk
      <3>3. requestBodyQueue[j].id = rx.requestId => e.hasBody
        BY DEF PairingInv, BodyOrderInv
      <3>4. requestBodyQueue[j].isEnd /\ requestBodyQueue[j].id = rx.requestId => BodyPushed
        BY DEF PairingInv, BodyOrderInv
      <3>5. \A i \in DOMAIN requestQueue :
              requestBodyQueue[j].id = requestQueue[i].id => requestQueue[i].hasBody
        BY DEF PairingInv, BodyOrderInv
      <3>6. reply = "pop" => requestBodyQueue[j].id + Len(requestQueue) >= NextPush
        BY DEF PairingInv, BodyOrderInv
      <3>7. BodyPushed => state = "ReceiveRequestMessageComplete"
        BY DEF BodyPushed
      <3> QED
        BY <1>1, <1>2, <1>3, <3>1, <3>2, <3>3, <3>4, <3>5, <3>6, <3>7, QueueEntryTypes
    <2>2. Handling' => \A j \in DOMAIN requestBodyQueue' :
                         /\ requestBodyQueue'[j].id >= tx'.requestId
                         /\ tx'.requestBodyConsumed => requestBodyQueue'[j].id > tx'.requestId
      BY <1>3 DEF PairingInv, BodyOrderInv
    <2>3. \A i, j \in DOMAIN requestBodyQueue' : i < j =>
            /\ requestBodyQueue'[i].id <= requestBodyQueue'[j].id
            /\ requestBodyQueue'[i].isEnd => requestBodyQueue'[i].id < requestBodyQueue'[j].id
      BY DEF PairingInv, BodyOrderInv
    <2> QED
      BY <2>1, <2>2, <2>3 DEF BodyOrderInv
  <1>8. BodyEndInv'
    <2>1. requestQueue' # <<>>
      BY <1>1, QueueEntryTypes
    <2>2. ASSUME NEW id \in 0 .. rx'.requestId, Expecting(id)'
          PROVE  EndQueued(id)' \/ id = rx'.requestId
      <3>1. CASE id # rx'.requestId
        <4>1. id \in 0 .. rx.requestId /\ (id = rx.requestId => state = "ReceiveRequestMessageComplete")
          BY <1>2, <3>1, QueueEntryTypes
        <4>2. Expecting(id) /\ (id = rx.requestId => e.hasBody)
          <5>1. CASE \E i \in DOMAIN requestQueue' :
                       requestQueue'[i].id = id /\ requestQueue'[i].hasBody
            <6>1. PICK i \in DOMAIN requestQueue' :
                       requestQueue'[i].id = id /\ requestQueue'[i].hasBody
              BY <5>1
            <6>2. CASE i \in DOMAIN requestQueue
              <7>1. requestQueue[i].id = id /\ requestQueue[i].hasBody /\ id < rx.requestId
                BY <1>1, <6>1, <6>2, QueueEntryTypes DEF PairingInv, RequestIdsInv
              <7> QED
                BY <6>2, <7>1, QueueEntryTypes DEF Expecting
            <6>3. CASE i = Len(requestQueue) + 1
              BY <1>1, <6>1, <6>3
            <6> QED
              BY <1>1, <6>2, <6>3, QueueEntryTypes
          <5>2. CASE Handling' /\ tx'.requestId = id /\ ~tx'.requestBodyConsumed
            <6>1. Expecting(id) /\ id < rx.requestId
              BY <1>3, <5>2, HandledIsReceived DEF Expecting
            <6> QED
              BY <6>1, QueueEntryTypes
          <5> QED
            BY <2>2, <3>1, <5>1, <5>2 DEF Expecting
        <4>3. EndQueued(id)
          BY <4>1, <4>2 DEF PairingInv, BodyEndInv
        <4> QED
          BY <4>3 DEF EndQueued
      <3> QED
        BY <3>1
    <2> QED
      BY <1>3, <2>1, <2>2 DEF BodyEndInv
  <1> QED
    BY <1>4, <1>5, <1>6, <1>7, <1>8 DEF PairingInv

LEMMA PairingEnqueueRequest ==
    ASSUME TypeOK, PairingInv, EnqueueAndContinue \/ PushRequest PROVE PairingInv'
  <1>r. rx \in ReceiveData /\ newRequest \in Request
    BY DEF TypeOK, ReceiveTypes
  <1>1. CASE EnqueueAndContinue
    <2> DEFINE entry == [request |-> newRequest, id |-> rx.requestId,
                         hasBody |-> (recv = "enqueueBody") \/ state # "ReceiveRequestMessageComplete"]
               queued == [rx EXCEPT !.requestEnqueued = TRUE]
               headersComplete == state \in {"ReceiveRequestHeadersComplete", "ReceiveRequestBody",
                                             "ReceiveRequestMessageComplete"}
    <2>1. /\ recv \in {"enqueue", "enqueueBody"}
          /\ UNCHANGED <<aborted, requestBodyQueue, reply, tx>>
      BY <1>1 DEF EnqueueAndContinue
    <2>2. /\ queued.requestId = rx.requestId /\ queued.requestEnqueued
          /\ queued.bodyBuffers = rx.bodyBuffers
          /\ queued.bodyBufferEnqueueIndex = rx.bodyBufferEnqueueIndex
          /\ entry \in RequestEntry /\ entry.id = rx.requestId
          /\ entry.hasBody <=> recv = "enqueueBody" \/ state # "ReceiveRequestMessageComplete"
      BY <1>r DEF ReceiveData, RequestEntry
    <2>3. recv = "enqueueBody" /\ ~aborted =>
            state \in {"ReceiveRequestBody", "ReceiveRequestMessageComplete"}
      BY DEF PairingInv, ControlInv
    <2>4. CASE aborted
      <3>1. state \in {"Closing", "Closed"}
        BY <2>4 DEF PairingInv, ControlInv
      <3>2. ContinueReceiving(rx, newRequest) /\ UNCHANGED <<requestQueue, pushing>>
        BY <1>1, <3>1 DEF EnqueueAndContinue, EnqueueRequest
      <3>3. /\ recv' \in {"done", "read"} /\ rx' = rx /\ state' = state
            /\ (recv' = "read" => state # "ReceiveRequestMessageComplete")
        BY <3>1, <3>2 DEF ContinueReceiving
      <3>4. ControlInv' /\ PushingInv'
        BY <2>1, <2>4, <3>1, <3>2, <3>3 DEF PairingInv, ControlInv, PushingInv
      <3> QED
        BY <2>1, <2>4, <3>2, <3>4, PairingAborted DEF PairingInv, ControlInv
    <2>5. CASE ~aborted /\ (rx.requestEnqueued \/ ~headersComplete)
      <3>1. ContinueReceiving(rx, newRequest) /\ UNCHANGED <<requestQueue, pushing>>
        BY <1>1, <2>5 DEF EnqueueAndContinue, EnqueueRequest
      <3> QED
        BY <2>1, <2>3, <2>5, <3>1, PairingContinue
    <2>6. CASE ~aborted /\ ~rx.requestEnqueued /\ headersComplete
      <3>1. NextPush = rx.requestId /\ Expecting(rx.requestId)
        BY <2>1, <2>6 DEF NextPush, Expecting
      <3>2. recv = "enqueueBody" /\ state = "ReceiveRequestMessageComplete" => BodyPushed
        BY DEF BodyPushed
      <3>3. CASE Len(requestQueue) < RequestQueueSize
        <4>1. ContinueReceiving(queued, NoRequest) /\ requestQueue' = Append(requestQueue, entry)
          BY <1>1, <2>6, <3>3, QueueEntryTypes, SizesAreNatural DEF EnqueueAndContinue, EnqueueRequest
        <4> HIDE DEF entry, queued
        <4>2. CASE entry.hasBody
          <5>1. CASE recv = "enqueueBody"
            BY <2>1, <2>2, <2>6, <3>1, <3>2, <4>1, <4>2, <5>1, PairingPushRequest DEF NoChunk
          <5>2. CASE recv = "enqueue"
            BY <2>1, <2>2, <2>6, <3>1, <3>2, <4>1, <4>2, <5>2, PairingPushRequest
          <5> QED
            BY <2>1, <5>1, <5>2
        <4>3. CASE ~entry.hasBody
          BY <2>1, <2>2, <2>6, <3>1, <3>2, <4>1, <4>3, PairingPushRequest DEF NoChunk
        <4> QED
          BY <4>2, <4>3
      <3>4. CASE Len(requestQueue) >= RequestQueueSize
        <4>1. /\ pushing' = <<entry>> /\ recv' = "pushRequest" /\ rx' = queued
              /\ UNCHANGED <<requestQueue, state>>
          BY <1>1, <2>6, <3>4, QueueEntryTypes, SizesAreNatural DEF EnqueueAndContinue, EnqueueRequest
        <4>2. pushing'[1] = entry
          BY <4>1
        <4> HIDE DEF entry, queued
        <4>3. NextPush' = NextPush /\ Handling' = Handling /\ (BodyPushed => BodyPushed')
          BY <2>1, <2>2, <2>6, <4>1 DEF NextPush, Handling, BodyPushed
        <4>4. NoChunk' => NoChunk
          BY <2>1, <2>2, <2>6, <4>1, <4>2 DEF NoChunk
        <4>5. ControlInv'
          BY <2>1, <2>2, <2>6, <4>1 DEF PairingInv, ControlInv
        <4>6. PushingInv'
          BY <2>1, <2>2, <2>6, <4>1, <4>2 DEF PushingInv
        <4>7. RequestIdsInv'
          BY <2>1, <2>2, <4>1, <4>3 DEF PairingInv, RequestIdsInv
        <4>8. BodyOrderInv'
          BY <2>1, <2>2, <4>1, <4>3, <4>4 DEF PairingInv, BodyOrderInv
        <4>9. BodyEndInv'
          <5>1. ASSUME NEW id \in 0 .. rx.requestId, Expecting(id)'
                PROVE  Expecting(id) /\ (id = rx.requestId => entry.hasBody)
            <6>1. \A i \in DOMAIN requestQueue : requestQueue[i].id < rx.requestId
              BY <2>6, <3>1, QueueEntryTypes DEF PairingInv, RequestIdsInv
            <6>2. Handling => tx.requestId < rx.requestId
              BY <2>6, <3>1, HandledIsReceived
            <6> QED
              BY <2>1, <2>2, <3>1, <4>1, <4>2, <4>3, <5>1, <6>1, <6>2, QueueEntryTypes DEF Expecting
          <5>2. BodyPushed' /\ entry.hasBody => BodyPushed
            BY <2>1, <2>2, <4>1 DEF BodyPushed
          <5>3. \A id : EndQueued(id)' = EndQueued(id)
            BY <2>1 DEF EndQueued
          <5> QED
            BY <2>1, <2>2, <2>6, <4>1, <5>1, <5>2, <5>3 DEF PairingInv, BodyEndInv
        <4> QED
          BY <4>5, <4>6, <4>7, <4>8, <4>9 DEF PairingInv
      <3> QED
        BY <3>3, <3>4, QueueEntryTypes, SizesAreNatural
    <2> QED
      BY <2>4, <2>5, <2>6
  <1>2. CASE PushRequest
    <2>1. recv = "pushRequest" /\ UNCHANGED <<aborted, requestBodyQueue, reply, tx>>
      BY <1>2 DEF PushRequest
    <2>2. CASE aborted
      <3>1. recv' = "done" /\ UNCHANGED <<requestQueue, state, rx>>
        BY <1>2, <2>2 DEF PushRequest
      <3>2. ControlInv' /\ PushingInv'
        BY <2>1, <2>2, <3>1 DEF PairingInv, ControlInv, PushingInv
      <3> QED
        BY <2>1, <2>2, <3>1, <3>2, PairingAborted DEF PairingInv, ControlInv
    <2>3. CASE ~aborted
      <3>1. requestQueue' = requestQueue \o pushing /\ ContinueReceiving(rx, newRequest)
        BY <1>2, <2>3 DEF PushRequest
      <3>2. /\ pushing \in Seq(RequestEntry) /\ Len(pushing) = 1 /\ requestQueue \in Seq(RequestEntry)
        BY <2>1 DEF TypeOK, QueueTypes
      <3>3. pushing[1] \in RequestEntry /\ requestQueue' = Append(requestQueue, pushing[1])
        BY <3>1, <3>2, ConcatOne
      <3>4. /\ pushing[1].id = rx.requestId /\ rx.requestEnqueued
            /\ ~pushing[1].hasBody => state = "ReceiveRequestMessageComplete"
        BY <2>1, <2>3 DEF PairingInv, PushingInv
      <3>5. /\ NextPush = rx.requestId
            /\ NoChunk <=> ~pushing[1].hasBody
            /\ pushing[1].hasBody => Expecting(rx.requestId)
            /\ state = "ReceiveRequestMessageComplete" => BodyPushed
        BY <2>1, <3>4 DEF NextPush, NoChunk, Expecting, BodyPushed
      <3> QED
        BY <2>1, <2>3, <3>1, <3>3, <3>4, <3>5, PairingPushRequest
    <2> QED
      BY <2>2, <2>3
  <1> QED
    BY <1>1, <1>2

-----------------------------------------------------------------------------
(* The reply loop *)

(* Steps of a handler that read no chunk *)
LEMMA PairingHandling ==
    ASSUME PairingInv, Handling, Handling', reply' # "flush",
           reply' = "read" => ~tx'.requestBodyConsumed,
           tx'.requestId = tx.requestId, tx'.requestBodyConsumed = tx.requestBodyConsumed,
           UNCHANGED <<aborted, state, requestQueue, requestBodyQueue, recv, rx, pushing>>
    PROVE  PairingInv'
  <1>1. NextPush' = NextPush /\ BodyPushed' = BodyPushed /\ NoChunk' = NoChunk
    BY DEF NextPush, BodyPushed, NoChunk
  <1>2. ControlInv' /\ PushingInv'
    BY DEF PairingInv, ControlInv, PushingInv, Handling
  <1>3. RequestIdsInv' /\ BodyOrderInv'
    BY <1>1 DEF PairingInv, RequestIdsInv, BodyOrderInv, Handling
  <1>4. BodyEndInv'
    BY <1>1 DEF PairingInv, BodyEndInv, Expecting, EndQueued, Handling
  <1> QED
    BY <1>2, <1>3, <1>4 DEF PairingInv

LEMMA PairingPop == ASSUME TypeOK, PairingInv, PopRequest \/ PopAborted PROVE PairingInv'
  <1>1. CASE PopRequest
    <2> DEFINE entry == requestQueue[1]
    <2>1. /\ reply = "pop" /\ reply' = "handle" /\ ~aborted /\ requestQueue # <<>>
          /\ requestQueue' = Tail(requestQueue)
          /\ UNCHANGED <<aborted, state, requestBodyQueue, recv, rx, pushing>>
      BY <1>1 DEF PopRequest
    <2>2. /\ Len(requestQueue) > 0 /\ 1 \in DOMAIN requestQueue /\ Head(requestQueue) = entry
          /\ DOMAIN requestQueue' = 1 .. Len(requestQueue) - 1
          /\ Len(requestQueue') = Len(requestQueue) - 1
          /\ \A i \in DOMAIN requestQueue' :
               i + 1 \in DOMAIN requestQueue /\ requestQueue'[i] = requestQueue[i + 1]
      BY <2>1, QueueEntryTypes DEF TypeOK, QueueTypes
    <2>3. tx'.requestId = entry.id /\ tx'.requestBodyConsumed = ~entry.hasBody
      BY <1>1, <2>2 DEF PopRequest, FreshReplyData
    <2>4. /\ NextPush' = NextPush /\ BodyPushed' = BodyPushed /\ NoChunk' = NoChunk
          /\ Handling' /\ ~Handling
      BY <2>1 DEF NextPush, BodyPushed, NoChunk, Handling
    <2>5. entry.id + Len(requestQueue) = NextPush /\ NextPush \in Nat
      <3> DEFINE a == entry.id
                 b == Len(requestQueue)
                 c == NextPush
      <3>1. a + b + 1 = c + 1
        BY <2>1, <2>2 DEF PairingInv, RequestIdsInv
      <3>2. c \in Nat
        BY QueueEntryTypes DEF NextPush
      <3>3. a \in Nat /\ b \in Nat
        BY <2>2, QueueEntryTypes
      <3> HIDE DEF a, b, c
      <3>4. a + b = c /\ c \in Nat
        BY <3>1, <3>2, <3>3
      <3> QED
        BY <3>4 DEF a, b, c
    <2>6. ControlInv' /\ PushingInv'
      BY <2>1, <2>2, <2>3 DEF PairingInv, ControlInv, PushingInv
    <2>7. RequestIdsInv'
      <3>1. ASSUME NEW i \in DOMAIN requestQueue'
            PROVE  /\ requestQueue'[i].id + Len(requestQueue') + 1 = NextPush' + i
                   /\ requestQueue'[i].id = rx'.requestId => requestQueue'[i].hasBody
        <4> DEFINE a == requestQueue[i + 1].id
                   b == Len(requestQueue)
                   c == NextPush
                   d == i
        <4>1. requestQueue'[i].id = a /\ Len(requestQueue') = b - 1 /\ NextPush' = c
          BY <2>2, <2>4
        <4>2. a + b + 1 = c + (d + 1)
          BY <2>1, <2>2 DEF PairingInv, RequestIdsInv
        <4>3. a \in Nat /\ b \in Nat /\ c \in Nat /\ d \in Nat
          BY <2>2, <2>5, QueueEntryTypes
        <4>4. requestQueue'[i].id = rx'.requestId => requestQueue'[i].hasBody
          BY <2>1, <2>2 DEF PairingInv, RequestIdsInv
        <4> HIDE DEF a, b, c, d
        <4>5. a + (b - 1) + 1 = c + d
          BY <4>2, <4>3
        <4> QED
          BY <4>1, <4>4, <4>5 DEF d
      <3>2. tx'.requestId + 1 + Len(requestQueue') = NextPush'
        BY <2>2, <2>3, <2>4, <2>5, QueueEntryTypes
      <3> QED
        BY <3>1, <3>2 DEF RequestIdsInv
    <2>8. BodyOrderInv'
      <3>1. ASSUME NEW j \in DOMAIN requestBodyQueue
            PROVE  /\ requestBodyQueue[j].id >= entry.id
                   /\ ~entry.hasBody => requestBodyQueue[j].id > entry.id
        <4> DEFINE a == entry.id
                   b == Len(requestQueue)
                   c == NextPush
                   d == requestBodyQueue[j].id
        <4>1. d + b >= c
          BY <2>1 DEF PairingInv, BodyOrderInv
        <4>2. d = a => entry.hasBody
          BY <2>2 DEF PairingInv, BodyOrderInv
        <4>3. a + b = c /\ a \in Nat /\ b \in Nat /\ c \in Nat /\ d \in Nat
          BY <2>2, <2>5, QueueEntryTypes
        <4> HIDE DEF a, b, c, d
        <4>4. d >= a /\ (d # a => d > a)
          BY <4>1, <4>3
        <4> QED
          BY <4>2, <4>4 DEF a, d
      <3>2. \A j \in DOMAIN requestBodyQueue, i \in DOMAIN requestQueue' :
              requestBodyQueue[j].id = requestQueue'[i].id => requestQueue'[i].hasBody
        BY <2>2 DEF PairingInv, BodyOrderInv
      <3> QED
        BY <2>1, <2>3, <2>4, <3>1, <3>2 DEF PairingInv, BodyOrderInv
    <2>9. BodyEndInv'
      <3>1. \A id : Expecting(id)' => Expecting(id)
        BY <2>1, <2>2, <2>3, <2>4 DEF Expecting
      <3>2. \A id : EndQueued(id)' = EndQueued(id)
        BY <2>1 DEF EndQueued
      <3>3. rx.requestEnqueued /\ recv # "pushRequest" /\ requestQueue' = <<>> => entry.hasBody
        <4> SUFFICES ASSUME rx.requestEnqueued, recv # "pushRequest", requestQueue' = <<>>
                     PROVE  entry.hasBody
          OBVIOUS
        <4>1. Len(requestQueue) = 1
          BY <2>2, QueueEntryTypes
        <4>2. entry.id = rx.requestId
          BY <2>2, <2>5, <4>1, QueueEntryTypes DEF NextPush
        <4> QED
          BY <2>1, <2>2, <4>2 DEF PairingInv, RequestIdsInv
      <3> QED
        BY <2>1, <2>3, <2>4, <3>1, <3>2, <3>3 DEF PairingInv, BodyEndInv
    <2> QED
      BY <2>6, <2>7, <2>8, <2>9 DEF PairingInv
  <1>2. CASE PopAborted
    <2>1. /\ aborted /\ reply = "pop" /\ reply' \in {"done", "error"}
          /\ UNCHANGED <<aborted, state, requestQueue, requestBodyQueue, recv, rx, pushing>>
      BY <1>2 DEF PopAborted, EnterReplyLoop
    <2>2. ControlInv' /\ PushingInv'
      BY <2>1 DEF PairingInv, ControlInv, PushingInv
    <2> QED
      BY <2>1, <2>2, PairingAborted DEF PairingInv, ControlInv
  <1> QED
    BY <1>1, <1>2

(* A 500 response changes nothing of the request that is being handled. *)
LEMMA Reply500Keeps ==
    ASSUME TypeOK, Reply500
    PROVE  /\ reply' = "catch" /\ tx'.requestId = tx.requestId
           /\ tx'.requestBodyConsumed = tx.requestBodyConsumed
  <1>1. tx \in ReplyData
    BY DEF TypeOK, ReplyTypes
  <1> QED
    BY <1>1 DEF Reply500, WriteBody, AppendResponseHeaders, ReplyData

LEMMA PairingTakeBody ==
    ASSUME TypeOK, PairingInv, reply \in {"handle", "read"}, ~tx.requestBodyConsumed, TakeBody
    PROVE  PairingInv'
  <1> DEFINE entry == requestBodyQueue[1]
  <1>1. /\ requestBodyQueue # <<>> /\ requestBodyQueue' = Tail(requestBodyQueue)
        /\ UNCHANGED <<aborted, state, requestQueue, recv, rx, pushing>>
    BY DEF TakeBody
  <1>2. /\ 1 \in DOMAIN requestBodyQueue /\ Head(requestBodyQueue) = entry
        /\ DOMAIN requestBodyQueue' = 1 .. Len(requestBodyQueue) - 1
        /\ \A j \in DOMAIN requestBodyQueue' :
             j + 1 \in DOMAIN requestBodyQueue /\ requestBodyQueue'[j] = requestBodyQueue[j + 1]
    BY <1>1, QueueEntryTypes DEF TypeOK, QueueTypes
  <1>3. entry.id = tx.requestId
    BY <1>1, <1>2, PairingImpliesBelongs DEF BodyBelongsToRequest
  <1>4. ~aborted
    BY <1>1 DEF PairingInv, ControlInv
  <1>5. /\ tx'.requestId = tx.requestId /\ tx'.keepConnection = tx.keepConnection
        /\ (tx'.requestBodyConsumed <=> entry.isEnd) /\ reply' = "handle"
    <2>1. tx \in ReplyData
      BY DEF TypeOK, ReplyTypes
    <2> QED
      BY <1>2, <1>3, <2>1 DEF TakeBody, ReplyData
  <1>6. NextPush' = NextPush /\ BodyPushed' = BodyPushed /\ NoChunk' = NoChunk
        /\ Handling' /\ Handling
    BY <1>1, <1>5 DEF NextPush, BodyPushed, NoChunk, Handling
  <1>7. ControlInv' /\ PushingInv'
    BY <1>1, <1>4, <1>5 DEF PairingInv, ControlInv, PushingInv
  <1>8. RequestIdsInv'
    BY <1>1, <1>5, <1>6 DEF PairingInv, RequestIdsInv
  <1>9. BodyOrderInv'
    <2>1. \A i, j \in DOMAIN requestBodyQueue' : i < j =>
            /\ requestBodyQueue'[i].id <= requestBodyQueue'[j].id
            /\ requestBodyQueue'[i].isEnd => requestBodyQueue'[i].id < requestBodyQueue'[j].id
      <3> SUFFICES ASSUME NEW i \in DOMAIN requestBodyQueue', NEW j \in DOMAIN requestBodyQueue', i < j
                   PROVE  /\ requestBodyQueue'[i].id <= requestBodyQueue'[j].id
                          /\ requestBodyQueue'[i].isEnd =>
                               requestBodyQueue'[i].id < requestBodyQueue'[j].id
        OBVIOUS
      <3>1. i + 1 < j + 1 /\ i + 1 \in DOMAIN requestBodyQueue /\ j + 1 \in DOMAIN requestBodyQueue
        BY <1>2, QueueEntryTypes
      <3> QED
        BY <1>2, <3>1 DEF PairingInv, BodyOrderInv
    <2>2. ASSUME NEW j \in DOMAIN requestBodyQueue'
          PROVE  tx'.requestBodyConsumed => requestBodyQueue'[j].id > tx'.requestId
      <3>1. 1 < j + 1 /\ j + 1 \in DOMAIN requestBodyQueue
        BY <1>2, QueueEntryTypes
      <3>2. entry.isEnd => entry.id < requestBodyQueue[j + 1].id
        BY <1>2, <3>1 DEF PairingInv, BodyOrderInv
      <3> QED
        BY <1>2, <1>3, <1>5, <3>1, <3>2, QueueEntryTypes
    <2> QED
      BY <1>1, <1>2, <1>5, <1>6, <2>1, <2>2 DEF PairingInv, BodyOrderInv
  <1>10. BodyEndInv'
    <2>1. \A id : Expecting(id)' => Expecting(id)
      BY <1>1, <1>5, <1>6 DEF Expecting
    <2>2. ASSUME NEW id \in 0 .. rx.requestId, Expecting(id)', EndQueued(id) PROVE EndQueued(id)'
      <3>1. PICK j \in DOMAIN requestBodyQueue : requestBodyQueue[j].id = id /\ requestBodyQueue[j].isEnd
        BY <2>2 DEF EndQueued
      <3>2. CASE j = 1
        <4>1. entry.isEnd /\ id = tx.requestId
          BY <1>3, <3>1, <3>2
        <4>2. \A i \in DOMAIN requestQueue : requestQueue[i].id > tx.requestId
          <5>1. ASSUME NEW i \in DOMAIN requestQueue PROVE requestQueue[i].id > tx.requestId
            <6> DEFINE a == requestQueue[i].id
                       b == Len(requestQueue)
                       c == tx.requestId
                       d == i
            <6>1. a + b + 1 = NextPush + d /\ c + 1 + b = NextPush
              BY <1>4, <1>6 DEF PairingInv, RequestIdsInv
            <6>2. a \in Nat /\ b \in Nat /\ c \in Nat /\ d \in Nat /\ d > 0
              BY QueueEntryTypes
            <6> HIDE DEF a, b, c, d
            <6>3. a > c
              BY <6>1, <6>2
            <6> QED
              BY <6>3 DEF a, c
          <5> QED
            BY <5>1
        <4>3. ~(id = rx.requestId /\ IF recv = "pushRequest" THEN pushing[1].hasBody
                                                           ELSE ~rx.requestEnqueued)
          BY <1>4, <1>6, <4>1, HandledIsReceived, QueueEntryTypes DEF NextPush
        <4>4. ~Expecting(id)'
          BY <1>1, <1>5, <4>1, <4>2, <4>3, QueueEntryTypes DEF Expecting
        <4> QED
          BY <2>2, <4>4
      <3>3. CASE j # 1
        <4>1. j - 1 \in DOMAIN requestBodyQueue' /\ (j - 1) + 1 = j
          BY <1>2, <3>3, QueueEntryTypes
        <4>2. requestBodyQueue'[j - 1] = requestBodyQueue[j]
          BY <1>2, <4>1
        <4> QED
          BY <3>1, <4>1, <4>2 DEF EndQueued
      <3> QED
        BY <3>2, <3>3
    <2>3. rx.requestEnqueued /\ recv # "pushRequest" /\ requestQueue = <<>> /\ entry.isEnd
            => BodyPushed
      <3> SUFFICES ASSUME rx.requestEnqueued, recv # "pushRequest", requestQueue = <<>>, entry.isEnd
                   PROVE  BodyPushed
        OBVIOUS
      <3>1. Len(requestQueue) = 0
        OBVIOUS
      <3>2. tx.requestId = rx.requestId
        BY <1>4, <1>6, <3>1, HandledIsReceived, QueueEntryTypes DEF NextPush
      <3> QED
        BY <1>2, <1>3, <3>2 DEF PairingInv, BodyOrderInv
    <2> QED
      BY <1>1, <1>4, <1>5, <1>6, <2>1, <2>2, <2>3 DEF PairingInv, BodyEndInv
  <1> QED
    BY <1>7, <1>8, <1>9, <1>10 DEF PairingInv

LEMMA PairingReadAborted ==
    ASSUME TypeOK, PairingInv, Handling, ReadAborted PROVE PairingInv'
  BY PairingHandling, Reply500Keeps DEF ReadAborted, Handling

LEMMA PairingHandler ==
    ASSUME TypeOK, PairingInv, HandlerReads \/ ReadResumes \/ HandlerWrites \/ HandlerThrows
    PROVE  PairingInv'
  <1>1. CASE HandlerReads
    <2>1. reply = "handle" /\ ~tx.requestBodyConsumed /\ Handling
      BY <1>1 DEF HandlerReads, Handling
    <2>2. CASE TakeBody
      BY <2>1, <2>2, PairingTakeBody
    <2>3. CASE ReadAborted
      BY <2>1, <2>3, PairingReadAborted
    <2>4. CASE ~TakeBody /\ ~ReadAborted
      BY <1>1, <2>1, <2>4, PairingHandling DEF HandlerReads, Handling
    <2> QED
      BY <2>2, <2>3, <2>4
  <1>2. CASE ReadResumes
    <2>1. reply = "read" /\ ~tx.requestBodyConsumed /\ Handling
      BY <1>2 DEF ReadResumes, Handling, PairingInv, ControlInv
    <2> QED
      BY <1>2, <2>1, PairingTakeBody, PairingReadAborted DEF ReadResumes
  <1>3. CASE HandlerWrites
    <2>1. tx'.requestId = tx.requestId /\ tx'.requestBodyConsumed = tx.requestBodyConsumed
      <3>1. tx \in ReplyData
        BY DEF TypeOK, ReplyTypes
      <3> QED
        BY <1>3, <3>1 DEF HandlerWrites, WriteBody, WriteNothing, AppendResponseHeaders, ReplyData
    <2> QED
      BY <1>3, <2>1, PairingHandling DEF HandlerWrites, Handling
  <1>4. CASE HandlerThrows
    BY <1>4, PairingHandling, Reply500Keeps DEF HandlerThrows, Handling
  <1> QED
    BY <1>1, <1>2, <1>3, <1>4

(* The reply loop goes on to the next request: the body of the last one    *)
(* has been read to its end.                                               *)
LEMMA PairingKept ==
    ASSUME TypeOK, PairingInv, Handling, tx.requestBodyConsumed,
           NEW written, EnterReplyLoop(state = "Closing", written),
           UNCHANGED <<aborted, state, requestQueue, requestBodyQueue, recv, rx, pushing>>
    PROVE  PairingInv'
  <1>1. CASE aborted
    <2>1. ControlInv' /\ PushingInv'
      BY <1>1 DEF PairingInv, ControlInv, PushingInv, EnterReplyLoop, Handling
    <2> QED
      BY <1>1, <2>1, PairingAborted DEF PairingInv, ControlInv
  <1>2. CASE ~aborted
    <2>1. reply' = "pop"
      BY <1>2 DEF PairingInv, ControlInv, EnterReplyLoop
    <2>2. /\ NextPush' = NextPush /\ BodyPushed' = BodyPushed /\ NoChunk' = NoChunk
          /\ ~Handling'
      BY <2>1 DEF NextPush, BodyPushed, NoChunk, Handling
    <2>3. ControlInv' /\ PushingInv'
      BY <1>2, <2>1 DEF PairingInv, ControlInv, PushingInv, Handling
    <2>4. RequestIdsInv'
      BY <2>2 DEF PairingInv, RequestIdsInv
    <2>5. BodyOrderInv'
      <3>1. ASSUME NEW j \in DOMAIN requestBodyQueue
            PROVE  requestBodyQueue[j].id + Len(requestQueue) >= NextPush
        <4>1. requestBodyQueue[j].id > tx.requestId
          BY DEF PairingInv, BodyOrderInv
        <4> QED
          BY <1>2, <4>1, HandledIsReceived, QueueEntryTypes
      <3> QED
        BY <2>2, <3>1 DEF PairingInv, BodyOrderInv
    <2>6. BodyEndInv'
      <3>1. \A id : Expecting(id)' => Expecting(id)
        BY <2>2 DEF Expecting
      <3>2. \A id : EndQueued(id)' = EndQueued(id)
        BY DEF EndQueued
      <3> QED
        BY <1>2, <2>2, <3>1, <3>2 DEF PairingInv, BodyEndInv
    <2> QED
      BY <2>3, <2>4, <2>5, <2>6 DEF PairingInv
  <1> QED
    BY <1>1, <1>2

LEMMA PairingReplyFails ==
    ASSUME PairingInv, Handling, NEW written, ReplyFails(written),
           UNCHANGED <<recv, rx, pushing>>
    PROVE  PairingInv'
  <1>1. Shutdown /\ reply' \in {"done", "error"}
    BY DEF ReplyFails, EnterReplyLoop
  <1>2. recv # "none"
    BY DEF PairingInv, ControlInv, Handling
  <1> QED
    BY <1>1, <1>2, PairingShutdown

LEMMA PairingWrites ==
    ASSUME TypeOK, PairingInv,
           WriteResolves \/ Write500Resolves \/ FlushResolves \/ ErrorResponseResolves
    PROVE  PairingInv'
  <1>1. CASE WriteResolves
    BY <1>1, PairingHandling, Reply500Keeps DEF WriteResolves, Handling
  <1>2. CASE Write500Resolves
    <2>1. CASE reply' = "caught" /\ UNCHANGED <<state, queueVars>>
      BY <1>2, <2>1, PairingHandling DEF Write500Resolves, Handling
    <2>2. CASE ReplyFails(out)
      BY <1>2, <2>2, PairingReplyFails DEF Write500Resolves, Handling
    <2> QED
      BY <1>2, <2>1, <2>2 DEF Write500Resolves
  <1>3. CASE FlushResolves
    <2>1. Handling /\ reply = "flush" /\ UNCHANGED <<recv, rx, tx, pushing>>
      BY <1>3 DEF FlushResolves, Handling
    <2>2. CASE /\ tx.keepConnection /\ EnterReplyLoop(state = "Closing", out)
               /\ UNCHANGED <<state, queueVars>>
      <3>1. tx.requestBodyConsumed
        BY <2>1, <2>2 DEF PairingInv, ControlInv
      <3> QED
        BY <2>1, <2>2, <3>1, PairingKept
    <2>3. CASE Shutdown /\ EnterReplyLoop(TRUE, out)
      <3>1. reply' \in {"done", "error"}
        BY <2>3 DEF EnterReplyLoop
      <3>2. recv # "none"
        BY <2>1 DEF PairingInv, ControlInv, Handling
      <3> QED
        BY <2>1, <2>3, <3>1, <3>2, PairingShutdown
    <2>4. CASE ReplyFails(out)
      BY <2>1, <2>4, PairingReplyFails
    <2> QED
      BY <1>3, <2>2, <2>3, <2>4 DEF FlushResolves
  <1>4. CASE ErrorResponseResolves
    <2>1. /\ reply = "error" /\ reply' = "done"
          /\ UNCHANGED <<aborted, state, requestQueue, requestBodyQueue, recv, rx, tx, pushing>>
      BY <1>4 DEF ErrorResponseResolves
    <2>2. aborted
      BY <2>1 DEF PairingInv, ControlInv
    <2>3. ControlInv' /\ PushingInv'
      BY <2>1, <2>2 DEF PairingInv, ControlInv, PushingInv
    <2> QED
      BY <2>1, <2>2, <2>3, PairingAborted DEF PairingInv, ControlInv
  <1> QED
    BY <1>1, <1>2, <1>3, <1>4

LEMMA PairingHandlerReturns == ASSUME TypeOK, PairingInv, HandlerReturns PROVE PairingInv'
  <1> DEFINE data == AppendResponseHeaders(context.response)
             kept == data.keepConnection /\ KeepaliveByContentLength(data)
             written == out \o Headers(context.response)
  <1>1. Handling /\ reply \in {"handle", "caught"} /\ UNCHANGED <<recv, rx, pushing>>
    BY DEF HandlerReturns, Handling
  <1>2. tx' = [data EXCEPT !.keepConnection = kept]
    BY DEF HandlerReturns
  <1>3. /\ data.requestId = tx.requestId /\ data.requestBodyConsumed = tx.requestBodyConsumed
        /\ data \in ReplyData
    <2>1. tx \in ReplyData /\ context.response \in Response
      BY DEF TypeOK, ReplyTypes, Context
    <2>2. data \in ReplyData
      BY <2>1, TypeResponseHeaders
    <2> QED
      BY <2>1, <2>2 DEF AppendResponseHeaders, ReplyData
  <1>4. kept => tx.requestBodyConsumed
    BY <1>3 DEF KeepaliveByContentLength
  <1>5. \/ reply' = "flush" /\ UNCHANGED <<state, queueVars>>
        \/ kept /\ EnterReplyLoop(state = "Closing", written) /\ UNCHANGED <<state, queueVars>>
        \/ Shutdown /\ EnterReplyLoop(TRUE, written)
        \/ ReplyFails(written)
    BY DEF HandlerReturns
  <1> HIDE DEF data, kept, written
  <1>6. /\ tx'.requestId = tx.requestId /\ tx'.requestBodyConsumed = tx.requestBodyConsumed
        /\ tx'.keepConnection = kept
    BY <1>2, <1>3 DEF ReplyData
  <1>7. CASE reply' = "flush" /\ UNCHANGED <<state, queueVars>>
    <2>1. NextPush' = NextPush /\ BodyPushed' = BodyPushed /\ NoChunk' = NoChunk /\ Handling'
      BY <1>1, <1>7 DEF NextPush, BodyPushed, NoChunk, Handling
    <2>2. ControlInv' /\ PushingInv'
      BY <1>1, <1>4, <1>6, <1>7 DEF PairingInv, ControlInv, PushingInv
    <2>3. RequestIdsInv' /\ BodyOrderInv'
      BY <1>1, <1>6, <1>7, <2>1 DEF PairingInv, RequestIdsInv, BodyOrderInv
    <2>4. BodyEndInv'
      BY <1>1, <1>6, <1>7, <2>1 DEF PairingInv, BodyEndInv, Expecting, EndQueued
    <2> QED
      BY <2>2, <2>3, <2>4 DEF PairingInv
  <1>8. CASE kept /\ EnterReplyLoop(state = "Closing", written) /\ UNCHANGED <<state, queueVars>>
    BY <1>1, <1>4, <1>8, PairingKept
  <1>9. CASE Shutdown /\ EnterReplyLoop(TRUE, written)
    <2>1. reply' \in {"done", "error"}
      BY <1>9 DEF EnterReplyLoop
    <2>2. recv # "none"
      BY <1>1 DEF PairingInv, ControlInv, Handling
    <2> QED
      BY <1>1, <1>9, <2>1, <2>2, PairingShutdown
  <1>10. CASE ReplyFails(written)
    BY <1>1, <1>10, PairingReplyFails
  <1> QED
    BY <1>5, <1>7, <1>8, <1>9, <1>10

-----------------------------------------------------------------------------
(* The two loops keep requests and bodies paired, for any queue sizes and  *)
(* however reading, handling, writing, shutting down and the timer         *)
(* interleave.                                                             *)
THEOREM Pairing == Spec => []PairingInv
  <1>1. TypeOK /\ PairingInv /\ [Next]_vars => PairingInv'
    <2> SUFFICES ASSUME TypeOK, PairingInv, [Next]_vars PROVE PairingInv'
      OBVIOUS
    <2>1. CASE Start \/ Stop \/ TimerTick \/ Close \/ PeerCloses \/ ReadResolves
      BY <2>1, PairingEnvironment
    <2>2. CASE ReceiveStep
      BY <2>2, PairingReceive, PairingCallback, PairingParseReturns, PairingEnqueueBody,
         PairingEnqueueRequest DEF ReceiveStep
    <2>3. CASE ReplyStep
      BY <2>3, PairingPop DEF ReplyStep
    <2>4. CASE HandlerStep
      BY <2>4, PairingHandler, PairingHandlerReturns DEF HandlerStep
    <2>5. CASE WriteStep
      BY <2>5, PairingWrites DEF WriteStep
    <2>6. CASE UNCHANGED vars
      BY <2>6, PairingUnchanged DEF vars
    <2> QED
      BY <2>1, <2>2, <2>3, <2>4, <2>5, <2>6 DEF Next, Closed
  <1> QED
    BY <1>1, PairingInit, TypeInvariant, PTL DEF Spec

(* No handler is ever given a chunk of another request's body: the         *)
(* LogicException of Http11ServerConnectionRequestStream::read is dead     *)
(* code, whatever the client sends and however much the queues hold.       *)
THEOREM BodiesBelong == Spec => []BodyBelongsToRequest
  <1>1. TypeOK /\ PairingInv => BodyBelongsToRequest
    BY PairingImpliesBelongs
  <1> QED
    BY <1>1, TypeInvariant, Pairing, PTL

(* Closing is final, for any connection: a step of a closing one queues    *)
(* nothing, counts no request and hands none to the handlers.              *)
THEOREM ClosingFinal == Spec => ClosingIsFinal
  <1>1. TypeOK /\ PairingInv /\ PairingInv' /\ [Next]_vars => [StaysClosing]_vars
    <2> SUFFICES ASSUME TypeOK, PairingInv, PairingInv', Next, state \in {"Closing", "Closed"}
                 PROVE  StaysClosing
      BY DEF StaysClosing
    <2>1. aborted /\ recv # "none" /\ reply # "none" /\ (reply = "pop" => state = "Closing")
      BY DEF PairingInv, ControlInv
    <2>2. /\ state' \in {"Closing", "Closed"} /\ (state = "Closed" => state' = "Closed")
          /\ received' = received /\ (reply = "pop" => reply' # "handle")
      <3>1. CASE Start \/ Stop \/ TimerTick \/ Close \/ PeerCloses \/ ReadResolves
        BY <2>1, <3>1 DEF Start, Stop, TimerTick, Close, PeerCloses, ReadResolves, Running, Shutdown
      <3>2. CASE ReceiveFails \/ ReceiveEnds \/ ReceivePacket \/ ParseReturns
        BY <2>1, <3>2 DEF ReceiveFails, ReceiveEnds, ReceivePacket, ParseReturns, Shutdown,
                          PairingInv, ControlInv
      <3>3. CASE \/ ParserRejects \/ on_message_begin \/ on_url \/ on_header_field
                 \/ on_header_value \/ on_headers_complete \/ on_body \/ on_message_complete
        BY <2>1, <3>3 DEF ParserRejects, on_message_begin, on_url, on_header_field,
           on_header_value, on_headers_complete, on_body, on_message_complete, RefuseData, Refuse
      <3>4. CASE EnqueueBodyBuffer \/ PushBody \/ EnqueueAndContinue \/ PushRequest
        BY <2>1, <3>4 DEF EnqueueBodyBuffer, PushBody, EnqueueAndContinue, EnqueueRequest,
                          PushRequest, ContinueReceiving
      <3>5. CASE ReplyStep
        BY <2>1, <3>5 DEF ReplyStep, PopRequest, PopAborted, EnterReplyLoop
      <3>6. CASE HandlerReads \/ ReadResumes \/ HandlerWrites \/ HandlerThrows
        BY <2>1, <3>6 DEF HandlerReads, ReadResumes, HandlerWrites, HandlerThrows, TakeBody,
                          ReadAborted
      <3>7. CASE HandlerReturns \/ WriteStep
        BY <2>1, <3>7 DEF HandlerReturns, WriteStep, WriteResolves, Write500Resolves,
           FlushResolves, ErrorResponseResolves, ReplyFails, Shutdown, PairingInv, ControlInv
      <3>8. CASE Closed
        BY <2>1, <3>8 DEF Closed, vars
      <3> QED
        BY <3>1, <3>2, <3>3, <3>4, <3>5, <3>6, <3>7, <3>8 DEF Next, ReceiveStep, HandlerStep
    <2>3. requestQueue' = <<>> /\ requestBodyQueue' = <<>>
      BY <2>2 DEF PairingInv, ControlInv
    <2> QED
      BY <2>2, <2>3 DEF StaysClosing
  <1> QED
    BY <1>1, TypeInvariant, Pairing, PTL DEF ClosingIsFinal, Spec

-----------------------------------------------------------------------------
(* The connection implements the ConnectionLifecycle that the model of     *)
(* HttpServer is built on.                                                 *)

LStep == [Lifecycle!Next]_<<LifecyclePhase, detectTimeoutFlag>>

(* A step that keeps the connection open, or in the phase it is in, is a   *)
(* step of progress or none at all.                                        *)
LEMMA LifecycleSame ==
    ASSUME LifecyclePhase' = LifecyclePhase, LifecyclePhase \in {"Started", "Closing"},
           detectTimeoutFlag' \in {detectTimeoutFlag, FALSE}
    PROVE  LStep
BY DEF LStep, Lifecycle!Next, Lifecycle!Progress, Lifecycle!Open

(* Any step that calls shutdown() on an open connection shuts it down.     *)
LEMMA LifecycleShutdown ==
    ASSUME LifecyclePhase \in {"Started", "Closing"}, Shutdown,
           detectTimeoutFlag' \in {detectTimeoutFlag, FALSE}
    PROVE  LStep
BY DEF LStep, Lifecycle!Next, Lifecycle!ShutDown, Lifecycle!Open, Shutdown, LifecyclePhase

(* A loop that runs belongs to an open connection.                         *)
LEMMA LoopsAreOpen ==
    ASSUME TypeOK, PairingInv, recv \notin {"none", "done"} \/ reply \notin {"none", "done"}
    PROVE  LifecyclePhase \in {"Started", "Closing"}
BY DEF PairingInv, ControlInv, LifecyclePhase

(* The operations HttpServer calls, and what the client does.              *)
LEMMA LifecycleEnvironment ==
    ASSUME TypeOK, PairingInv,
           Start \/ Stop \/ TimerTick \/ Close \/ PeerCloses \/ ReadResolves \/ Closed
    PROVE  LStep
  <1>1. CASE Start
    BY <1>1 DEF Start, LStep, Lifecycle!Next, Lifecycle!Start, LifecyclePhase
  <1>2. CASE Stop
    <2>1. LifecyclePhase \in {"Started", "Closing"}
      BY <1>2 DEF Stop, Running, LifecyclePhase
    <2> QED BY <1>2, <2>1, LifecycleShutdown DEF Stop
  <1>3. CASE TimerTick
    <2>1. LifecyclePhase \in {"Started", "Closing"}
      BY <1>3 DEF TimerTick, Running, LifecyclePhase
    <2>2. CASE detectTimeoutFlag
      BY <1>3, <2>1, <2>2, LifecycleShutdown DEF TimerTick
    <2>3. CASE ~detectTimeoutFlag
      <3>1. state' = state /\ detectTimeoutFlag' = TRUE
        BY <1>3, <2>3 DEF TimerTick
      <3> QED BY <2>1, <2>3, <3>1 DEF LStep, Lifecycle!Next, Lifecycle!Tick, Lifecycle!Open, LifecyclePhase
    <2> QED BY <2>2, <2>3
  <1>4. CASE Close
    <2>1. state = "Closing" /\ state' = "Closed" /\ detectTimeoutFlag' = detectTimeoutFlag
      BY <1>4 DEF Close, PairingInv, ControlInv
    <2> QED BY <2>1 DEF LStep, Lifecycle!Next, Lifecycle!Close, LifecyclePhase
  <1>5. CASE PeerCloses \/ ReadResolves \/ Closed
    <2>1. state' = state /\ detectTimeoutFlag' = detectTimeoutFlag
      BY <1>5 DEF PeerCloses, ReadResolves, Closed, vars
    <2> QED BY <2>1 DEF LStep, LifecyclePhase
  <1> QED BY <1>1, <1>2, <1>3, <1>4, <1>5

(* The receive loop: it parses and queues while the connection is open,    *)
(* and every way it ends goes through shutdown().                          *)
LEMMA LifecycleReceive == ASSUME TypeOK, PairingInv, ReceiveStep PROVE LStep
  <1>1. LifecyclePhase \in {"Started", "Closing"}
    <2>1. recv \notin {"none", "done"}
      BY DEF ReceiveStep, ReceiveFails, ReceiveEnds, ReceivePacket, ParserRejects, Fires, Parsing,
             on_message_begin, on_url, on_header_field, on_header_value, on_headers_complete, on_body,
             on_message_complete, ParseReturns, EnqueueBodyBuffer, PushBody, EnqueueAndContinue, PushRequest
    <2> QED BY <2>1, LoopsAreOpen
  <1>2. CASE ReceiveFails \/ ReceiveEnds
    BY <1>1, <1>2, LifecycleShutdown DEF ReceiveFails, ReceiveEnds
  <1>3. CASE ReceivePacket
    <2>1. detectTimeoutFlag' = FALSE /\ (Shutdown \/ state' = state)
      BY <1>3 DEF ReceivePacket
    <2> QED BY <1>1, <2>1, LifecycleShutdown, LifecycleSame DEF LifecyclePhase
  <1>4. CASE ParserRejects \/ on_message_begin \/ on_url \/ on_header_field \/ on_header_value
             \/ on_headers_complete \/ on_body \/ on_message_complete
    <2>1. detectTimeoutFlag' = detectTimeoutFlag
      BY <1>4 DEF ParserRejects, on_message_begin, on_url, on_header_field, on_header_value,
         on_headers_complete, on_body, on_message_complete, RefuseData, Refuse, Accept
    <2>2. \/ state' = state
          \/ state \notin {"Initial", "Closing", "Closed"} /\ state' \notin {"Initial", "Closing", "Closed"}
      BY <1>4 DEF ParserRejects, on_message_begin, on_url, on_header_field, on_header_value,
         on_headers_complete, on_body, on_message_complete, RefuseData, Refuse, Accept
    <2> QED BY <1>1, <2>1, <2>2, LifecycleSame DEF LifecyclePhase
  <1>5. CASE ParseReturns
    <2>1. detectTimeoutFlag' = detectTimeoutFlag /\ (Shutdown \/ state' = state)
      BY <1>5 DEF ParseReturns
    <2> QED BY <1>1, <2>1, LifecycleShutdown, LifecycleSame DEF LifecyclePhase
  <1>6. CASE EnqueueBodyBuffer \/ PushBody \/ EnqueueAndContinue \/ PushRequest
    <2>1. detectTimeoutFlag' = detectTimeoutFlag
      BY <1>6 DEF EnqueueBodyBuffer, PushBody, EnqueueAndContinue, PushRequest
    <2>2. state' = state \/ (state = "ReceiveRequestMessageComplete" /\ state' = "Started")
      BY <1>6 DEF EnqueueBodyBuffer, PushBody, EnqueueAndContinue, EnqueueRequest, PushRequest,
         ContinueReceiving
    <2> QED BY <1>1, <2>1, <2>2, LifecycleSame DEF LifecyclePhase
  <1> QED BY <1>2, <1>3, <1>4, <1>5, <1>6 DEF ReceiveStep

(* The reply loop: writing and flushing is progress, and the connection    *)
(* only closes through shutdown().                                         *)
LEMMA LifecycleReply ==
    ASSUME TypeOK, PairingInv, ReplyStep \/ HandlerStep \/ WriteStep PROVE LStep
  <1>1. LifecyclePhase \in {"Started", "Closing"}
    <2>1. reply \notin {"none", "done"}
      BY DEF ReplyStep, HandlerStep, WriteStep, PopRequest, PopAborted, HandlerReads, ReadResumes,
             HandlerWrites, HandlerThrows, HandlerReturns, WriteResolves, Write500Resolves,
             FlushResolves, ErrorResponseResolves
    <2> QED BY <2>1, LoopsAreOpen
  <1>2. detectTimeoutFlag' \in {detectTimeoutFlag, FALSE}
    BY DEF ReplyStep, HandlerStep, WriteStep, PopRequest, PopAborted, HandlerReads, ReadResumes,
           HandlerWrites, HandlerThrows, HandlerReturns, WriteResolves, Write500Resolves,
           FlushResolves, ErrorResponseResolves, TakeBody, ReadAborted, Reply500, WriteBody,
           WriteNothing
  <1>3. Shutdown \/ state' = state
    BY DEF ReplyStep, HandlerStep, WriteStep, PopRequest, PopAborted, HandlerReads, ReadResumes,
           HandlerWrites, HandlerThrows, HandlerReturns, WriteResolves, Write500Resolves,
           FlushResolves, ErrorResponseResolves, TakeBody, ReadAborted, ReplyFails
  <1> QED BY <1>1, <1>2, <1>3, LifecycleShutdown, LifecycleSame DEF LifecyclePhase

(* For every wire, queue size and environment, a connection is what        *)
(* HttpServer takes it for.                                                *)
THEOREM LifecycleImplemented == Spec => ImplementsLifecycle
  <1>1. Init => Lifecycle!Init
    BY DEF Init, Lifecycle!Init, LifecyclePhase
  <1>2. TypeOK /\ PairingInv /\ [Next]_vars => LStep
    <2>1. CASE UNCHANGED vars
      BY <2>1 DEF vars, LStep, LifecyclePhase
    <2> QED BY <2>1, LifecycleEnvironment, LifecycleReceive, LifecycleReply DEF Next
  <1> QED BY <1>1, <1>2, TypeInvariant, Pairing, PTL DEF Spec, ImplementsLifecycle, Lifecycle!Spec, LStep

-----------------------------------------------------------------------------
(* What was written, as a sequence *)

(* Responses without an error among them *)
Clean(written) ==
    /\ written \in Seq(Item)
    /\ \A i \in DOMAIN written : /\ written[i].kind # "error"
                                 /\ written[i].id < Cardinality(Heads(written))
    /\ InOrder(written) /\ DelimitedIfFollowed(written)

LEMMA WrittenTypes ==
    ASSUME NEW w \in Seq(Item)
    PROVE  /\ Len(w) \in Nat /\ DOMAIN w = 1 .. Len(w)
           /\ \A i \in DOMAIN w : i \in Nat /\ w[i] \in Item /\ w[i].id \in Nat
  <1>1. \A i \in DOMAIN w : w[i] \in Item
    OBVIOUS
  <1> QED
    BY <1>1 DEF Item

(* The responses and the body chunks of a response can be counted. *)
LEMMA WrittenFinite ==
    ASSUME NEW w \in Seq(Item), NEW S, S \subseteq DOMAIN w
    PROVE  IsFiniteSet(S) /\ Cardinality(S) \in Nat
  <1>1. IsFiniteSet(1 .. Len(w))
    BY WrittenTypes, FS_Interval
  <1>2. S \in SUBSET (1 .. Len(w))
    BY WrittenTypes
  <1>3. IsFiniteSet(S)
    BY <1>1, <1>2, FS_Subset
  <1> QED
    BY <1>3, FS_CardinalityType

LEMMA HeadsCount ==
    ASSUME NEW w \in Seq(Item)
    PROVE  /\ Heads(w) \subseteq DOMAIN w /\ IsFiniteSet(Heads(w)) /\ Cardinality(Heads(w)) \in Nat
           /\ \A i : Cardinality({j \in Heads(w) : j < i}) \in Nat
           /\ \A id : /\ BodyOf(w, id) \subseteq DOMAIN w
                      /\ IsFiniteSet(BodyOf(w, id)) /\ Cardinality(BodyOf(w, id)) \in Nat
  <1>1. Heads(w) \subseteq DOMAIN w /\ \A i : {j \in Heads(w) : j < i} \subseteq DOMAIN w
    BY DEF Heads
  <1>2. \A id : BodyOf(w, id) \subseteq DOMAIN w
    BY DEF BodyOf
  <1> QED
    BY <1>1, <1>2, WrittenFinite

(* Ids grow from one response to the next. *)
LEMMA HeadsGrow ==
    ASSUME NEW w \in Seq(Item), InOrder(w), NEW i \in Heads(w), NEW j \in Heads(w), i < j
    PROVE  w[i].id < w[j].id
  <1> DEFINE A == {k \in Heads(w) : k < i}
             B == {k \in Heads(w) : k < j}
  <1>1. i \in Nat /\ j \in Nat /\ \A k \in Heads(w) : k \in Nat
    BY WrittenTypes, HeadsCount
  <1>2. A \cup {i} \subseteq B /\ i \notin A
    <2>1. \A k \in Heads(w) : k < i => k < j
      BY <1>1
    <2>2. ~(i < i)
      BY <1>1
    <2> QED
      BY <2>1, <2>2
  <1>3. IsFiniteSet(A) /\ IsFiniteSet(B) /\ Cardinality(A) \in Nat /\ Cardinality(B) \in Nat
    <2>1. A \subseteq DOMAIN w /\ B \subseteq DOMAIN w
      BY HeadsCount
    <2> QED
      BY <2>1, WrittenFinite
  <1>4. w[i].id = Cardinality(A) /\ w[j].id = Cardinality(B)
    BY DEF InOrder
  <1> HIDE DEF A, B
  <1>5. Cardinality(A \cup {i}) = Cardinality(A) + 1
    BY <1>2, <1>3, FS_AddElement
  <1>6. Cardinality(A \cup {i}) <= Cardinality(B)
    BY <1>2, <1>3, FS_Subset
  <1> QED
    BY <1>3, <1>4, <1>5, <1>6

LEMMA AppendItem ==
    ASSUME NEW w \in Seq(Item), NEW e \in Item
    PROVE  /\ Append(w, e) \in Seq(Item)
           /\ DOMAIN w = 1 .. Len(w) /\ Len(w) \in Nat
           /\ Len(Append(w, e)) = Len(w) + 1
           /\ DOMAIN Append(w, e) = DOMAIN w \cup {Len(w) + 1}
           /\ Len(w) + 1 \notin DOMAIN w
           /\ \A i \in DOMAIN w : Append(w, e)[i] = w[i] /\ i <= Len(w)
           /\ Append(w, e)[Len(w) + 1] = e
           /\ Append(w, e) # <<>>
  BY AppendEntries

(* What tells where a response ends is the response and its body. *)
LEMMA EndsTheSame ==
    ASSUME NEW v, NEW w, NEW i, v[i] = w[i], EndsBeforeNext(w, i),
           BodyOf(v, w[i].id) = BodyOf(w, w[i].id), \A n \in BodyOf(w, w[i].id) : v[n] = w[n]
    PROVE  EndsBeforeNext(v, i)
  BY DEF EndsBeforeNext, Delimited, MessageMisplaced

(* The headers of the next response *)
LEMMA AppendHead ==
    ASSUME NEW w, Clean(w), NEW e \in Item, e.kind = "head", e.id = Cardinality(Heads(w)),
           \A h \in Heads(w) : EndsBeforeNext(w, h)
    PROVE  /\ Clean(Append(w, e))
           /\ Cardinality(Heads(Append(w, e))) = e.id + 1
           /\ Len(w) + 1 \in Heads(Append(w, e)) /\ Append(w, e)[Len(w) + 1] = e
           /\ Heads(Append(w, e)) = Heads(w) \cup {Len(w) + 1}
           /\ \A id : /\ BodyOf(Append(w, e), id) = BodyOf(w, id)
                      /\ \A n \in BodyOf(w, id) : Append(w, e)[n] = w[n]
           /\ \A h \in Heads(w) : EndsBeforeNext(Append(w, e), h)
  <1> DEFINE v == Append(w, e)
             n == Len(w) + 1
  <1>w. w \in Seq(Item)
    BY DEF Clean
  <1>1. /\ v \in Seq(Item) /\ DOMAIN w = 1 .. Len(w) /\ n \in Nat /\ Len(v) = n
        /\ DOMAIN v = DOMAIN w \cup {n} /\ n \notin DOMAIN w
        /\ \A i \in DOMAIN w : v[i] = w[i] /\ i < n
        /\ v[n] = e
    BY <1>w, AppendItem
  <1> HIDE DEF v, n
  <1>2. Heads(v) = Heads(w) \cup {n} /\ n \notin Heads(w) /\ Heads(w) \subseteq DOMAIN w
    BY <1>1 DEF Heads
  <1>3. Cardinality(Heads(v)) = e.id + 1
    <2>1. IsFiniteSet(Heads(w))
      BY <1>w, HeadsCount
    <2>2. Cardinality(Heads(w) \cup {n}) = Cardinality(Heads(w)) + 1
      BY <1>2, <2>1, FS_AddElement
    <2> QED
      BY <1>2, <2>2
  <1>4. \A id : BodyOf(v, id) = BodyOf(w, id) /\ \A i \in BodyOf(w, id) : v[i] = w[i]
    BY <1>1 DEF BodyOf
  <1>5. \A h \in Heads(w) : EndsBeforeNext(v, h)
    BY <1>1, <1>2, <1>4, EndsTheSame
  <1>6. \A i \in DOMAIN v : v[i].kind # "error" /\ v[i].id < Cardinality(Heads(v))
    <2>1. \A i \in DOMAIN w : w[i].kind # "error" /\ w[i].id < e.id /\ w[i].id \in Nat
      BY <1>w, WrittenTypes DEF Clean
    <2>2. e.id \in Nat
      BY DEF Item
    <2> QED
      BY <1>1, <1>3, <2>1, <2>2
  <1>7. InOrder(v)
    <2>1. \A i \in Heads(w) : {j \in Heads(v) : j < i} = {j \in Heads(w) : j < i}
      BY <1>1, <1>2
    <2>2. {j \in Heads(v) : j < n} = Heads(w)
      BY <1>1, <1>2
    <2>3. \A i \in Heads(v) : v[i].id = Cardinality({j \in Heads(v) : j < i})
      <3>1. \A i \in Heads(w) : v[i].id = Cardinality({j \in Heads(v) : j < i})
        BY <1>1, <1>2, <2>1 DEF Clean, InOrder
      <3> QED
        BY <1>1, <1>2, <2>2, <3>1
    <2>4. \A i \in DOMAIN v : v[i].kind = "body" => i > 1 /\ v[i - 1].id = v[i].id
      <3> SUFFICES ASSUME NEW i \in DOMAIN w, w[i].kind = "body"
                   PROVE  i > 1 /\ v[i - 1].id = w[i].id
        BY <1>1
      <3>1. i > 1 /\ w[i - 1].id = w[i].id
        BY DEF Clean, InOrder
      <3>2. i - 1 \in DOMAIN w
        BY <1>1, <3>1
      <3> QED
        BY <1>1, <3>1, <3>2
    <2> QED
      BY <1>6, <2>3, <2>4 DEF InOrder
  <1>8. DelimitedIfFollowed(v)
    <2> SUFFICES ASSUME NEW i \in Heads(v), NEW j \in Heads(v), i < j
                 PROVE  EndsBeforeNext(v, i)
      BY DEF DelimitedIfFollowed
    <2>1. i # n
      BY <1>1, <1>2
    <2> QED
      BY <1>2, <1>5, <2>1
  <1>9. Clean(v)
    BY <1>1, <1>6, <1>7, <1>8 DEF Clean
  <1> QED
    BY <1>1, <1>2, <1>3, <1>4, <1>5, <1>9 DEF v, n

(* A piece of the body of the last response *)
LEMMA AppendBody ==
    ASSUME NEW w, Clean(w), NEW e \in Item, e.kind = "body",
           Cardinality(Heads(w)) = e.id + 1, w # <<>>, w[Len(w)].id = e.id
    PROVE  /\ Clean(Append(w, e))
           /\ Heads(Append(w, e)) = Heads(w) /\ \A h \in Heads(w) : Append(w, e)[h] = w[h]
           /\ Cardinality(BodyOf(Append(w, e), e.id)) = Cardinality(BodyOf(w, e.id)) + 1
           /\ BodyOf(Append(w, e), e.id) = BodyOf(w, e.id) \cup {Len(w) + 1}
           /\ \A n \in BodyOf(w, e.id) : Append(w, e)[n] = w[n]
           /\ Append(w, e)[Len(w) + 1] = e
           /\ Append(w, e) # <<>> /\ Append(w, e)[Len(Append(w, e))] = e
  <1> DEFINE v == Append(w, e)
             n == Len(w) + 1
  <1>w. w \in Seq(Item)
    BY DEF Clean
  <1>1. /\ v \in Seq(Item) /\ DOMAIN w = 1 .. Len(w) /\ n \in Nat /\ Len(v) = n /\ v # <<>>
        /\ DOMAIN v = DOMAIN w \cup {n} /\ n \notin DOMAIN w
        /\ \A i \in DOMAIN w : v[i] = w[i] /\ i < n
        /\ v[n] = e
    BY <1>w, AppendItem
  <1>n. n > 1 /\ n - 1 = Len(w) /\ Len(w) \in DOMAIN w
    BY <1>w, WrittenTypes
  <1> HIDE DEF v, n
  <1>2. Heads(v) = Heads(w) /\ Heads(w) \subseteq DOMAIN w
    BY <1>1 DEF Heads
  <1>3. \A id : /\ id # e.id => BodyOf(v, id) = BodyOf(w, id)
                /\ \A i \in BodyOf(w, id) : v[i] = w[i]
    BY <1>1 DEF BodyOf
  <1>4. /\ BodyOf(v, e.id) = BodyOf(w, e.id) \cup {n}
        /\ Cardinality(BodyOf(v, e.id)) = Cardinality(BodyOf(w, e.id)) + 1
    <2>1. BodyOf(v, e.id) = BodyOf(w, e.id) \cup {n} /\ n \notin BodyOf(w, e.id)
      BY <1>1 DEF BodyOf
    <2> QED
      BY <1>w, <2>1, HeadsCount, FS_AddElement
  <1>e. e.id \in Nat
    BY DEF Item
  <1>6. \A i \in DOMAIN v : v[i].kind # "error" /\ v[i].id < Cardinality(Heads(v))
    BY <1>1, <1>2, <1>e DEF Clean
  <1>7. InOrder(v)
    <2>1. \A i \in Heads(v) : v[i].id = Cardinality({j \in Heads(v) : j < i})
      BY <1>1, <1>2 DEF Clean, InOrder
    <2>2. \A i \in DOMAIN v : v[i].kind = "body" => i > 1 /\ v[i - 1].id = v[i].id
      <3>1. ASSUME NEW i \in DOMAIN w, w[i].kind = "body"
            PROVE  i > 1 /\ v[i - 1].id = v[i].id
        <4>1. i > 1 /\ w[i - 1].id = w[i].id
          BY <3>1 DEF Clean, InOrder
        <4>2. i - 1 \in DOMAIN w
          BY <1>1, <4>1
        <4> QED
          BY <1>1, <4>1, <4>2
      <3>2. n > 1 /\ v[n - 1].id = v[n].id
        BY <1>1, <1>n
      <3> QED
        BY <1>1, <3>1, <3>2
    <2> QED
      BY <1>6, <2>1, <2>2 DEF InOrder
  <1>8. DelimitedIfFollowed(v)
    <2> SUFFICES ASSUME NEW i \in Heads(w), NEW j \in Heads(w), i < j
                 PROVE  EndsBeforeNext(v, i)
      BY <1>2 DEF DelimitedIfFollowed
    <2>1. w[i].id < w[j].id /\ w[j].id < e.id + 1 /\ w[i].id \in Nat /\ w[j].id \in Nat
      BY <1>w, <1>2, HeadsGrow, WrittenTypes DEF Clean
    <2>2. w[i].id # e.id
      BY <1>e, <2>1
    <2>3. EndsBeforeNext(w, i)
      BY DEF Clean, DelimitedIfFollowed
    <2> QED
      BY <1>1, <1>2, <1>3, <2>2, <2>3, EndsTheSame
  <1>9. Clean(v)
    BY <1>1, <1>6, <1>7, <1>8 DEF Clean
  <1> QED
    BY <1>1, <1>2, <1>3, <1>4, <1>9 DEF v, n

(* The error response ends it all. *)
LEMMA AppendError ==
    ASSUME NEW w, Clean(w), NEW e \in Item, e.kind = "error"
    PROVE  /\ InOrder(Append(w, e)) /\ DelimitedIfFollowed(Append(w, e))
           /\ \A i \in DOMAIN Append(w, e) : Append(w, e)[i].kind # "error" =>
                Append(w, e)[i].id < Cardinality(Heads(Append(w, e)))
  <1> DEFINE v == Append(w, e)
             n == Len(w) + 1
  <1>w. w \in Seq(Item)
    BY DEF Clean
  <1>1. /\ v \in Seq(Item) /\ DOMAIN w = 1 .. Len(w) /\ n \in Nat /\ Len(v) = n
        /\ DOMAIN v = DOMAIN w \cup {n} /\ n \notin DOMAIN w
        /\ \A i \in DOMAIN w : v[i] = w[i] /\ i < n
        /\ v[n] = e
    BY <1>w, AppendItem
  <1> HIDE DEF v, n
  <1>2. Heads(v) = Heads(w) /\ Heads(w) \subseteq DOMAIN w
    BY <1>1 DEF Heads
  <1>3. \A id : BodyOf(v, id) = BodyOf(w, id) /\ \A i \in BodyOf(w, id) : v[i] = w[i]
    BY <1>1 DEF BodyOf
  <1>4. InOrder(v)
    <2>1. \A i \in Heads(v) : v[i].id = Cardinality({j \in Heads(v) : j < i})
      BY <1>1, <1>2 DEF Clean, InOrder
    <2>2. \A i \in DOMAIN v : v[i].kind = "body" => i > 1 /\ v[i - 1].id = v[i].id
      <3> SUFFICES ASSUME NEW i \in DOMAIN w, w[i].kind = "body"
                   PROVE  i > 1 /\ v[i - 1].id = v[i].id
        BY <1>1
      <3>1. i > 1 /\ w[i - 1].id = w[i].id
        BY DEF Clean, InOrder
      <3>2. i - 1 \in DOMAIN w
        BY <1>1, <3>1
      <3> QED
        BY <1>1, <3>1, <3>2
    <2>3. \A i \in DOMAIN v : v[i].kind = "error" => i = Len(v)
      BY <1>1 DEF Clean
    <2> QED
      BY <2>1, <2>2, <2>3 DEF InOrder
  <1>5. DelimitedIfFollowed(v)
    BY <1>1, <1>2, <1>3, EndsTheSame DEF Clean, DelimitedIfFollowed
  <1>6. \A i \in DOMAIN v : v[i].kind # "error" => v[i].id < Cardinality(Heads(v))
    BY <1>1, <1>2 DEF Clean
  <1> QED
    BY <1>4, <1>5, <1>6 DEF v

-----------------------------------------------------------------------------
(* Steps that write nothing *)

ReplyInv == AnswerInv /\ FramingInv

LEMMA ReplyTypesHold ==
    ASSUME TypeOK
    PROVE  /\ tx \in ReplyData /\ tx.requestId \in Nat /\ tx.responseWrittenBytes \in Nat
           /\ tx.responseHeadersAppended \in BOOLEAN /\ tx.keepConnection \in BOOLEAN
           /\ context.response \in Response /\ out \in Seq(Item)
           /\ Len(requestQueue) \in Nat /\ NextPush \in Nat
           /\ Cardinality(Heads(out)) \in Nat
  <1>1. tx \in ReplyData /\ context \in Context /\ out \in Seq(Item)
    BY DEF TypeOK, ReplyTypes, HistoryTypes
  <1>2. NextPush \in Nat /\ Len(requestQueue) \in Nat
    BY QueueEntryTypes DEF NextPush
  <1> QED
    BY <1>1, <1>2, HeadsCount DEF ReplyData, Context

LEMMA AnswersClean == ASSUME TypeOK, ReplyInv, reply \notin {"error", "done"} PROVE Clean(out)
  BY ReplyTypesHold DEF ReplyInv, AnswerInv, FramingInv, ResponsesInOrder, ResponsesDelimited, Clean

LEMMA ReplyInit == Init => ReplyInv
  <1> SUFFICES ASSUME Init PROVE ReplyInv
    OBVIOUS
  <1>1. /\ out = <<>> /\ reply = "none" /\ requestQueue = <<>> /\ ~aborted
        /\ NextPush = 0 /\ ~Handling /\ ~context.response.failed
    BY DEF Init, NextPush, FreshReceiveData, Handling, NoResponse
  <1>2. DOMAIN out = {}
    BY <1>1
  <1>3. Heads(out) = {}
    BY <1>2 DEF Heads
  <1>4. Cardinality(Heads(out)) = 0 /\ Len(requestQueue) = 0
    BY <1>1, <1>3, FS_EmptySet
  <1> QED
    BY <1>1, <1>2, <1>3, <1>4 DEF ReplyInv, AnswerInv, FramingInv, Waiting, ResponsesInOrder,
       InOrder, ResponsesDelimited, DelimitedIfFollowed

(* A step of another part of the connection: requests that come in while   *)
(* the reply loop waits are queued behind those that were answered.        *)
LEMMA ReplyUnchanged ==
    ASSUME ReplyInv, UNCHANGED <<tx, context, out>>,
           reply' = reply \/ (reply = "none" /\ reply' = "pop"),
           Waiting' => Waiting /\ (Cardinality(Heads(out)) + Len(requestQueue) = NextPush
                                   => Cardinality(Heads(out)) + Len(requestQueue') = NextPush')
    PROVE  ReplyInv'
  <1>1. Handling' <=> Handling
    BY DEF Handling
  <1>2. AnswerInv'
    BY <1>1 DEF ReplyInv, AnswerInv, ResponsesInOrder
  <1>3. FramingInv'
    BY <1>1 DEF ReplyInv, FramingInv, ResponsesDelimited, SentAs
  <1> QED
    BY <1>2, <1>3 DEF ReplyInv

LEMMA ReplyEnvironment ==
    ASSUME TypeOK, PairingInv, ReplyInv,
           Start \/ Stop \/ TimerTick \/ Close \/ PeerCloses \/ ReadResolves
    PROVE  ReplyInv'
  <1>1. CASE Start
    <2>1. recv = "none" /\ recv' = "read" /\ UNCHANGED <<aborted, rx, requestQueue, tx, context, out>>
          /\ reply = "none" /\ reply' = "pop"
      BY <1>1 DEF Start, PairingInv, ControlInv
    <2>2. NextPush' = NextPush /\ (Waiting' => Waiting)
      BY <2>1 DEF NextPush, Waiting
    <2> QED
      BY <2>1, <2>2, ReplyUnchanged
  <1>2. CASE aborted' /\ UNCHANGED replyVars
    BY <1>2, ReplyUnchanged DEF Waiting
  <1>3. CASE UNCHANGED <<replyVars, queueVars, rx, recv>>
    BY <1>3, ReplyUnchanged DEF Waiting, NextPush
  <1>4. \/ Start
        \/ aborted' /\ UNCHANGED replyVars
        \/ UNCHANGED <<replyVars, queueVars, rx, recv>>
    BY DEF Stop, TimerTick, Close, PeerCloses, ReadResolves, Shutdown
  <1> QED
    BY <1>1, <1>2, <1>3, <1>4

(* While the connection is open, a request that enters the queue is the    *)
(* one that had to come next.                                              *)
LEMMA QueueGrows ==
    ASSUME TypeOK, PairingInv, ReceiveStep, ~aborted'
    PROVE  /\ ~aborted /\ UNCHANGED replyVars
           /\ \/ NextPush' = NextPush /\ requestQueue' = requestQueue
              \/ NextPush' = NextPush + 1 /\ Len(requestQueue') = Len(requestQueue) + 1
  <1>r. rx \in ReceiveData /\ rx.requestId \in Nat /\ requestQueue \in Seq(RequestEntry)
    BY DEF TypeOK, ReceiveTypes, ReceiveData, QueueTypes
  <1>1. CASE ReceiveFails \/ ReceiveEnds \/ ReceivePacket
    <2>1. ReceivePacket /\ recv = "read" /\ recv' = "parse"
          /\ UNCHANGED <<aborted, requestQueue, replyVars>>
      BY <1>1 DEF ReceiveFails, ReceiveEnds, ReceivePacket, Shutdown
    <2>2. rx'.requestId = rx.requestId /\ rx'.requestEnqueued = rx.requestEnqueued
      BY <1>r, <2>1 DEF ReceivePacket, ReceiveData
    <2> QED
      BY <2>1, <2>2 DEF NextPush
  <1>2. CASE \/ ParserRejects \/ on_message_begin \/ on_url \/ on_header_field \/ on_header_value
             \/ on_headers_complete \/ on_body \/ on_message_complete
    <2>1. UNCHANGED <<aborted, requestQueue, replyVars, recv>>
      BY <1>2 DEF ParserRejects, on_message_begin, on_url, on_header_field,
         on_header_value, on_headers_complete, on_body, on_message_complete, RefuseData, Refuse,
         Accept
    <2>2. rx'.requestId = rx.requestId /\ rx'.requestEnqueued = rx.requestEnqueued
      BY <1>2, <1>r DEF ParserRejects, on_message_begin, on_url, on_header_field,
         on_header_value, on_headers_complete, on_body, on_message_complete, RefuseData, Refuse,
         ReceiveData
    <2> QED
      BY <2>1, <2>2 DEF NextPush
  <1>3. CASE ParseReturns
    BY <1>3 DEF ParseReturns, Shutdown, NextPush
  <1>4. CASE EnqueueBodyBuffer \/ PushBody
    <2>1. UNCHANGED <<aborted, requestQueue, replyVars>>
      BY <1>4 DEF EnqueueBodyBuffer, PushBody
    <2>2. rx'.requestId = rx.requestId /\ rx'.requestEnqueued = rx.requestEnqueued
          /\ recv # "pushRequest" /\ recv' # "pushRequest"
      BY <1>4, <1>r DEF EnqueueBodyBuffer, PushBody, ReceiveData
    <2> QED
      BY <2>1, <2>2 DEF NextPush
  <1>5. CASE EnqueueAndContinue \/ PushRequest
    <2>1. UNCHANGED <<aborted, replyVars>> /\ ~aborted /\ state # "Closing"
      BY <1>5 DEF EnqueueAndContinue, PushRequest, PairingInv, ControlInv
    <2> DEFINE queued == [rx EXCEPT !.requestEnqueued = TRUE]
               Continues(data) == /\ recv' = "read"
                                  /\ \/ rx' = data /\ state # "ReceiveRequestMessageComplete"
                                     \/ /\ rx'.requestId = data.requestId + 1 /\ ~rx'.requestEnqueued
                                        /\ state = "ReceiveRequestMessageComplete"
    <2>2. \A data, request : ContinueReceiving(data, request) => Continues(data)
      BY <2>1 DEF ContinueReceiving, FreshReceiveData
    <2>q. queued.requestId = rx.requestId /\ queued.requestEnqueued
      BY <1>r DEF ReceiveData
    <2>3. CASE EnqueueAndContinue
      <3>0. recv \in {"enqueue", "enqueueBody"}
        BY <2>3 DEF EnqueueAndContinue
      <3>1. \/ /\ ContinueReceiving(rx, newRequest) /\ requestQueue' = requestQueue
               /\ rx.requestEnqueued \/ state # "ReceiveRequestMessageComplete"
            \/ /\ ~rx.requestEnqueued /\ ContinueReceiving(queued, NoRequest)
               /\ \E e : requestQueue' = Append(requestQueue, e)
            \/ /\ ~rx.requestEnqueued /\ rx' = queued /\ recv' = "pushRequest"
               /\ requestQueue' = requestQueue
        BY <2>3 DEF EnqueueAndContinue, EnqueueRequest
      <3>2. CASE /\ ContinueReceiving(rx, newRequest) /\ requestQueue' = requestQueue
                 /\ rx.requestEnqueued \/ state # "ReceiveRequestMessageComplete"
        BY <1>r, <2>1, <2>2, <3>0, <3>2 DEF NextPush
      <3>3. CASE /\ ~rx.requestEnqueued /\ ContinueReceiving(queued, NoRequest)
                 /\ \E e : requestQueue' = Append(requestQueue, e)
        <4>1. Continues(queued) /\ NextPush = rx.requestId
          BY <2>2, <3>3 DEF NextPush
        <4>2. NextPush' = NextPush + 1
          BY <2>q, <4>1 DEF NextPush
        <4>3. Len(requestQueue') = Len(requestQueue) + 1
          BY <1>r, <3>3
        <4> QED
          BY <2>1, <4>2, <4>3
      <3>4. CASE /\ ~rx.requestEnqueued /\ rx' = queued /\ recv' = "pushRequest"
                 /\ requestQueue' = requestQueue
        BY <2>1, <2>q, <3>4 DEF NextPush
      <3> QED
        BY <3>1, <3>2, <3>3, <3>4
    <2>4. CASE PushRequest
      <3>1. /\ recv = "pushRequest" /\ requestQueue' = requestQueue \o pushing
            /\ ContinueReceiving(rx, newRequest)
        BY <2>1, <2>4 DEF PushRequest
      <3>2. Len(requestQueue') = Len(requestQueue) + 1
        <4>1. pushing \in Seq(RequestEntry) /\ Len(pushing) = 1
          BY <3>1 DEF TypeOK, QueueTypes
        <4>2. pushing[1] \in RequestEntry /\ requestQueue' = Append(requestQueue, pushing[1])
          BY <1>r, <3>1, <4>1, ConcatOne
        <4> QED
          BY <1>r, <4>2
      <3>3. rx.requestEnqueued
        BY <3>1 DEF PairingInv, PushingInv
      <3>4. NextPush = rx.requestId /\ NextPush' = rx.requestId + 1
        BY <2>2, <3>1, <3>3 DEF NextPush
      <3> QED
        BY <2>1, <3>2, <3>4
    <2> QED
      BY <1>5, <2>3, <2>4
  <1> QED
    BY <1>1, <1>2, <1>3, <1>4, <1>5 DEF ReceiveStep

LEMMA ReplyReceive == ASSUME TypeOK, PairingInv, ReplyInv, ReceiveStep PROVE ReplyInv'
  <1>1. UNCHANGED replyVars
    BY DEF ReceiveStep, ReceiveFails, ReceiveEnds, ReceivePacket, ParserRejects,
       on_message_begin, on_url, on_header_field, on_header_value, on_headers_complete, on_body,
       on_message_complete, RefuseData, Refuse, Accept, ParseReturns, EnqueueBodyBuffer, PushBody,
       EnqueueAndContinue, PushRequest
  <1>2. CASE aborted'
    BY <1>1, <1>2, ReplyUnchanged DEF Waiting
  <1>3. CASE ~aborted'
    <2>1. /\ ~aborted
          /\ \/ NextPush' = NextPush /\ requestQueue' = requestQueue
             \/ NextPush' = NextPush + 1 /\ Len(requestQueue') = Len(requestQueue) + 1
      BY <1>3, QueueGrows
    <2>2. Waiting' => Waiting
      BY <1>1, <2>1 DEF Waiting
    <2>3. Cardinality(Heads(out)) + Len(requestQueue) = NextPush
            => Cardinality(Heads(out)) + Len(requestQueue') = NextPush'
      <3> DEFINE c == Cardinality(Heads(out))
      <3>1. c \in Nat /\ Len(requestQueue) \in Nat /\ NextPush \in Nat
        BY ReplyTypesHold
      <3> HIDE DEF c
      <3>2. c + Len(requestQueue) = NextPush => c + Len(requestQueue') = NextPush'
        BY <2>1, <3>1
      <3> QED
        BY <3>2 DEF c
    <2> QED
      BY <1>1, <2>2, <2>3, ReplyUnchanged
  <1> QED
    BY <1>2, <1>3

-----------------------------------------------------------------------------
(* The reply loop waits for the next request, or ends. *)

LEMMA ErrorItemType == ASSUME TypeOK PROVE ErrorItem \in Item /\ ErrorItem.kind = "error"
  BY FreshTypes, ReplyTypesHold DEF ErrorItem, Item

(* What holds when the loop starts over, with `w` written *)
LEMMA EnterKeeps ==
    ASSUME TypeOK, ReplyInv, NEW w, Clean(w), NEW closing, EnterReplyLoop(closing, w),
           UNCHANGED context,
           ~closing /\ ~aborted' => /\ Cardinality(Heads(w)) + Len(requestQueue') = NextPush'
                                   /\ \A h \in Heads(w) : EndsBeforeNext(w, h)
    PROVE  ReplyInv'
  <1>1. CASE ~closing
    <2>1. reply' = "pop" /\ out' = w /\ ~Handling'
      BY <1>1 DEF EnterReplyLoop, Handling
    <2>2. AnswerInv'
      BY <1>1, <2>1 DEF AnswerInv, Waiting, ResponsesInOrder, Clean
    <2>3. FramingInv'
      BY <1>1, <2>1 DEF ReplyInv, FramingInv, Waiting, ResponsesDelimited, Clean
    <2> QED
      BY <2>2, <2>3 DEF ReplyInv
  <1>2. CASE closing
    <2>1. reply' \in {"done", "error"} /\ ~Handling' /\ ~Waiting' /\ reply' # "flush"
      BY <1>2 DEF EnterReplyLoop, Handling, Waiting
    <2>2. out' = w \/ out' = Append(w, ErrorItem)
      BY <1>2 DEF EnterReplyLoop
    <2>3. /\ InOrder(out') /\ DelimitedIfFollowed(out')
          /\ \A i \in DOMAIN out' : out'[i].kind # "error" => out'[i].id < Cardinality(Heads(out'))
      <3>1. CASE out' = w
        BY <3>1 DEF Clean
      <3>2. CASE out' = Append(w, ErrorItem)
        BY <3>2, ErrorItemType, AppendError
      <3> QED
        BY <2>2, <3>1, <3>2
    <2>4. AnswerInv'
      BY <2>1, <2>3 DEF AnswerInv, ResponsesInOrder
    <2>5. FramingInv'
      BY <2>1, <2>3 DEF ReplyInv, FramingInv, ResponsesDelimited
    <2> QED
      BY <2>4, <2>5 DEF ReplyInv
  <1> QED
    BY <1>1, <1>2

LEMMA ReplyPop == ASSUME TypeOK, PairingInv, ReplyInv, PopRequest \/ PopAborted PROVE ReplyInv'
  <1>1. CASE PopRequest
    <2> DEFINE e == Head(requestQueue)
    <2>1. /\ reply = "pop" /\ ~aborted /\ requestQueue # <<>> /\ reply' = "handle" /\ out' = out
          /\ tx' = [FreshReplyData EXCEPT !.requestId = e.id, !.requestBodyConsumed = ~e.hasBody]
      BY <1>1 DEF PopRequest
    <2>2. e = requestQueue[1] /\ 1 \in DOMAIN requestQueue
      BY <2>1 DEF TypeOK, QueueTypes
    <2> HIDE DEF e
    <2>3. /\ tx'.requestId = e.id /\ ~tx'.responseHeadersAppended
          /\ tx'.responseWrittenBytes = 0
      BY <2>1 DEF FreshReplyData
    <2>f. ~context'.response.failed
      BY <1>1, LimitsAssumption DEF PopRequest
    <2>4. Cardinality(Heads(out)) = e.id
      <3>1. e.id + Len(requestQueue) + 1 = NextPush + 1
        BY <2>1, <2>2 DEF PairingInv, RequestIdsInv
      <3>2. Cardinality(Heads(out)) + Len(requestQueue) = NextPush
        BY <2>1 DEF ReplyInv, AnswerInv, Waiting
      <3> DEFINE c == Cardinality(Heads(out))
                 d == e.id
      <3>3. c \in Nat /\ Len(requestQueue) \in Nat /\ d \in Nat /\ NextPush \in Nat
        BY <2>2, ReplyTypesHold, QueueEntryTypes
      <3> HIDE DEF c, d
      <3>4. c = d
        BY <3>1, <3>2, <3>3 DEF c, d
      <3> QED
        BY <3>4 DEF c, d
    <2>5. Clean(out) /\ Handling' /\ ~Waiting'
      BY <2>1, AnswersClean DEF Handling, Waiting
    <2>6. AnswerInv'
      <3>1. e.id + 0 = e.id
        BY <2>2, QueueEntryTypes
      <3> QED
        BY <2>1, <2>3, <2>4, <2>5, <3>1 DEF AnswerInv, Clean, ResponsesInOrder
    <2>7. FramingInv'
      <3>1. BodyOf(out, e.id) = {}
        BY <2>4, <2>5, WrittenTypes, HeadsCount DEF Clean, BodyOf
      <3>2. Cardinality(BodyOf(out, e.id)) = 0
        BY <3>1, FS_EmptySet
      <3>3. \A h \in Heads(out) : EndsBeforeNext(out, h)
        BY <2>1 DEF ReplyInv, FramingInv, Waiting
      <3> QED
        BY <2>1, <2>3, <2>5, <2>f, <3>1, <3>2, <3>3 DEF FramingInv, Clean, ResponsesDelimited
    <2> QED
      BY <2>6, <2>7 DEF ReplyInv
  <1>2. CASE PopAborted
    <2>1. EnterReplyLoop(TRUE, out) /\ reply = "pop" /\ UNCHANGED context
      BY <1>2 DEF PopAborted
    <2>2. Clean(out)
      BY <2>1, AnswersClean
    <2> QED
      BY <2>1, <2>2, EnterKeeps
  <1> QED
    BY <1>1, <1>2

-----------------------------------------------------------------------------
(* The handlers *)

LEMMA HeadItemType ==
    ASSUME TypeOK, NEW response \in Response
    PROVE  /\ HeadItem(response) \in Item /\ HeadItem(response).kind = "head"
           /\ HeadItem(response).id = tx.requestId /\ HeadItem(response).response = response
  BY ReplyTypesHold DEF HeadItem, Item

LEMMA BodyItemType ==
    ASSUME TypeOK, NEW response \in Response
    PROVE  /\ BodyItem(response) \in Item /\ BodyItem(response).kind = "body"
           /\ BodyItem(response).id = tx.requestId /\ BodyItem(response).response = response
  BY ReplyTypesHold DEF BodyItem, Item

(* What appendResponseHeaders() does, as one sequence and one record *)
LEMMA HeadersAppended ==
    ASSUME TypeOK, NEW response \in Response
    PROVE  /\ out \o Headers(response) = IF tx.responseHeadersAppended THEN out
                                          ELSE Append(out, HeadItem(response))
           /\ AppendResponseHeaders(response) \in ReplyData
           /\ AppendResponseHeaders(response).requestId = tx.requestId
           /\ AppendResponseHeaders(response).requestBodyConsumed = tx.requestBodyConsumed
           /\ AppendResponseHeaders(response).responseWrittenBytes = tx.responseWrittenBytes
           /\ AppendResponseHeaders(response).responseHeadersAppended
           /\ AppendResponseHeaders(response).keepConnection =
                IF tx.responseHeadersAppended THEN tx.keepConnection
                ELSE KeepaliveByConnectionHeader(response)
  <1>1. out \in Seq(Item) /\ HeadItem(response) \in Item /\ tx \in ReplyData
    BY ReplyTypesHold, HeadItemType
  <1>2. out \o <<HeadItem(response)>> = Append(out, HeadItem(response))
    BY <1>1, AppendIsConcat
  <1>3. out \o <<>> = out
    BY <1>1, ConcatEmptySeq
  <1>4. AppendResponseHeaders(response) \in ReplyData
    BY TypeResponseHeaders
  <1> QED
    BY <1>1, <1>2, <1>3, <1>4 DEF Headers, AppendResponseHeaders, ReplyData

(* Clean output whose last response belongs to the request being handled,  *)
(* headers included                                                        *)
Headed(w, response) ==
    /\ Clean(w) /\ w # <<>> /\ w[Len(w)].id = tx.requestId
    /\ Cardinality(Heads(w)) = tx.requestId + 1
    /\ BodyOf(w, tx.requestId) = BodyOf(out, tx.requestId)
    /\ \A n \in BodyOf(out, tx.requestId) : w[n] = out[n]
    /\ tx.responseHeadersAppended => w = out
    /\ ~tx.responseHeadersAppended =>
         \E h \in Heads(w) : /\ w[h].id = tx.requestId /\ w[h].response = response
                             /\ \A g \in Heads(w) : g # h => EndsBeforeNext(w, g)

LEMMA WithHeaders ==
    ASSUME TypeOK, ReplyInv, Handling, NEW response \in Response,
           NEW w, w = out \o Headers(response)
    PROVE  Headed(w, response)
  <1>1. Clean(out)
    BY AnswersClean DEF Handling
  <1>2. CASE tx.responseHeadersAppended
    BY <1>1, <1>2, HeadersAppended DEF ReplyInv, AnswerInv, Headed
  <1>3. CASE ~tx.responseHeadersAppended
    <2> DEFINE e == HeadItem(response)
    <2>1. w = Append(out, e) /\ e \in Item /\ e.kind = "head" /\ e.id = tx.requestId
          /\ e.response = response
      BY <1>3, HeadersAppended, HeadItemType
    <2> HIDE DEF e
    <2>2. e.id = Cardinality(Heads(out)) /\ \A h \in Heads(out) : EndsBeforeNext(out, h)
      BY <1>3, <2>1, ReplyTypesHold DEF ReplyInv, AnswerInv, FramingInv
    <2>3. /\ Clean(w) /\ Cardinality(Heads(w)) = e.id + 1
          /\ Len(out) + 1 \in Heads(w) /\ w[Len(out) + 1] = e
          /\ Heads(w) = Heads(out) \cup {Len(out) + 1}
          /\ \A id : BodyOf(w, id) = BodyOf(out, id) /\ \A n \in BodyOf(out, id) : w[n] = out[n]
          /\ \A h \in Heads(out) : EndsBeforeNext(w, h)
      <3>1. /\ Clean(out) /\ e \in Item /\ e.kind = "head" /\ e.id = Cardinality(Heads(out))
            /\ \A h \in Heads(out) : EndsBeforeNext(out, h)
        BY <1>1, <2>1, <2>2
      <3>2. /\ Clean(Append(out, e)) /\ Cardinality(Heads(Append(out, e))) = e.id + 1
            /\ Len(out) + 1 \in Heads(Append(out, e)) /\ Append(out, e)[Len(out) + 1] = e
            /\ Heads(Append(out, e)) = Heads(out) \cup {Len(out) + 1}
            /\ \A id : /\ BodyOf(Append(out, e), id) = BodyOf(out, id)
                       /\ \A n \in BodyOf(out, id) : Append(out, e)[n] = out[n]
            /\ \A h \in Heads(out) : EndsBeforeNext(Append(out, e), h)
        BY <3>1, AppendHead, Zenon
      <3> QED
        BY <2>1, <3>2, Zenon
    <2>4. w # <<>> /\ Len(w) = Len(out) + 1
      BY <2>1, ReplyTypesHold, AppendItem
    <2> QED
      BY <1>3, <2>1, <2>3, <2>4 DEF Headed
  <1> QED
    BY <1>2, <1>3

LEMMA CurrentHead ==
    ASSUME ReplyInv, Handling, tx.responseHeadersAppended
    PROVE  \E h \in Heads(out) : /\ out[h].id = tx.requestId /\ SentAs(out[h].response)
                                 /\ tx.keepConnection => ~out[h].response.close
  BY Zenon DEF ReplyInv, FramingInv

(* While a handler runs or its response is flushed, what holds of the      *)
(* response it fills in                                                    *)
LEMMA HandlingFramed ==
    ASSUME ReplyInv, Handling, Handling', ~Waiting', Clean(out'),
           tx'.responseHeadersAppended,
           context'.response.failed =>
             context'.response.fixed /\ context'.response.length = 1,
           tx'.responseWrittenBytes = Cardinality(BodyOf(out', tx'.requestId)),
           context'.response.failed <=>
             \E n \in BodyOf(out', tx'.requestId) : out'[n].response.failed,
           \E h \in Heads(out') : /\ out'[h].id = tx'.requestId /\ SentAs(out[h].response)'
                                  /\ tx'.keepConnection => ~out'[h].response.close,
           reply' = "flush" /\ tx'.keepConnection => \A h \in Heads(out') : EndsBeforeNext(out', h)
    PROVE  FramingInv'
  BY Zenon DEF FramingInv, ResponsesDelimited, Clean

(* A step that sends the headers of the handler's response unless they     *)
(* were sent, and nothing behind them                                      *)
LEMMA ReplyHeaders ==
    ASSUME TypeOK, ReplyInv, Handling, Handling', reply' # "flush" \/ ~tx'.keepConnection
             \/ \A h \in Heads(out') : EndsBeforeNext(out', h),
           out' = out \o Headers(context.response), UNCHANGED context,
           NEW data, data = AppendResponseHeaders(context.response),
           tx'.requestId = data.requestId,
           tx'.responseHeadersAppended,
           tx'.responseWrittenBytes = data.responseWrittenBytes,
           tx'.keepConnection => data.keepConnection
    PROVE  ReplyInv'
  <1>1. Headed(out', context.response)
    BY WithHeaders, ReplyTypesHold
  <1>2. /\ data.requestId = tx.requestId
        /\ data.responseWrittenBytes = tx.responseWrittenBytes
        /\ data.keepConnection = IF tx.responseHeadersAppended THEN tx.keepConnection
                                 ELSE KeepaliveByConnectionHeader(context.response)
    BY HeadersAppended, ReplyTypesHold
  <1>3. ~Waiting' /\ reply' \notin {"error", "done"}
    BY DEF Handling, Waiting
  <1>4. AnswerInv'
    BY <1>1, <1>2, <1>3 DEF AnswerInv, Headed, Clean, ResponsesInOrder
  <1>5. \E h \in Heads(out') : /\ out'[h].id = tx'.requestId /\ SentAs(out[h].response)'
                               /\ tx'.keepConnection => ~out'[h].response.close
    <2>1. CASE tx.responseHeadersAppended
      <3>1. PICK h \in Heads(out) : /\ out[h].id = tx.requestId /\ SentAs(out[h].response)
                                    /\ tx.keepConnection => ~out[h].response.close
        BY <2>1, CurrentHead
      <3>2. out' = out
        BY <1>1, <2>1 DEF Headed
      <3>3. SentAs(out[h].response)'
        BY <3>1, <3>2 DEF SentAs
      <3> QED
        BY <1>2, <2>1, <3>1, <3>2, <3>3
    <2>2. CASE ~tx.responseHeadersAppended
      <3>1. PICK h \in Heads(out') : out'[h].id = tx.requestId /\ out'[h].response = context.response
        BY <1>1, <2>2 DEF Headed
      <3>2. SentAs(out[h].response)'
        BY <3>1 DEF SentAs
      <3>3. tx'.keepConnection => ~out'[h].response.close
        BY <1>2, <2>2, <3>1 DEF KeepaliveByConnectionHeader
      <3> QED
        BY <1>2, <3>1, <3>2, <3>3
    <2> QED
      BY <2>1, <2>2
  <1>6. tx'.responseWrittenBytes = Cardinality(BodyOf(out', tx'.requestId))
    BY <1>1, <1>2 DEF ReplyInv, FramingInv, Headed
  <1>7. context'.response.failed <=> \E n \in BodyOf(out', tx'.requestId) : out'[n].response.failed
    <2>1. context.response.failed <=> \E n \in BodyOf(out, tx.requestId) : out[n].response.failed
      BY DEF ReplyInv, FramingInv
    <2>2. /\ BodyOf(out', tx.requestId) = BodyOf(out, tx.requestId)
          /\ \A n \in BodyOf(out, tx.requestId) : out'[n] = out[n]
      BY <1>1 DEF Headed
    <2> QED
      BY <1>2, <2>1, <2>2
  <1>8. context'.response.failed => context'.response.fixed /\ context'.response.length = 1
    BY DEF ReplyInv, FramingInv
  <1>9. Clean(out')
    BY <1>1 DEF Headed
  <1> QED
    BY <1>3, <1>4, <1>5, <1>6, <1>7, <1>8, <1>9, HandlingFramed DEF ReplyInv

(* A step that writes a piece of a body, with the response as it is or as  *)
(* the 500 handler leaves it                                               *)
LEMMA ReplyWrites ==
    ASSUME TypeOK, PairingInv, ReplyInv, reply \in {"handle", "read", "write"},
           NEW response \in Response, WriteBody(response),
           reply' \in {"write", "catch"}, context'.response = response,
           response \in {context.response, ResponseOf500}
    PROVE  ReplyInv'
  <1> DEFINE data == AppendResponseHeaders(response)
             e == BodyItem(response)
  <1>w. PICK w : w = out \o Headers(response)
    OBVIOUS
  <1>1. /\ out' = w \o <<e>>
        /\ tx' = [data EXCEPT !.responseWrittenBytes = @ + 1]
    BY <1>w DEF WriteBody
  <1>2. Handling /\ Handling' /\ ~Waiting' /\ reply' # "flush" /\ reply # "flush"
    BY DEF Handling, Waiting
  <1>e. e \in Item /\ e.kind = "body" /\ e.id = tx.requestId /\ e.response = response
    BY BodyItemType
  <1>4. /\ data \in ReplyData /\ data.requestId = tx.requestId
        /\ data.responseWrittenBytes = tx.responseWrittenBytes /\ data.responseHeadersAppended
        /\ data.keepConnection = IF tx.responseHeadersAppended THEN tx.keepConnection
                                 ELSE KeepaliveByConnectionHeader(response)
    BY HeadersAppended
  <1> HIDE DEF data, e
  <1>h. Headed(w, response)
    BY <1>2, <1>w, WithHeaders
  <1>3. /\ Clean(w) /\ w # <<>> /\ w[Len(w)].id = tx.requestId
        /\ Cardinality(Heads(w)) = tx.requestId + 1
        /\ BodyOf(w, tx.requestId) = BodyOf(out, tx.requestId)
        /\ \A n \in BodyOf(out, tx.requestId) : w[n] = out[n]
        /\ tx.responseHeadersAppended => w = out
        /\ ~tx.responseHeadersAppended =>
             \E h \in Heads(w) : w[h].id = tx.requestId /\ w[h].response = response
    BY <1>h DEF Headed
  <1>5. /\ tx'.requestId = tx.requestId /\ tx'.responseHeadersAppended
        /\ tx'.responseWrittenBytes = tx.responseWrittenBytes + 1
        /\ tx'.keepConnection = data.keepConnection
    BY <1>1, <1>4 DEF ReplyData
  <1>6. out' = Append(w, e)
    BY <1>1, <1>3, <1>e, AppendIsConcat DEF Clean
  <1>7. /\ Clean(out') /\ Heads(out') = Heads(w) /\ \A h \in Heads(w) : out'[h] = w[h]
        /\ Cardinality(BodyOf(out', tx.requestId)) = Cardinality(BodyOf(w, tx.requestId)) + 1
        /\ BodyOf(out', tx.requestId) = BodyOf(w, tx.requestId) \cup {Len(w) + 1}
        /\ \A n \in BodyOf(w, tx.requestId) : out'[n] = w[n]
        /\ out'[Len(w) + 1] = e
        /\ out' # <<>> /\ out'[Len(out')].id = tx.requestId
    <2>1. /\ Clean(w) /\ e \in Item /\ e.kind = "body" /\ w # <<>>
          /\ Cardinality(Heads(w)) = e.id + 1 /\ w[Len(w)].id = e.id
      BY <1>3, <1>e
    <2>2. /\ Clean(Append(w, e))
          /\ Heads(Append(w, e)) = Heads(w) /\ \A h \in Heads(w) : Append(w, e)[h] = w[h]
          /\ Cardinality(BodyOf(Append(w, e), e.id)) = Cardinality(BodyOf(w, e.id)) + 1
          /\ BodyOf(Append(w, e), e.id) = BodyOf(w, e.id) \cup {Len(w) + 1}
          /\ \A n \in BodyOf(w, e.id) : Append(w, e)[n] = w[n]
          /\ Append(w, e)[Len(w) + 1] = e
          /\ Append(w, e) # <<>> /\ Append(w, e)[Len(Append(w, e))] = e
      BY <2>1, AppendBody, Zenon
    <2> QED
      BY <1>6, <1>e, <2>2
  <1>8. AnswerInv'
    BY <1>2, <1>3, <1>5, <1>7 DEF AnswerInv, Clean, ResponsesInOrder
  <1>r. /\ context.response \in Response
        /\ context.response.failed => context.response.fixed /\ context.response.length = 1
        /\ context.response.failed <=>
             \E n \in BodyOf(out, tx.requestId) : out[n].response.failed
    BY <1>2, ReplyTypesHold DEF ReplyInv, FramingInv
  <1>f. /\ response.failed => response.fixed /\ response.length = 1
        /\ context.response.failed => response = context.response
        /\ response # context.response => response.failed
    <2>1. ResponseOf500.fixed /\ ResponseOf500.length = 1 /\ ResponseOf500.failed
      BY <1>r DEF ResponseOf500, Response
    <2>2. context.response.failed => ResponseOf500 = context.response
      BY <1>r DEF ResponseOf500, Response
    <2> QED
      BY <1>r, <2>1, <2>2
  <1>9. FramingInv'
    <2>1. tx'.responseWrittenBytes = Cardinality(BodyOf(out', tx.requestId))
      BY <1>2, <1>3, <1>5, <1>7 DEF ReplyInv, FramingInv
    <2>2. response.failed <=> \E n \in BodyOf(out', tx.requestId) : out'[n].response.failed
      <3>1. (\E n \in BodyOf(out', tx.requestId) : out'[n].response.failed)
              <=> context.response.failed \/ response.failed
        BY <1>3, <1>7, <1>e, <1>r
      <3> QED
        BY <1>f, <3>1
    <2>3. \E h \in Heads(out') : /\ out'[h].id = tx'.requestId /\ SentAs(out[h].response)'
                                 /\ tx'.keepConnection => ~out'[h].response.close
      <3>1. CASE ~tx.responseHeadersAppended
        <4>1. PICK h \in Heads(w) : w[h].id = tx.requestId /\ w[h].response = response
          BY <1>3, <3>1
        <4>2. out'[h].id = tx'.requestId /\ out'[h].response = response
          BY <1>5, <1>7, <4>1
        <4> QED
          BY <1>4, <1>5, <1>7, <3>1, <4>1, <4>2 DEF SentAs, KeepaliveByConnectionHeader
      <3>2. CASE tx.responseHeadersAppended
        <4>1. PICK h \in Heads(out) : /\ out[h].id = tx.requestId /\ SentAs(out[h].response)
                                      /\ tx.keepConnection => ~out[h].response.close
          BY <1>2, <3>2, CurrentHead
        <4>2. h \in Heads(out') /\ out'[h] = out[h]
          BY <1>3, <1>7, <3>2, <4>1
        <4>3. SentAs(out[h].response)'
          BY <1>f, <4>1, <4>2 DEF SentAs
        <4> QED
          BY <1>4, <1>5, <3>2, <4>1, <4>2, <4>3
      <3> QED
        BY <3>1, <3>2
    <2>4. response.failed => response.fixed /\ response.length = 1
      BY <1>f
    <2> QED
      BY <1>2, <1>5, <1>7, <2>1, <2>2, <2>3, <2>4, HandlingFramed
  <1> QED
    BY <1>8, <1>9 DEF ReplyInv

(* A step of a handler that writes nothing *)
LEMMA ReplyHandling ==
    ASSUME TypeOK, ReplyInv, Handling, Handling', reply # "flush", reply' # "flush",
           reply' \in {"write", "catch", "caught"} => tx.responseHeadersAppended,
           UNCHANGED <<context, out>>,
           tx'.requestId = tx.requestId,
           tx'.responseHeadersAppended = tx.responseHeadersAppended,
           tx'.responseWrittenBytes = tx.responseWrittenBytes,
           tx'.keepConnection = tx.keepConnection
    PROVE  ReplyInv'
  <1>1. ~Waiting' /\ reply \notin {"error", "done"}
    BY DEF Handling, Waiting
  <1>2. AnswerInv'
    BY <1>1 DEF ReplyInv, AnswerInv, ResponsesInOrder
  <1>3. FramingInv'
    BY <1>1 DEF ReplyInv, FramingInv, ResponsesDelimited, SentAs
  <1> QED
    BY <1>2, <1>3 DEF ReplyInv

LEMMA ReplyWith500 ==
    ASSUME TypeOK, PairingInv, ReplyInv, reply \in {"handle", "read", "write"}, Reply500
    PROVE  ReplyInv'
  <1>1. ResponseOf500 \in Response
    BY ReplyTypesHold DEF Response, ResponseOf500
  <1>2. /\ WriteBody(ResponseOf500) /\ reply' = "catch"
        /\ context' = [context EXCEPT !.response = ResponseOf500]
    BY DEF Reply500
  <1>3. context'.response = ResponseOf500
    BY <1>2 DEF TypeOK, ReplyTypes, Context
  <1> QED
    BY <1>1, <1>2, <1>3, ReplyWrites

LEMMA ReplyReads ==
    ASSUME TypeOK, PairingInv, ReplyInv, reply \in {"handle", "read"}, TakeBody \/ ReadAborted
    PROVE  ReplyInv'
  <1>1. CASE Reply500
    BY <1>1, ReplyWith500
  <1>2. CASE /\ tx' = [tx EXCEPT !.requestBodyConsumed = @ \/ Head(requestBodyQueue).isEnd]
             /\ reply' = "handle" /\ UNCHANGED <<context, out>>
    <2>1. /\ tx'.requestId = tx.requestId /\ tx'.keepConnection = tx.keepConnection
          /\ tx'.responseHeadersAppended = tx.responseHeadersAppended
          /\ tx'.responseWrittenBytes = tx.responseWrittenBytes
      BY <1>2, ReplyTypesHold DEF ReplyData
    <2> QED
      BY <1>2, <2>1, ReplyHandling DEF Handling
  <1> QED
    BY <1>1, <1>2 DEF TakeBody, ReadAborted

LEMMA ReplyHandler ==
    ASSUME TypeOK, PairingInv, ReplyInv, HandlerReads \/ ReadResumes \/ HandlerWrites \/ HandlerThrows
    PROVE  ReplyInv'
  <1>1. CASE HandlerReads
    <2>1. CASE TakeBody \/ ReadAborted
      BY <1>1, <2>1, ReplyReads DEF HandlerReads
    <2>2. CASE reply' = "read" /\ UNCHANGED <<context, tx, out>>
      BY <1>1, <2>2, ReplyHandling DEF HandlerReads, Handling
    <2> QED
      BY <1>1, <2>1, <2>2 DEF HandlerReads
  <1>2. CASE ReadResumes
    BY <1>2, ReplyReads DEF ReadResumes
  <1>3. CASE HandlerWrites
    <2>1. reply = "handle" /\ reply' = "write" /\ UNCHANGED context
      BY <1>3 DEF HandlerWrites
    <2>2. CASE WriteBody(context.response)
      BY <2>1, <2>2, ReplyWrites, ReplyTypesHold
    <2>3. CASE WriteNothing(context.response)
      <3>1. Handling /\ Handling'
        BY <2>1 DEF Handling
      <3>2. /\ out' = out \o Headers(context.response)
            /\ tx' = AppendResponseHeaders(context.response)
        BY <2>3 DEF WriteNothing
      <3>3. tx'.responseHeadersAppended
        BY <3>2, HeadersAppended, ReplyTypesHold
      <3> QED
        BY <2>1, <3>1, <3>2, <3>3, ReplyHeaders
    <2> QED
      BY <1>3, <2>2, <2>3 DEF HandlerWrites
  <1>4. CASE HandlerThrows
    BY <1>4, ReplyWith500 DEF HandlerThrows
  <1> QED
    BY <1>1, <1>2, <1>3, <1>4

-----------------------------------------------------------------------------
(* A response is finished *)

(* When the next request may come, the last one was answered. *)
LEMMA NextAfterHandled ==
    ASSUME TypeOK, PairingInv, Handling, ~aborted, NEW c, c = tx.requestId + 1
    PROVE  c + Len(requestQueue) = NextPush
  BY HandledIsReceived, ReplyTypesHold

(* A response whose headers were sent as it is, or before it failed, and   *)
(* whose length was compared with what was written                         *)
LEMMA ComparedEnds ==
    ASSUME NEW w, NEW h, NEW response \in Response, ~w[h].response.close,
           \/ w[h].response = response
           \/ ~w[h].response.failed /\ response.failed,
           NEW body, body = BodyOf(w, w[h].id),
           response.failed => response.fixed /\ response.length = 1,
           response.failed <=> \E n \in body : w[n].response.failed,
           IF response.fixed THEN response.length = Cardinality(body) ELSE response.chunked
    PROVE  EndsBeforeNext(w, h)
  <1>1. CASE response.failed /\ (w[h].response.chunked \/ ~w[h].response.failed)
    BY <1>1 DEF EndsBeforeNext, MessageMisplaced
  <1>2. CASE ~(response.failed /\ (w[h].response.chunked \/ ~w[h].response.failed))
    <2>1. w[h].response = response
      BY <1>2
    <2>2. Delimited(w, h)
      BY <1>2, <2>1 DEF Delimited, Response
    <2> QED
      BY <2>2 DEF EndsBeforeNext
  <1> QED
    BY <1>1, <1>2

(* The connection is kept: what was announced has been written. *)
LEMMA KeptIsDelimited ==
    ASSUME TypeOK, ReplyInv, Handling, NEW w, Headed(w, context.response),
           NEW data, data = AppendResponseHeaders(context.response),
           data.keepConnection, KeepaliveByContentLength(data)
    PROVE  \A h \in Heads(w) : EndsBeforeNext(w, h)
  <1> DEFINE body == BodyOf(w, tx.requestId)
  <1>1. /\ context.response \in Response /\ tx.requestId \in Nat
        /\ tx.responseHeadersAppended \in BOOLEAN
    BY ReplyTypesHold
  <1>2. /\ data.responseWrittenBytes = tx.responseWrittenBytes
        /\ data.keepConnection = IF tx.responseHeadersAppended THEN tx.keepConnection
                                 ELSE KeepaliveByConnectionHeader(context.response)
    BY <1>1, HeadersAppended
  <1>3. tx.responseWrittenBytes = Cardinality(body)
    BY DEF ReplyInv, FramingInv, Headed
  <1>4. IF context.response.fixed THEN context.response.length = Cardinality(body)
        ELSE context.response.chunked
    BY <1>2, <1>3 DEF KeepaliveByContentLength
  <1>5. /\ context.response.failed =>
             context.response.fixed /\ context.response.length = 1
        /\ context.response.failed <=> \E n \in body : w[n].response.failed
    BY DEF ReplyInv, FramingInv, Headed
  <1> HIDE DEF body
  <1>c. ASSUME NEW h, w[h].id = tx.requestId, SentAs(w[h].response), ~w[h].response.close
        PROVE  EndsBeforeNext(w, h)
    <2>1. \/ w[h].response = context.response
          \/ ~w[h].response.failed /\ context.response.failed
      BY <1>c DEF SentAs
    <2>2. body = BodyOf(w, w[h].id)
      BY <1>c DEF body
    <2> QED
      BY <1>1, <1>4, <1>5, <1>c, <2>1, <2>2, ComparedEnds
  <1>6. CASE ~tx.responseHeadersAppended
    <2>1. PICK h \in Heads(w) : /\ w[h].id = tx.requestId /\ w[h].response = context.response
                                /\ \A g \in Heads(w) : g # h => EndsBeforeNext(w, g)
      BY <1>6 DEF Headed
    <2>2. ~context.response.close
      BY <1>2, <1>6 DEF KeepaliveByConnectionHeader
    <2>3. EndsBeforeNext(w, h)
      BY <1>c, <2>1, <2>2 DEF SentAs
    <2> QED
      BY <2>1, <2>3
  <1>7. CASE tx.responseHeadersAppended
    <2>1. PICK h \in Heads(out) : /\ out[h].id = tx.requestId /\ SentAs(out[h].response)
                                  /\ tx.keepConnection => ~out[h].response.close
      BY <1>7, CurrentHead
    <2>2. w = out /\ Clean(w) /\ w \in Seq(Item)
      BY <1>7 DEF Headed, Clean
    <2>4. EndsBeforeNext(w, h)
      BY <1>2, <1>7, <1>c, <2>1, <2>2
    <2>5. ASSUME NEW g \in Heads(w), g # h PROVE EndsBeforeNext(w, g)
      <3>1. g \in Nat /\ h \in Nat /\ w[g].id \in Nat /\ w[g].id < tx.requestId + 1
        BY <2>1, <2>2, WrittenTypes, HeadsCount DEF Headed, Clean
      <3>2. g < h
        <4>1. ~(h < g)
          <5> SUFFICES ASSUME h < g PROVE FALSE
            OBVIOUS
          <5>1. w[h].id < w[g].id
            BY <2>1, <2>2, HeadsGrow DEF Clean
          <5> QED
            BY <1>1, <2>1, <2>2, <3>1, <5>1
        <4> QED
          BY <2>5, <3>1, <4>1
      <3> QED
        BY <2>1, <2>2, <3>2 DEF Clean, DelimitedIfFollowed
    <2> QED
      BY <2>4, <2>5
  <1> QED
    BY <1>1, <1>6, <1>7

LEMMA ReplyHandlerReturns ==
    ASSUME TypeOK, PairingInv, ReplyInv, HandlerReturns PROVE ReplyInv'
  <1> DEFINE data == AppendResponseHeaders(context.response)
             kept == data.keepConnection /\ KeepaliveByContentLength(data)
  <1>w. PICK w : w = out \o Headers(context.response)
    OBVIOUS
  <1>1. /\ Handling /\ reply \in {"handle", "caught"} /\ UNCHANGED <<context, recv, rx>>
        /\ tx' = [data EXCEPT !.keepConnection = kept]
        /\ \/ reply' = "flush" /\ out' = w
           \/ kept /\ EnterReplyLoop(state = "Closing", w) /\ UNCHANGED <<state, queueVars>>
           \/ EnterReplyLoop(TRUE, w)
    BY <1>w DEF HandlerReturns, Handling, ReplyFails
  <1>2. Headed(w, context.response)
    BY <1>1, <1>w, WithHeaders, ReplyTypesHold
  <1>3. kept => \A h \in Heads(w) : EndsBeforeNext(w, h)
    BY <1>1, <1>2, KeptIsDelimited
  <1>4. /\ data \in ReplyData /\ data.requestId = tx.requestId
        /\ data.responseWrittenBytes = tx.responseWrittenBytes /\ data.responseHeadersAppended
        /\ data.keepConnection = IF tx.responseHeadersAppended THEN tx.keepConnection
                                 ELSE KeepaliveByConnectionHeader(context.response)
    BY HeadersAppended, ReplyTypesHold
  <1>c. kept => data.keepConnection
    OBVIOUS
  <1> HIDE DEF data, kept
  <1>5. /\ tx'.requestId = tx.requestId /\ tx'.responseHeadersAppended
        /\ tx'.responseWrittenBytes = tx.responseWrittenBytes /\ tx'.keepConnection = kept
    BY <1>1, <1>4 DEF ReplyData
  <1>6. CASE reply' = "flush" /\ out' = w
    <2>1. Handling'
      BY <1>6 DEF Handling
    <2>2. tx'.keepConnection => \A h \in Heads(out') : EndsBeforeNext(out', h)
      BY <1>3, <1>5, <1>6
    <2>3. data = AppendResponseHeaders(context.response) /\ out' = out \o Headers(context.response)
      BY <1>6, <1>w DEF data
    <2> QED
      BY <1>1, <1>4, <1>5, <1>c, <2>1, <2>2, <2>3, ReplyHeaders
  <1>7. CASE kept /\ EnterReplyLoop(state = "Closing", w) /\ UNCHANGED <<state, queueVars>>
    <2>1. NextPush' = NextPush
      BY <1>1 DEF NextPush
    <2>2. ~aborted' => Cardinality(Heads(w)) + Len(requestQueue') = NextPush'
      BY <1>1, <1>2, <1>7, <2>1, NextAfterHandled DEF Headed
    <2>3. Clean(w)
      BY <1>2 DEF Headed
    <2> QED
      BY <1>1, <1>3, <1>7, <2>2, <2>3, EnterKeeps
  <1>8. CASE EnterReplyLoop(TRUE, w)
    <2>1. Clean(w)
      BY <1>2 DEF Headed
    <2> QED
      BY <1>1, <1>8, <2>1, EnterKeeps
  <1> QED
    BY <1>1, <1>6, <1>7, <1>8

LEMMA ReplyResolves ==
    ASSUME TypeOK, PairingInv, ReplyInv,
           WriteResolves \/ Write500Resolves \/ FlushResolves \/ ErrorResponseResolves
    PROVE  ReplyInv'
  <1>1. CASE WriteResolves
    <2>1. CASE reply' = "handle" /\ UNCHANGED <<context, tx, out>>
      BY <1>1, <2>1, ReplyHandling DEF WriteResolves, Handling
    <2>2. CASE Reply500
      BY <1>1, <2>2, ReplyWith500 DEF WriteResolves
    <2> QED
      BY <1>1, <2>1, <2>2 DEF WriteResolves
  <1>2. CASE Write500Resolves
    <2>1. reply = "catch" /\ tx.responseHeadersAppended /\ UNCHANGED context
      BY <1>2 DEF Write500Resolves, ReplyInv, AnswerInv
    <2>2. CASE reply' = "caught" /\ UNCHANGED <<context, tx, out>>
      BY <2>1, <2>2, ReplyHandling DEF Handling
    <2>3. CASE EnterReplyLoop(TRUE, out)
      BY <2>1, <2>3, AnswersClean, EnterKeeps
    <2> QED
      BY <1>2, <2>2, <2>3 DEF Write500Resolves, ReplyFails
  <1>3. CASE FlushResolves
    <2>1. Handling /\ reply = "flush" /\ Clean(out) /\ UNCHANGED <<recv, rx, context>>
      BY <1>3, AnswersClean DEF FlushResolves, Handling
    <2>2. CASE EnterReplyLoop(TRUE, out)
      BY <2>1, <2>2, EnterKeeps
    <2>3. CASE /\ tx.keepConnection /\ EnterReplyLoop(state = "Closing", out)
               /\ UNCHANGED queueVars
      <3>1. NextPush' = NextPush
        BY <2>1 DEF NextPush
      <3>2. Cardinality(Heads(out)) = tx.requestId + 1 /\ \A h \in Heads(out) : EndsBeforeNext(out, h)
        BY <2>1, <2>3 DEF ReplyInv, AnswerInv, FramingInv
      <3>3. ~aborted' => Cardinality(Heads(out)) + Len(requestQueue') = NextPush'
        BY <2>1, <2>3, <3>1, <3>2, NextAfterHandled
      <3> QED
        BY <2>1, <2>3, <3>2, <3>3, EnterKeeps
    <2> QED
      BY <1>3, <2>2, <2>3 DEF FlushResolves, ReplyFails
  <1>4. CASE ErrorResponseResolves
    <2>1. reply' = "done" /\ UNCHANGED <<out, context>>
      BY <1>4 DEF ErrorResponseResolves
    <2>2. ~Handling' /\ ~Waiting'
      BY <2>1 DEF Handling, Waiting
    <2>3. AnswerInv'
      BY <2>1, <2>2 DEF ReplyInv, AnswerInv, ResponsesInOrder
    <2>4. FramingInv'
      BY <2>1, <2>2 DEF ReplyInv, FramingInv, ResponsesDelimited
    <2> QED
      BY <2>3, <2>4 DEF ReplyInv
  <1> QED
    BY <1>1, <1>2, <1>3, <1>4

-----------------------------------------------------------------------------
(* Every request up to the one being handled has been answered once, and   *)
(* the bytes the response stream counts are those it wrote.                *)
THEOREM Answers == Spec => [](AnswerInv /\ FramingInv)
  <1>1. TypeOK /\ PairingInv /\ ReplyInv /\ [Next]_vars => ReplyInv'
    <2> SUFFICES ASSUME TypeOK, PairingInv, ReplyInv, [Next]_vars PROVE ReplyInv'
      OBVIOUS
    <2>1. CASE Start \/ Stop \/ TimerTick \/ Close \/ PeerCloses \/ ReadResolves
      BY <2>1, ReplyEnvironment
    <2>2. CASE ReceiveStep
      BY <2>2, ReplyReceive
    <2>3. CASE ReplyStep
      BY <2>3, ReplyPop DEF ReplyStep
    <2>4. CASE HandlerStep
      BY <2>4, ReplyHandler, ReplyHandlerReturns DEF HandlerStep
    <2>5. CASE WriteStep
      BY <2>5, ReplyResolves DEF WriteStep
    <2>6. CASE UNCHANGED vars
      BY <2>6, ReplyUnchanged DEF vars, Waiting, NextPush
    <2> QED
      BY <2>1, <2>2, <2>3, <2>4, <2>5, <2>6 DEF Next, Closed
  <1> QED
    BY <1>1, ReplyInit, TypeInvariant, Pairing, PTL DEF Spec, ReplyInv

(* A client that pipelines gets its responses in the order of its          *)
(* requests, one for each, whatever handlers throw, whenever writes fail   *)
(* and however the connection is shut down; an error response comes last.  *)
THEOREM AnswersInOrder == Spec => []ResponsesInOrder
  <1>1. AnswerInv => ResponsesInOrder
    BY DEF AnswerInv
  <1> QED
    BY <1>1, Answers, PTL

(* A response follows only one that did not say to close, and whose        *)
(* headers announced chunks, which alone went out, or as many bytes as     *)
(* were written; or one whose handler failed before it wrote a body, so    *)
(* that nothing but the message of the 500 handler is behind its headers.  *)
THEOREM AnswersDelimited == Spec => []ResponsesDelimited
  <1>1. FramingInv => ResponsesDelimited
    BY DEF FramingInv
  <1> QED
    BY <1>1, Answers, PTL

=============================================================================
