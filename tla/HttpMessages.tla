---------------------------- MODULE HttpMessages ----------------------------
(* HttpRequest and HttpResponse: the objects a connection reuses from one     *)
(* exchange to the next, their headers, and the uri and the cookies that a    *)
(* request parses when they are asked for.  A shared string is an address and *)
(* a text; it keeps its memory, a string_view does not.                       *)
EXTENDS Integers, Sequences, SequencesExt, FiniteSets

CONSTANTS
  Addresses, Null,  \* where strings are, and the address of a default one
  MessageTexts,     \* texts of urls and Cookie headers
  FixedKeys,        \* response headers that are members of the class
  RemainKeys,       \* response headers that go into the map
  MayMeetSource,    \* whether a new string may be where a parsed one was
  MaxExchanges, MaxAdditions  \* bounds

ASSUME MessagesAssumption ==
  /\ Null \notin Addresses /\ <<>> \notin MessageTexts /\ FixedKeys \cap RemainKeys = {}
  /\ IsFiniteSet(FixedKeys) /\ IsFiniteSet(RemainKeys)
  /\ "Set-Cookie" \notin FixedKeys \cup RemainKeys  \* which is added, not set
  /\ MayMeetSource \in BOOLEAN /\ MaxExchanges \in Nat /\ MaxAdditions \in Nat

VARIABLES
  exchange,         \* which exchange the objects are used for
  url, cookieHeader,         \* shared strings of the request
  sourceOfUri, sourceOfCookies,
  uri, cookies,              \* what they were parsed from: texts that parse() added
  asked,            \* what getUri() or getCookies() returned, and (ghost) should
  statusCode,       \* of the response: 0 is empty
  headers,          \* key -> value: 0 is an empty string, NoHeader is no entry of the map
  additionHeaders,
  wanted,           \* ghost: the headers that were set last in this exchange, and not removed
  sent              \* the header lines that were written

messageVars == <<exchange, url, cookieHeader, sourceOfUri, sourceOfCookies, uri, cookies, asked,
                 statusCode, headers, additionHeaders, wanted, sent>>
requestVars == <<url, cookieHeader, sourceOfUri, sourceOfCookies, uri, cookies>>
responseVars == <<statusCode, headers, additionHeaders, wanted>>

-----------------------------------------------------------------------------
StringAt(address, text) == [address |-> address, text |-> text]
NoString == StringAt(Null, <<>>)
IsEmpty(string) == string.text = <<>>

\* SharedString::clear(): "the buffer storage will remain"
Cleared(string) == [string EXCEPT !.text = <<>>]

\* parse() of a text adds to what is there.
ParsedInto(parsed, text) == IF text = <<>> THEN parsed ELSE Append(parsed, text)

\* A slip: the source is what decides, the old parts stay.
EnsureUpdatedNoClear(source, parsed, string) ==
  IF IsEmpty(source) \/ source.address # string.address
  THEN [source |-> string, parsed |-> ParsedInto(parsed, string.text)]
  ELSE [source |-> source, parsed |-> parsed]

\* ensureUriUpdated() and ensureCookiesUpdated(): "compare pointer directly"
EnsureUpdated(source, parsed, string) ==
  CASE IsEmpty(source) -> [source |-> string, parsed |-> ParsedInto(parsed, string.text)]
    [] ~IsEmpty(source) /\ source.address # string.address ->
         [source |-> string, parsed |-> ParsedInto(<<>>, string.text)]
    [] OTHER -> [source |-> source, parsed |-> parsed]

\* A new string is where no live one is; a shared one starts where the other does.
NewStrings == { StringAt(a, t) : a \in Addresses \ {url.address, cookieHeader.address},
                               t \in MessageTexts }
SharedFrom(string) == { StringAt(string.address, SubSeq(string.text, 1, n)) :
                        n \in 1..(Len(string.text) - 1) }
Meets(string, source) == string.address = source.address /\ string.text # source.text

\* The header collection of a response
NoHeader == -1
NoHeaders == [k \in FixedKeys \cup RemainKeys |-> IF k \in FixedKeys THEN 0 ELSE NoHeader]

Nothing == [returned |-> <<>>, should |-> <<>>]

-----------------------------------------------------------------------------
MessagesInit ==
  /\ exchange = 1
  /\ url = NoString /\ cookieHeader = NoString
  /\ sourceOfUri = NoString /\ sourceOfCookies = NoString
  /\ uri = <<>> /\ cookies = <<>> /\ asked = Nothing
  /\ statusCode = 0 /\ headers = NoHeaders /\ additionHeaders = <<>>
  /\ wanted = NoHeaders /\ sent = <<>>

\* setUrl(), the connection's or a handler's
SetUrl(string) ==
  /\ string \in NewStrings \cup SharedFrom(url)
  /\ MayMeetSource \/ ~Meets(string, sourceOfUri)
  /\ url' = string /\ asked' = Nothing
  /\ UNCHANGED <<exchange, cookieHeader, sourceOfUri, sourceOfCookies, uri, cookies, responseVars, sent>>

\* setHeader() and removeHeader() of the Cookie header
SetCookieHeader(string) ==
  /\ string \in NewStrings \cup SharedFrom(cookieHeader) \cup {NoString}
  /\ MayMeetSource \/ ~Meets(string, sourceOfCookies)
  /\ cookieHeader' = string /\ asked' = Nothing
  /\ UNCHANGED <<exchange, url, sourceOfUri, sourceOfCookies, uri, cookies, responseVars, sent>>

GetUri ==
  LET now == EnsureUpdated(sourceOfUri, uri, url)
  IN /\ sourceOfUri' = now.source /\ uri' = now.parsed
     /\ asked' = [returned |-> now.parsed, should |-> ParsedInto(<<>>, url.text)]
     /\ UNCHANGED <<exchange, url, cookieHeader, sourceOfCookies, cookies, responseVars, sent>>

GetCookies ==
  LET now == EnsureUpdated(sourceOfCookies, cookies, cookieHeader)
  IN /\ sourceOfCookies' = now.source /\ cookies' = now.parsed
     /\ asked' = [returned |-> now.parsed, should |-> ParsedInto(<<>>, cookieHeader.text)]
     /\ UNCHANGED <<exchange, url, cookieHeader, sourceOfUri, uri, responseVars, sent>>

\* setHeader() of the response; a value says in which exchange it was set.
SetHeader(k, value) ==
  /\ headers' = [headers EXCEPT ![k] = value] /\ wanted' = [wanted EXCEPT ![k] = value]
  /\ sent' = <<>> /\ asked' = Nothing
  /\ UNCHANGED <<exchange, requestVars, statusCode, additionHeaders>>

RemoveHeader(k) ==
  /\ headers' = [headers EXCEPT ![k] = NoHeaders[k]] /\ wanted' = [wanted EXCEPT ![k] = NoHeaders[k]]
  /\ sent' = <<>> /\ asked' = Nothing
  /\ UNCHANGED <<exchange, requestVars, statusCode, additionHeaders>>

\* setCookie() and removeCookie(): every call adds a Set-Cookie header.
SetCookie ==
  /\ Len(additionHeaders) < MaxAdditions
  /\ additionHeaders' = Append(additionHeaders, <<exchange, Len(additionHeaders) + 1>>)
  /\ sent' = <<>> /\ asked' = Nothing
  /\ UNCHANGED <<exchange, requestVars, statusCode, headers, wanted>>

\* redirectTo(): the status and the Location header, in the map of other headers
RedirectTo(location) ==
  /\ location \in RemainKeys
  /\ statusCode' = exchange
  /\ headers' = [headers EXCEPT ![location] = exchange]
  /\ wanted' = [wanted EXCEPT ![location] = exchange]
  /\ sent' = <<>> /\ asked' = Nothing
  /\ UNCHANGED <<exchange, requestVars, additionHeaders>>

\* appendToHttp1Packet(): members that are not empty, the map, the additional headers
Lines == LET fixed == { k \in FixedKeys : headers[k] # 0 }
             remain == { k \in RemainKeys : headers[k] # NoHeader }
             line(k) == <<k, headers[k]>>
         IN [i \in 1..Cardinality(fixed) |-> line(SetToSeq(fixed)[i])]
            \o [i \in 1..Cardinality(remain) |-> line(SetToSeq(remain)[i])]
            \o [i \in DOMAIN additionHeaders |-> <<"Set-Cookie", additionHeaders[i]>>]
SendHeaders ==
  /\ sent' = Lines /\ asked' = Nothing
  /\ UNCHANGED <<exchange, requestVars, responseVars>>

\* A slip: the additional headers stay.
ClearResponseKeepsCookies ==
  statusCode' = 0 /\ headers' = NoHeaders /\ UNCHANGED additionHeaders

\* HttpResponseData::freeResources()
ClearResponse == statusCode' = 0 /\ headers' = NoHeaders /\ additionHeaders' = <<>>

\* HttpRequestData::freeResources()
ClearRequest ==
  /\ url' = Cleared(url) /\ cookieHeader' = Cleared(cookieHeader)
  /\ sourceOfUri' = NoString /\ uri' = <<>>
  /\ sourceOfCookies' = NoString /\ cookies' = <<>>

\* setRequestResponse(): the objects go to the free list and come back for the next exchange.
NextExchange ==
  /\ exchange < MaxExchanges /\ exchange' = exchange + 1
  /\ ClearRequest /\ ClearResponse
  /\ wanted' = NoHeaders /\ asked' = Nothing /\ sent' = <<>>

MessagesNext ==
  \/ \E string \in NewStrings \cup SharedFrom(url) : SetUrl(string)
  \/ \E string \in NewStrings \cup SharedFrom(cookieHeader) \cup {NoString} : SetCookieHeader(string)
  \/ GetUri \/ GetCookies
  \/ \E k \in FixedKeys \cup RemainKeys, value \in {0, exchange} : SetHeader(k, value)
  \/ \E k \in FixedKeys \cup RemainKeys : RemoveHeader(k)
  \/ \E location \in RemainKeys : RedirectTo(location)
  \/ SetCookie \/ SendHeaders \/ NextExchange

MessagesSpec == MessagesInit /\ [][MessagesNext]_messageVars

-----------------------------------------------------------------------------
(* Properties *)

\* "Get the uri instance parsed from url", "Get the cookies collection parsed from
\* Cookie header": what getUri() and getCookies() return was parsed from the url and
\* the header of now and from nothing else, although they are parsed only once, whatever
\* was set, asked for, shared and recycled in between.
CachesCurrent == asked.returned = asked.should

\* Why: what was parsed is that of its source, and the string that is where the source
\* is has the source's text.
CacheSound(source, parsed, string) ==
  /\ parsed = ParsedInto(<<>>, source.text)
  /\ ~IsEmpty(source) => ~Meets(string, source)
CachesInv ==
  /\ CacheSound(sourceOfUri, uri, url)
  /\ CacheSound(sourceOfCookies, cookies, cookieHeader)

\* The headers that are written are those that were set in this exchange: no key twice
\* but Set-Cookie, none missing, the value that was set last, all cookies in order and
\* none of an exchange before.
LinesOf(k) == { i \in DOMAIN sent : sent[i][1] = k }
OwnHeadersSent ==
  sent # <<>> =>
    /\ \A k \in FixedKeys \cup RemainKeys :
         Cardinality(LinesOf(k)) = IF wanted[k] = NoHeaders[k] THEN 0 ELSE 1
    /\ \A i \in DOMAIN sent \ LinesOf("Set-Cookie") :
         sent[i][1] \in FixedKeys \cup RemainKeys /\ sent[i][2] = wanted[sent[i][1]]
    /\ Cardinality(LinesOf("Set-Cookie")) = Len(additionHeaders)
    /\ \A i \in LinesOf("Set-Cookie") :
         sent[i][2] = <<exchange, Cardinality({ j \in LinesOf("Set-Cookie") : j <= i })>>

\* Why: the collection is what was set, every cookie says when it was added, and what
\* was written are the lines of now, since every change drops it.
HeadersInv ==
  /\ headers = wanted /\ DOMAIN headers = FixedKeys \cup RemainKeys
  /\ additionHeaders \in Seq({exchange} \X Nat)
  /\ \A i \in DOMAIN additionHeaders : additionHeaders[i] = <<exchange, i>>
  /\ sent = <<>> \/ sent = Lines
=============================================================================
