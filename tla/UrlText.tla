------------------------------ MODULE UrlText ------------------------------
(* Url encoding and the three texts a request comes with: uris, url encoded  *)
(* forms and cookies, each read by one pass over its characters.  Maps are   *)
(* functions; a key that is moved into a map is left as it was when the map  *)
(* already has it, and empty otherwise.                                      *)
EXTENDS Bytes, SequencesExt, FiniteSets

CONSTANT UrlSamples  \* [kind |-> "form" | "cookies" | "uri", parts |-> ...]

VARIABLES
  urlSample,   \* what is written
  urlText,     \* as it was written
  urlRead      \* what was read back

urlVars == <<urlSample, urlText, urlRead>>

-----------------------------------------------------------------------------
(* Encoding *)

HexDigits == Text("0123456789ABCDEF")
HexByte(c) == <<HexDigits[(c \div 16) + 1], HexDigits[(c % 16) + 1]>>

\* A slip: the separator of the pairs is not encoded.
UrlEncodeAmpersandStays(c) ==
  IF IS_ALPHANUM(c) \/ c \in {45, 46, 47, 95, 126, 38} THEN <<c>> ELSE <<37>> \o HexByte(c)

\* A slash stays as it is, a space becomes %20.
UrlEncodeMapping(c) ==
  IF IS_ALPHANUM(c) \/ c \in {45, 46, 47, 95, 126} THEN <<c>> ELSE <<37>> \o HexByte(c)

urlEncode(s) == FlattenSeq([i \in DOMAIN s |-> UrlEncodeMapping(s[i])])

HexValue(c) == CASE IS_NUM(c) -> c - 48
                 [] c \in 97..102 -> c - 87
                 [] c \in 65..70 -> c - 55
                 [] OTHER -> 16
IsHex(c) == HexValue(c) < 16

\* The byte that %xy stands for; characters that are no digits leave the last one.
loadHex(s, last) == IF IsHex(s[1]) /\ IsHex(s[2]) THEN 16 * HexValue(s[1]) + HexValue(s[2]) ELSE last

\* urlDecode(): a percent sign takes two characters with it even if they are missing.
RECURSIVE DecodeFrom(_, _)
DecodeFrom(s, charFromHex) ==
  IF s = <<>> THEN <<>>
  ELSE CASE s[1] = 37 /\ Len(s) < 3 -> <<>>
         [] s[1] = 37 /\ Len(s) >= 3 ->
              LET c == loadHex(Tail(s), charFromHex) IN <<c>> \o DecodeFrom(SubSeq(s, 4, Len(s)), c)
         [] s[1] = 43 -> <<SP>> \o DecodeFrom(Tail(s), charFromHex)
         [] OTHER -> <<s[1]>> \o DecodeFrom(Tail(s), charFromHex)
urlDecode(s) == DecodeFrom(s, 0)

\* A slice from the mark to before the pointer, decoded
Between(s, mark, ptr) == SubSeq(s, mark, ptr - 1)
Decoded(s, mark, ptr) == urlDecode(Between(s, mark, ptr))

\* The characters that trimString() removes at both ends
trimString(s) ==
  LET kept == { i \in DOMAIN s : s[i] \notin {SP, HT, CR, LF} }
  IN IF kept = {} THEN <<>>
     ELSE SubSeq(s, CHOOSE i \in kept : \A j \in kept : i <= j,
                    CHOOSE i \in kept : \A j \in kept : i >= j)

-----------------------------------------------------------------------------
(* Maps *)

EmptyMap == [key \in {} |-> <<>>]
Assign(map, key, value) == [k \in DOMAIN map \cup {key} |-> IF k = key THEN value ELSE map[k]]
Values(map, key) == IF key \in DOMAIN map THEN map[key] ELSE <<>>
AfterMove(map, key) == IF key \in DOMAIN map THEN key ELSE <<>>

\* SharedString::operator<
ViewLess(a, b) ==
  \/ \E i \in DOMAIN a \cap DOMAIN b : a[i] < b[i] /\ \A j \in 1..(i - 1) : a[j] = b[j]
  \/ Len(a) < Len(b) /\ \A j \in DOMAIN a : a[j] = b[j]
SortedKeys(map) == SetToSortSeq(DOMAIN map, ViewLess)

-----------------------------------------------------------------------------
(* HttpForm *)

\* add(): the value is added to those of the key.
FormAdd(f, body, ptr) ==
  LET value == Decoded(body, f.mark, ptr)
  IN [f EXCEPT !.map = Assign(@, f.key, Append(Values(@, f.key), value)),
               !.key = AfterMove(f.map, @), !.mark = ptr + 1]

FormByte(body, f, ptr) ==
  CASE body[ptr] = 61 -> [f EXCEPT !.key = Decoded(body, f.mark, ptr), !.mark = ptr + 1]
    [] body[ptr] = 38 -> FormAdd(f, body, ptr)
    [] OTHER -> f

NewMapReader == [map |-> EmptyMap, key |-> <<>>, mark |-> 1]

parseUrlEncoded(body) ==
  LET step(f, ptr) == FormByte(body, f, ptr)
      f == FoldLeft(step, NewMapReader, [i \in DOMAIN body |-> i])
      end == Len(body) + 1
  IN IF end > f.mark \/ f.key # <<>> THEN FormAdd(f, body, end).map ELSE f.map

Pair(key, value) == urlEncode(key) \o <<61>> \o urlEncode(value)
JoinedBy(separator, texts) ==
  FlattenSeq([i \in DOMAIN texts |-> (IF i = 1 THEN <<>> ELSE separator) \o texts[i]])

\* buildUrlEncoded(): keys in order, all values of a key one after the other
buildUrlEncoded(map) ==
  LET pairsOf(key) == [i \in DOMAIN map[key] |-> Pair(key, map[key][i])]
      keys == SortedKeys(map)
  IN JoinedBy(<<38>>, FlattenSeq([i \in DOMAIN keys |-> pairsOf(keys[i])]))

-----------------------------------------------------------------------------
(* HttpRequestCookies *)

\* insert_or_assign: the cookie, or a key without a value
WithCookie(map, key, value) ==
  IF key # <<>> THEN Assign(map, key, value)
  ELSE IF value # <<>> THEN Assign(map, value, <<>>) ELSE map

CookieByte(text, f, ptr) ==
  CASE text[ptr] = 61 -> [f EXCEPT !.key = trimString(Between(text, f.mark, ptr)), !.mark = ptr + 1]
    [] text[ptr] = 59 -> [map |-> WithCookie(f.map, f.key, trimString(Between(text, f.mark, ptr))),
                          key |-> <<>>, mark |-> ptr + 1]
    [] OTHER -> f

parseCookies(text) ==
  LET step(f, ptr) == CookieByte(text, f, ptr)
      f == FoldLeft(step, NewMapReader, [i \in DOMAIN text |-> i])
      end == Len(text) + 1
  IN IF f.mark < end THEN WithCookie(f.map, f.key, trimString(Between(text, f.mark, end))) ELSE f.map

-----------------------------------------------------------------------------
(* Uri *)

NewUri == [state |-> "Protocol", mark |-> 1, pathMark |-> 1, key |-> <<>>, protocol |-> <<>>,
           hostname |-> <<>>, port |-> <<>>, path |-> <<>>, fragments |-> <<>>, query |-> EmptyMap]

WithFragment(u, text, ptr) == [u EXCEPT !.fragments = Append(@, Decoded(text, u.mark, ptr))]
WithQuery(u, text, ptr) ==
  [u EXCEPT !.query = Assign(@, u.key, Decoded(text, u.mark, ptr)), !.key = AfterMove(u.query, @)]
To(u, state, mark) == [u EXCEPT !.state = state, !.mark = mark]
ToPath(u, ptr) == [To(u, "Path", ptr + 1) EXCEPT !.pathMark = ptr]

\* The uri after a character and where the next one is
UriSlash(text, u, ptr) ==
  CASE u.state = "Protocol" ->
         To(IF ptr # u.mark THEN WithFragment(u, text, ptr) ELSE u, "Path", ptr + 1)
    [] u.state = "Path" -> To(WithFragment(u, text, ptr), "Path", ptr + 1)
    [] u.state = "Hostname" -> ToPath([u EXCEPT !.hostname = Decoded(text, u.mark, ptr)], ptr)
    [] u.state = "Port" -> ToPath([u EXCEPT !.port = Between(text, u.mark, ptr)], ptr)
    [] OTHER -> u

UriQuestion(text, u, ptr) ==
  CASE u.state = "Path" ->
         LET last == IF ptr > u.mark THEN WithFragment(u, text, ptr) ELSE u
         IN To([last EXCEPT !.path = Decoded(text, u.pathMark, ptr)], "Query", ptr + 1)
    [] u.state = "Protocol" -> To(u, "Query", ptr + 1)
    [] OTHER -> u

UriQuery(text, u, ptr) ==
  CASE u.state = "Query" /\ text[ptr] = 61 ->
         [u EXCEPT !.key = Decoded(text, u.mark, ptr), !.mark = ptr + 1]
    [] u.state = "Query" /\ text[ptr] = 38 -> [WithQuery(u, text, ptr) EXCEPT !.mark = ptr + 1]
    [] OTHER -> u

\* After the protocol two slashes are skipped.
UriColon(text, u, ptr) ==
  CASE u.state = "Protocol" ->
         To([u EXCEPT !.protocol = Decoded(text, u.mark, ptr)], "Hostname", ptr + 3)
    [] u.state = "Hostname" ->
         To([u EXCEPT !.hostname = Decoded(text, u.mark, ptr)], "Port", ptr + 1)
    [] OTHER -> u

\* The colon after an address in brackets is skipped.
PortFollows(text, ptr) == ptr < Len(text) /\ text[ptr + 1] = 58
UriBracket(text, u, ptr) ==
  CASE u.state = "Hostname" /\ text[ptr] = 91 -> [u EXCEPT !.state = "HostnameV6"]
    [] u.state = "HostnameV6" /\ text[ptr] = 93 ->
         LET named == [u EXCEPT !.hostname = Decoded(text, u.mark, ptr + 1)]
         IN IF PortFollows(text, ptr) THEN To(named, "Port", ptr + 2)
            ELSE [To(named, "Path", ptr + 1) EXCEPT !.pathMark = ptr + 1]
    [] OTHER -> u

UriByte(text, u, ptr) ==
  CASE text[ptr] = 47 -> UriSlash(text, u, ptr)
    [] text[ptr] = 63 -> UriQuestion(text, u, ptr)
    [] text[ptr] \in {61, 38} -> UriQuery(text, u, ptr)
    [] text[ptr] = 58 -> UriColon(text, u, ptr)
    [] text[ptr] \in {91, 93} -> UriBracket(text, u, ptr)
    [] OTHER -> u

\* "parse final parts"
UriEnd(text, u, ptr) ==
  LET rest == ptr > u.mark
      last == CASE rest /\ u.state = "Path" -> WithFragment(u, text, ptr)
                [] rest /\ u.state = "Hostname" -> [u EXCEPT !.hostname = Decoded(text, u.mark, ptr)]
                [] rest /\ u.state = "Port" -> [u EXCEPT !.port = Between(text, u.mark, ptr)]
                [] rest /\ u.state = "Query" -> WithQuery(u, text, ptr)
                [] OTHER -> u
  IN IF u.state = "Path" THEN [last EXCEPT !.path = Decoded(text, u.pathMark, ptr)] ELSE last

\* The pointer only jumps where the mark does.
RECURSIVE UriFrom(_, _, _)
UriFrom(text, u, ptr) ==
  IF ptr > Len(text) THEN UriEnd(text, u, ptr)
  ELSE LET v == UriByte(text, u, ptr)
       IN UriFrom(text, v, IF v.mark > ptr + 1 THEN v.mark ELSE ptr + 1)
parseUri(text) == UriFrom(text, NewUri, 1)

\* Uri::build(), of a uri whose path is in its fragments
buildUri(u) ==
  LET origin == IF u.protocol = <<>> THEN <<>>
                ELSE urlEncode(u.protocol) \o <<58, 47, 47>> \o urlEncode(u.hostname)
                     \o (IF u.port = <<>> THEN <<>> ELSE <<58>> \o u.port)
      path == FlattenSeq([i \in DOMAIN u.fragments |-> <<47>> \o urlEncode(u.fragments[i])])
      keys == SortedKeys(u.query)
      pairs == [i \in DOMAIN keys |-> Pair(keys[i], u.query[keys[i]])]
  IN origin \o path \o (IF pairs = <<>> THEN <<>> ELSE <<63>> \o JoinedBy(<<38>>, pairs))

-----------------------------------------------------------------------------
(* A client writes pairs in any order; build functions write maps.             *)

TextOf(sample) ==
  CASE sample.kind = "form" ->
         JoinedBy(<<38>>, [i \in DOMAIN sample.parts |-> Pair(sample.parts[i][1], sample.parts[i][2])])
    [] sample.kind = "map" -> buildUrlEncoded(sample.parts)
    [] sample.kind = "cookies" ->
         JoinedBy(<<59, SP>>, [i \in DOMAIN sample.parts |-> sample.parts[i][1] \o <<61>> \o sample.parts[i][2]])
    [] sample.kind = "uri" -> buildUri(sample.parts)

UrlInit == urlSample \in UrlSamples /\ urlText = <<>> /\ urlRead = <<>>

WriteUrl == urlText = <<>> /\ urlText' = TextOf(urlSample) /\ UNCHANGED <<urlSample, urlRead>>

ReadUrl ==
  /\ urlText # <<>> /\ urlRead = <<>>
  /\ urlRead' = << CASE urlSample.kind \in {"form", "map"} -> parseUrlEncoded(urlText)
                     [] urlSample.kind = "cookies" -> parseCookies(urlText)
                     [] urlSample.kind = "uri" -> parseUri(urlText) >>
  /\ UNCHANGED <<urlSample, urlText>>

UrlNext == WriteUrl \/ ReadUrl
UrlSpec == UrlInit /\ [][UrlNext]_urlVars

-----------------------------------------------------------------------------
(* Properties *)

Keys(pairs) == { pairs[i][1] : i \in DOMAIN pairs }
ValuesOf(pairs, key) ==
  LET ofKey(pair) == pair[1] = key
      own == SelectSeq(pairs, ofKey)
  IN [i \in DOMAIN own |-> own[i][2]]

\* What a form means: all values of a key, in order.  A pair of two empty strings at
\* the end of a body is not seen.
FormMeant(pairs) ==
  LET seen == IF pairs # <<>> /\ Last(pairs) = <<<<>>, <<>>>> THEN Front(pairs) ELSE pairs
  IN [key \in Keys(seen) |-> ValuesOf(seen, key)]

\* Cookies: the last value of a key.  A cookie without a value at the end is not seen.
CookiesMeant(pairs) ==
  LET seen == IF pairs # <<>> /\ Last(pairs)[2] = <<>> THEN Front(pairs) ELSE pairs
  IN [key \in Keys(seen) |-> Last(ValuesOf(seen, key))]

\* Forms, cookies and uris are read back part by part, whatever characters - separators,
\* percent signs, spaces - the parts have, repeated keys, empty parts and addresses in
\* brackets included; a uri's path is its fragments again.
PartsReadBack ==
  urlRead # <<>> =>
    LET read == urlRead[1]
        parts == urlSample.parts
    IN CASE urlSample.kind = "form" -> read = FormMeant(parts)
         [] urlSample.kind = "map" -> read = parts
         [] urlSample.kind = "cookies" -> read = CookiesMeant(parts)
         [] urlSample.kind = "uri" ->
              /\ \A part \in {"protocol", "hostname", "port", "fragments", "query"} :
                   read[part] = parts[part]
              /\ read.path = FlattenSeq([i \in DOMAIN parts.fragments |-> <<47>> \o parts.fragments[i]])
=============================================================================
