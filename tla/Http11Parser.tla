---------------------------- MODULE Http11Parser ----------------------------
(***************************************************************************)
(* The HTTP/1.1 request parser, byte by byte, with the callbacks that the  *)
(* connection gives it (Http11Parser.cpp in strict mode, the callbacks of  *)
(* Http11ServerConnection.hpp).  http_parser_execute is a function of the  *)
(* parser, of the request received so far and of one packet.               *)
(*                                                                         *)
(* A run of the parser is a record: the parser p, the receiver s, the data *)
(* and the position i in it, where url, header or body bytes not yet given *)
(* to a callback start (mark, 0 for none), whether the byte is looked at   *)
(* again, and the result (ret, -1 while the loop runs).  A failing assert  *)
(* ends the run with the error ABORT.                                      *)
(***************************************************************************)
EXTENDS Bytes

CONSTANTS ULLONG_MAX,      \* the largest content length, which stands for none
          max_header_size  \* of the request line and the headers, and of a chunk's header

ASSUME LengthAssumption ==
    ULLONG_MAX \in Nat /\ ULLONG_MAX >= 26 /\ max_header_size \in Nat

-----------------------------------------------------------------------------
(* Character classes.                                                      *)

Separators == {Code[c] : c \in {"(", ")", "<", ">", "@", ",", ";", ":", "\\", "\"",
                                "/", "[", "]", "?", "=", "{", "}"}}
(* TOKEN lowercases letters; 0 is "not a token".                           *)
TOKEN(c) ==
    IF c \notin 33..126 \/ c \in Separators THEN 0
    ELSE IF c \in 65..90 THEN c + 32 ELSE c

unhex(c) ==
    CASE IS_NUM(c) -> c - 48
      [] c \in 65..70 -> c - 55
      [] c \in 97..102 -> c - 87
      [] OTHER -> -1

IS_URL_CHAR(c) == c \in 33..126 /\ c \notin {Code["#"], Code["?"]}

IS_USERINFO_CHAR(c) ==
    IS_ALPHANUM(c) \/ c \in {Code[m] : m \in {"-", "_", ".", "!", "~", "*", "'", "(", ")",
                                              "%", ";", ":", "&", "=", "+", "$", ","}}

IS_HEADER_CHAR(c) == c \in {CR, LF, HT} \/ (c > 31 /\ c # 127)

-----------------------------------------------------------------------------
(* States.                                                                 *)

BodyStates == {"s_chunk_data", "s_chunk_data_almost_done", "s_chunk_data_done",
               "s_body_identity", "s_message_done"}
PARSING_HEADER(state) == state \notin BodyStates

UrlStates == {"s_req_schema", "s_req_schema_slash", "s_req_schema_slash_slash",
              "s_req_server_start", "s_req_server", "s_req_server_with_at", "s_req_path",
              "s_req_query_string_start", "s_req_query_string",
              "s_req_fragment_start", "s_req_fragment"}

http_method == {"DELETE", "GET", "HEAD", "POST", "PUT", "CONNECT", "OPTIONS", "TRACE",
                "COPY", "LOCK", "MKCOL", "MOVE", "PROPFIND", "PROPPATCH", "SEARCH",
                "UNLOCK", "BIND", "REBIND", "UNBIND", "ACL", "REPORT", "MKACTIVITY",
                "CHECKOUT", "MERGE", "M-SEARCH", "NOTIFY", "SUBSCRIBE", "UNSUBSCRIBE",
                "PATCH", "PURGE", "MKCALENDAR", "LINK", "UNLINK", "SOURCE"}
method_strings == [m \in http_method |-> Text(m)]

(* http_parser_init: everything zero, method 0 is DELETE.                  *)
http_parser_init ==
    [state |-> "s_start_req", header_state |-> "h_general", index |-> 0, flags |-> {},
     nread |-> 0, content_length |-> 0, http_major |-> 0, http_minor |-> 0,
     method |-> "DELETE", http_errno |-> "OK", upgrade |-> FALSE]

http_should_keep_alive(p) ==
    IF p.http_major > 0 /\ p.http_minor > 0
    THEN "F_CONNECTION_CLOSE" \notin p.flags
    ELSE "F_CONNECTION_KEEP_ALIVE" \in p.flags

NEW_MESSAGE(p) == IF http_should_keep_alive(p) THEN "s_start_req" ELSE "s_dead"

-----------------------------------------------------------------------------
(* The receiver: what the connection's callbacks put together.  A callback *)
(* answers with the new receiver, or with nothing when it returns -1.      *)

NewReceiver == [state |-> "Started", url |-> <<>>, field |-> <<>>, value |-> <<>>,
                line |-> <<>>, headers |-> <<>>, body |-> <<>>]

on_message_begin(s) ==
    IF s.state = "Started" THEN <<[s EXCEPT !.state = "MessageBegin"]>> ELSE <<>>

on_url(s, data) ==
    CASE s.state = "MessageBegin" -> <<[s EXCEPT !.state = "Url", !.url = data]>>
      [] s.state = "Url" -> <<[s EXCEPT !.url = @ \o data]>>
      [] OTHER -> <<>>

on_header_field(s, data) ==
    CASE s.state = "HeaderValue" ->
            <<[s EXCEPT !.state = "HeaderField", !.field = data,
                        !.headers = Append(@, <<s.field, s.value>>)]>>
      [] s.state = "Url" -> <<[s EXCEPT !.state = "HeaderField", !.field = data]>>
      [] s.state = "HeaderField" -> <<[s EXCEPT !.field = @ \o data]>>
      [] OTHER -> <<>>

on_header_value(s, data) ==
    CASE s.state = "HeaderField" -> <<[s EXCEPT !.state = "HeaderValue", !.value = data]>>
      [] s.state = "HeaderValue" -> <<[s EXCEPT !.value = @ \o data]>>
      [] OTHER -> <<>>

(* The request gets its method, its url and its version.                   *)
on_headers_complete(s, p) ==
    LET done == [s EXCEPT !.state = "HeadersComplete",
                          !.line = <<p.method, s.url, p.http_major, p.http_minor>>]
    IN  CASE s.state = "HeaderValue" ->
                <<[done EXCEPT !.headers = Append(@, <<s.field, s.value>>)]>>
          [] s.state = "Url" -> <<done>>
          [] OTHER -> <<>>

on_body(s, data) ==
    IF s.state \in {"HeadersComplete", "Body"}
    THEN <<[s EXCEPT !.state = "Body", !.body = @ \o data]>> ELSE <<>>

on_message_complete(s) ==
    IF s.state \in {"HeadersComplete", "Body"}
    THEN <<[s EXCEPT !.state = "MessageComplete"]>> ELSE <<>>

on_data(name, s, data) ==
    CASE name = "url" -> on_url(s, data)
      [] name = "header_field" -> on_header_field(s, data)
      [] name = "header_value" -> on_header_value(s, data)
      [] name = "body" -> on_body(s, data)

-----------------------------------------------------------------------------
(* What the macros do to a run.                                            *)

UPDATE_STATE(x, state) == [x EXCEPT !.p.state = state]
REEXECUTE(x) == [x EXCEPT !.again = TRUE]
RETURN(x, size) == [x EXCEPT !.ret = size]
Failed(x, errno, size) == RETURN([x EXCEPT !.p.http_errno = errno], size)
Error(x, errno) == Failed(x, errno, x.i - 1)
assert(x, holds, y) == IF holds THEN y ELSE Error(x, "ABORT")
STRICT_CHECK(x, wrong, y) == IF wrong THEN Error(x, "STRICT") ELSE y
MARK(x, name) == IF x.mark[name] = 0 THEN [x EXCEPT !.mark[name] = x.i] ELSE x
SetFlag(x, flag) == [x EXCEPT !.p.flags = @ \cup {flag}]
SetHeaderState(x, header_state) == [x EXCEPT !.p.header_state = header_state]

(* A callback's answer; `size` is what execute returns if it refused.      *)
CALLBACK(x, answer, name, size) ==
    IF answer = <<>> THEN Failed(x, "CB_" \o name, size) ELSE [x EXCEPT !.s = answer[1]]

MESSAGE_COMPLETE(x) == CALLBACK(x, on_message_complete(x.s), "message_complete", x.i)

(* The bytes from the mark to `last` go to the callback.                   *)
CALLBACK_DATA(x, name, last, size) ==
    IF x.mark[name] = 0 THEN x
    ELSE [CALLBACK(x, on_data(name, x.s, SubSeq(x.data, x.mark[name], last)), name, size)
             EXCEPT !.mark[name] = 0]

-----------------------------------------------------------------------------
(* The request line.                                                       *)

FirstMethod == [A |-> "ACL", B |-> "BIND", C |-> "CONNECT", D |-> "DELETE", G |-> "GET",
                H |-> "HEAD", L |-> "LOCK", M |-> "MKCOL", N |-> "NOTIFY",
                O |-> "OPTIONS", P |-> "POST", R |-> "REPORT", S |-> "SUBSCRIBE",
                T |-> "TRACE", U |-> "UNLOCK"]

s_start_req(x, ch) ==
    LET letters == {c \in DOMAIN FirstMethod : Code[c] = ch}
        begun == [x EXCEPT !.p.flags = {}, !.p.content_length = ULLONG_MAX]
    IN  CASE ch \in {CR, LF} -> x
          [] ch \notin {CR, LF} /\ letters = {} -> Error(begun, "INVALID_METHOD")
          [] OTHER ->
               LET y == [begun EXCEPT !.p.index = 1, !.p.state = "s_req_method",
                             !.p.method = FirstMethod[CHOOSE c \in letters : TRUE]]
               IN  CALLBACK(y, on_message_begin(y.s), "message_begin", y.i)

(* The methods that share a beginning: at this index, this letter changes  *)
(* the one into the other.                                                 *)
OtherMethod ==
    {<<"POST", 1, "U", "PUT">>, <<"POST", 1, "A", "PATCH">>, <<"POST", 1, "R", "PROPFIND">>,
     <<"PUT", 2, "R", "PURGE">>, <<"CONNECT", 1, "H", "CHECKOUT">>,
     <<"CONNECT", 2, "P", "COPY">>, <<"MKCOL", 1, "O", "MOVE">>,
     <<"MKCOL", 1, "E", "MERGE">>, <<"MKCOL", 1, "-", "M-SEARCH">>,
     <<"MKCOL", 2, "A", "MKACTIVITY">>, <<"MKCOL", 3, "A", "MKCALENDAR">>,
     <<"SUBSCRIBE", 1, "E", "SEARCH">>, <<"SUBSCRIBE", 1, "O", "SOURCE">>,
     <<"REPORT", 2, "B", "REBIND">>, <<"PROPFIND", 4, "P", "PROPPATCH">>,
     <<"LOCK", 1, "I", "LINK">>, <<"UNLOCK", 2, "S", "UNSUBSCRIBE">>,
     <<"UNLOCK", 2, "B", "UNBIND">>, <<"UNLOCK", 3, "I", "UNLINK">>}

s_req_method(x, ch) ==
    LET matcher == method_strings[x.p.method] \o <<0>>
        others == {o \in OtherMethod : /\ o[1] = x.p.method /\ o[2] = x.p.index
                                       /\ Code[o[3]] = ch}
        next == [x EXCEPT !.p.index = @ + 1]
    IN  CASE ch = 0 -> Error(x, "INVALID_METHOD")
          [] ch = SP /\ matcher[x.p.index + 1] = 0 ->
               UPDATE_STATE(next, "s_req_spaces_before_url")
          [] ch # 0 /\ ch = matcher[x.p.index + 1] -> next
          [] ch # matcher[x.p.index + 1] /\ others # {} ->
               [next EXCEPT !.p.method = (CHOOSE o \in others : TRUE)[4]]
          [] OTHER -> Error(x, "INVALID_METHOD")

(* The state after a character of the url, "s_dead" if it cannot be there. *)
parse_url_char(s, ch) ==
    LET Is(c) == ch = Code[c]
    IN  CASE ch \in {SP, CR, LF, HT, 12} -> "s_dead"
          [] s = "s_req_spaces_before_url" /\ (Is("/") \/ Is("*")) -> "s_req_path"
          [] s \in {"s_req_spaces_before_url", "s_req_schema"} /\ IS_ALPHA(ch) ->
               "s_req_schema"
          [] s = "s_req_schema" /\ Is(":") -> "s_req_schema_slash"
          [] s = "s_req_schema_slash" /\ Is("/") -> "s_req_schema_slash_slash"
          [] s = "s_req_schema_slash_slash" /\ Is("/") -> "s_req_server_start"
          [] s = "s_req_server_with_at" /\ Is("@") -> "s_dead"
          [] s \in {"s_req_server_start", "s_req_server", "s_req_server_with_at"} ->
               CASE Is("/") -> "s_req_path"
                 [] Is("?") -> "s_req_query_string_start"
                 [] Is("@") -> "s_req_server_with_at"
                 [] IS_USERINFO_CHAR(ch) \/ Is("[") \/ Is("]") -> "s_req_server"
                 [] OTHER -> "s_dead"
          [] s = "s_req_path" /\ IS_URL_CHAR(ch) -> s
          [] s = "s_req_path" /\ Is("?") -> "s_req_query_string_start"
          [] s \in {"s_req_query_string_start", "s_req_query_string"}
                /\ (IS_URL_CHAR(ch) \/ Is("?")) -> "s_req_query_string"
          [] s \in {"s_req_path", "s_req_query_string_start", "s_req_query_string"}
                /\ Is("#") -> "s_req_fragment_start"
          [] s \in {"s_req_fragment_start", "s_req_fragment"}
                /\ (IS_URL_CHAR(ch) \/ Is("?")) -> "s_req_fragment"
          [] s \in {"s_req_fragment_start", "s_req_fragment"} /\ Is("#") -> s
          [] OTHER -> "s_dead"

(* Also the first byte of a url, after the spaces.                         *)
UrlByte(x, ch) ==
    LET y == UPDATE_STATE(x, parse_url_char(x.p.state, ch))
    IN  IF y.p.state = "s_dead" THEN Error(y, "INVALID_URL") ELSE y

s_req_spaces_before_url(x, ch) ==
    IF ch = SP THEN x
    ELSE UrlByte(MARK(IF x.p.method = "CONNECT" THEN UPDATE_STATE(x, "s_req_server_start")
                      ELSE x, "url"), ch)

(* A url without a version is an HTTP/0.9 request.                         *)
s_req_url(x, ch) ==
    LET mayEnd == x.p.state \notin {"s_req_schema", "s_req_schema_slash",
                                    "s_req_schema_slash_slash", "s_req_server_start"}
        End(y) == CALLBACK_DATA(y, "url", y.i - 1, y.i)
        Old(y) == [y EXCEPT !.p.http_major = 0, !.p.http_minor = 9]
    IN  CASE ch \in {SP, CR, LF} /\ ~mayEnd -> Error(x, "INVALID_URL")
          [] ch = SP /\ mayEnd -> End(UPDATE_STATE(x, "s_req_http_start"))
          [] ch = CR /\ mayEnd -> End(UPDATE_STATE(Old(x), "s_req_line_almost_done"))
          [] ch = LF /\ mayEnd -> End(UPDATE_STATE(Old(x), "s_header_field_start"))
          [] OTHER -> UrlByte(x, ch)

(* The letters of "HTTP/" (or, for SOURCE, "ICE/") one after the other.    *)
VersionLetters ==
    [s_req_http_H |-> <<"T", "s_req_http_HT">>, s_req_http_HT |-> <<"T", "s_req_http_HTT">>,
     s_req_http_HTT |-> <<"P", "s_req_http_HTTP">>, s_req_http_I |-> <<"C", "s_req_http_IC">>,
     s_req_http_IC |-> <<"E", "s_req_http_HTTP">>,
     s_req_http_HTTP |-> <<"/", "s_req_http_major">>]

s_req_http(x, ch) ==
    LET st == x.p.state
    IN  CASE st = "s_req_http_start" ->
               CASE ch = SP -> x
                 [] ch = Code["H"] -> UPDATE_STATE(x, "s_req_http_H")
                 [] ch = Code["I"] /\ x.p.method = "SOURCE" -> UPDATE_STATE(x, "s_req_http_I")
                 [] OTHER -> Error(x, "INVALID_CONSTANT")
          [] st \in DOMAIN VersionLetters ->
               STRICT_CHECK(x, ch # Code[VersionLetters[st][1]],
                            UPDATE_STATE(x, VersionLetters[st][2]))
          [] st = "s_req_http_major" /\ IS_NUM(ch) ->
               UPDATE_STATE([x EXCEPT !.p.http_major = ch - 48], "s_req_http_dot")
          [] st = "s_req_http_dot" /\ ch = Code["."] -> UPDATE_STATE(x, "s_req_http_minor")
          [] st = "s_req_http_minor" /\ IS_NUM(ch) ->
               UPDATE_STATE([x EXCEPT !.p.http_minor = ch - 48], "s_req_http_end")
          [] st = "s_req_http_end" /\ ch = CR -> UPDATE_STATE(x, "s_req_line_almost_done")
          [] st = "s_req_http_end" /\ ch = LF -> UPDATE_STATE(x, "s_header_field_start")
          [] st = "s_req_line_almost_done" ->
               IF ch = LF THEN UPDATE_STATE(x, "s_header_field_start")
               ELSE Error(x, "LF_EXPECTED")
          [] OTHER -> Error(x, "INVALID_VERSION")

-----------------------------------------------------------------------------
(* Headers.  A header the parser cares about is recognised letter by       *)
(* letter: in the state on the left, the rest of the word leads to the     *)
(* state on the right and another letter to the state given by the caller. *)

FieldWords ==
    [h_matching_connection |-> <<Text("connection"), "h_connection">>,
     h_matching_proxy_connection |-> <<Text("proxy-connection"), "h_connection">>,
     h_matching_content_length |-> <<Text("content-length"), "h_content_length">>,
     h_matching_transfer_encoding |-> <<Text("transfer-encoding"), "h_transfer_encoding">>,
     h_matching_upgrade |-> <<Text("upgrade"), "h_upgrade">>]

ValueWords ==
    [h_matching_transfer_encoding_chunked |->
        <<Text("chunked"), "h_transfer_encoding_chunked">>,
     h_matching_connection_keep_alive |-> <<Text("keep-alive"), "h_connection_keep_alive">>,
     h_matching_connection_close |-> <<Text("close"), "h_connection_close">>,
     h_matching_connection_upgrade |-> <<Text("upgrade"), "h_connection_upgrade">>]

(* index counts from 0, and the letter at 0 has been seen.                 *)
MatchLetter(x, c, word, matched, other) ==
    LET index == x.p.index + 1
        y == [x EXCEPT !.p.index = index]
    IN  CASE index >= Len(word) \/ c # word[index + 1] -> SetHeaderState(y, other)
          [] index = Len(word) - 1 -> SetHeaderState(y, matched)
          [] OTHER -> y

s_header_field_start(x, ch) ==
    LET c == TOKEN(ch)
        first == CASE c = Code["c"] -> "h_C"
                   [] c = Code["p"] -> "h_matching_proxy_connection"
                   [] c = Code["t"] -> "h_matching_transfer_encoding"
                   [] c = Code["u"] -> "h_matching_upgrade"
                   [] OTHER -> "h_general"
    IN  CASE ch = CR -> UPDATE_STATE(x, "s_headers_almost_done")
          [] ch = LF -> REEXECUTE(UPDATE_STATE(x, "s_headers_almost_done"))
          [] ch \notin {CR, LF} /\ c = 0 -> Error(x, "INVALID_HEADER_TOKEN")
          [] OTHER -> [MARK(x, "header_field") EXCEPT !.p.index = 0,
                           !.p.state = "s_header_field", !.p.header_state = first]

(* One byte of the code's inner loop over the name.                        *)
s_header_field(x, ch) ==
    LET c == TOKEN(ch)
        hs == x.p.header_state
        Then(letter, next) == [x EXCEPT !.p.index = @ + 1, !.p.header_state =
                                  IF c = Code[letter] THEN next ELSE "h_general"]
    IN  CASE c = 0 /\ ch = Code[":"] ->
               CALLBACK_DATA(UPDATE_STATE(x, "s_header_value_discard_ws"),
                             "header_field", x.i - 1, x.i)
          [] c = 0 /\ ch # Code[":"] -> Error(x, "INVALID_HEADER_TOKEN")
          [] c # 0 /\ hs = "h_general" -> x
          [] c # 0 /\ hs = "h_C" -> Then("o", "h_CO")
          [] c # 0 /\ hs = "h_CO" -> Then("n", "h_CON")
          [] c # 0 /\ hs = "h_CON" ->
               IF c = Code["t"] THEN Then("t", "h_matching_content_length")
               ELSE Then("n", "h_matching_connection")
          [] c # 0 /\ hs \in DOMAIN FieldWords ->
               MatchLetter(x, c, FieldWords[hs][1], FieldWords[hs][2], "h_general")
          [] c # 0 /\ hs \in {"h_connection", "h_content_length", "h_transfer_encoding",
                              "h_upgrade"} -> SetHeaderState(x, "h_general")
          [] OTHER -> Error(x, "ABORT")

(* The word that a Connection value, or the next in its list, may be.      *)
ConnectionWord(c, otherwise) ==
    CASE c = Code["k"] -> "h_matching_connection_keep_alive"
      [] c = Code["c"] -> "h_matching_connection_close"
      [] c = Code["u"] -> "h_matching_connection_upgrade"
      [] OTHER -> otherwise

s_header_value_start(x, ch) ==
    LET hs == x.p.header_state
        c == LOWER(ch)
        y == [MARK(x, "header_value") EXCEPT !.p.state = "s_header_value", !.p.index = 0]
    IN  CASE hs = "h_upgrade" -> SetHeaderState(SetFlag(y, "F_UPGRADE"), "h_general")
          [] hs = "h_transfer_encoding" /\ c = Code["c"] ->
               SetHeaderState(y, "h_matching_transfer_encoding_chunked")
          [] hs = "h_content_length" ->
               CASE ~IS_NUM(ch) -> Error(y, "INVALID_CONTENT_LENGTH")
                 [] IS_NUM(ch) /\ "F_CONTENTLENGTH" \in x.p.flags ->
                      Error(y, "UNEXPECTED_CONTENT_LENGTH")
                 [] OTHER -> SetHeaderState([SetFlag(y, "F_CONTENTLENGTH")
                                 EXCEPT !.p.content_length = ch - 48],
                                "h_content_length_num")
          [] hs = "h_connection" ->
               SetHeaderState(y, ConnectionWord(c, "h_matching_connection_token"))
          [] hs \in {"h_content_length_ws", "h_matching_connection_token_start"} -> y
          [] OTHER -> SetHeaderState(y, "h_general")

s_header_value_discard_ws(x, ch) ==
    CASE ch \in {SP, HT} -> x
      [] ch = CR -> UPDATE_STATE(x, "s_header_value_discard_ws_almost_done")
      [] ch = LF -> UPDATE_STATE(x, "s_header_value_discard_lws")
      [] OTHER -> s_header_value_start(x, ch)

\* A slip: the digit that is added is forgotten.
DigitPastLimit(x, base, digit, next) ==
    IF ULLONG_MAX \div base < x.p.content_length
    THEN Error(x, "INVALID_CONTENT_LENGTH")
    ELSE [next EXCEPT !.p.content_length = (@ * base + digit) % (ULLONG_MAX + 1)]

(* One more digit, in 64 bits; a number near the limit is refused.         *)
Digit(x, base, digit, next) ==
    IF (ULLONG_MAX - base) \div base < x.p.content_length
    THEN Error(x, "INVALID_CONTENT_LENGTH")
    ELSE [next EXCEPT !.p.content_length = (@ * base + digit) % (ULLONG_MAX + 1)]

ConnectionFlag == [h_connection_keep_alive |-> "F_CONNECTION_KEEP_ALIVE",
                   h_connection_close |-> "F_CONNECTION_CLOSE",
                   h_connection_upgrade |-> "F_CONNECTION_UPGRADE"]

(* One byte of the code's inner loop over the value.                       *)
s_header_value(x, ch) ==
    LET c == LOWER(ch)
        hs == x.p.header_state
        NextToken(y) == SetHeaderState([y EXCEPT !.p.index = 0],
                                       "h_matching_connection_token_start")
        ended == UPDATE_STATE(x, "s_header_almost_done")
    IN  CASE ch = CR -> CALLBACK_DATA(ended, "header_value", x.i - 1, x.i)
          [] ch = LF -> REEXECUTE(CALLBACK_DATA(ended, "header_value", x.i - 1, x.i - 1))
          [] ~IS_HEADER_CHAR(ch) -> Error(x, "INVALID_HEADER_TOKEN")
          [] OTHER ->
        CASE hs \in {"h_connection", "h_transfer_encoding"} -> Error(x, "ABORT")
          [] hs = "h_content_length" /\ ch = SP -> x
          [] hs \in {"h_content_length", "h_content_length_num"} ->
               CASE ch = SP -> SetHeaderState(x, "h_content_length_ws")
                 [] IS_NUM(ch) ->
                      Digit(x, 10, ch - 48, SetHeaderState(x, "h_content_length_num"))
                 [] OTHER -> Error(x, "INVALID_CONTENT_LENGTH")
          [] hs = "h_content_length_ws" ->
               IF ch = SP THEN x ELSE Error(x, "INVALID_CONTENT_LENGTH")
          [] hs = "h_matching_transfer_encoding_chunked" ->
               MatchLetter(x, c, ValueWords[hs][1], ValueWords[hs][2], "h_general")
          [] hs = "h_matching_connection_token_start" ->
               SetHeaderState(x, ConnectionWord(c,
                   CASE TOKEN(c) # 0 -> "h_matching_connection_token"
                     [] c \in {SP, HT} -> hs
                     [] OTHER -> "h_general"))
          [] hs \in DOMAIN ValueWords \ {"h_matching_transfer_encoding_chunked"} ->
               MatchLetter(x, c, ValueWords[hs][1], ValueWords[hs][2],
                           "h_matching_connection_token")
          [] hs = "h_matching_connection_token" ->
               IF ch = Code[","] THEN NextToken(x) ELSE x
          [] hs = "h_transfer_encoding_chunked" ->
               IF ch # SP THEN SetHeaderState(x, "h_general") ELSE x
          [] hs \in DOMAIN ConnectionFlag ->
               CASE ch = Code[","] -> NextToken(SetFlag(x, ConnectionFlag[hs]))
                 [] ch = SP -> x
                 [] OTHER -> SetHeaderState(x, "h_matching_connection_token")
          [] OTHER -> SetHeaderState(x, "h_general")

(* What a finished value sets.                                             *)
ValueFlags(header_state) ==
    CASE header_state \in DOMAIN ConnectionFlag -> {ConnectionFlag[header_state]}
      [] header_state = "h_transfer_encoding_chunked" -> {"F_CHUNKED"}
      [] OTHER -> {}

(* After the value's line end: a folded line continues the value.          *)
s_header_value_lws(x, ch) ==
    IF ch \in {SP, HT}
    THEN REEXECUTE([x EXCEPT !.p.state = "s_header_value_start", !.p.header_state =
                        IF @ = "h_content_length_num" THEN "h_content_length_ws" ELSE @])
    ELSE REEXECUTE([x EXCEPT !.p.state = "s_header_field_start",
                        !.p.flags = @ \cup ValueFlags(x.p.header_state)])

(* The same after an empty value.                                          *)
s_header_value_discard_lws(x, ch) ==
    CASE ch \in {SP, HT} -> UPDATE_STATE(x, "s_header_value_discard_ws")
      [] ch \notin {SP, HT} /\ x.p.header_state = "h_content_length" ->
           Error(x, "INVALID_CONTENT_LENGTH")
      [] OTHER ->
           REEXECUTE(CALLBACK_DATA(
               MARK([x EXCEPT !.p.state = "s_header_field_start",
                        !.p.flags = @ \cup ValueFlags(x.p.header_state)], "header_value"),
               "header_value", x.i - 1, x.i - 1))

s_header_end(x, ch) ==
    LET st == x.p.state
    IN  CASE st = "s_header_almost_done" ->
               IF ch = LF THEN UPDATE_STATE(x, "s_header_value_lws")
               ELSE Error(x, "LF_EXPECTED")
          [] st = "s_header_value_lws" -> s_header_value_lws(x, ch)
          [] st = "s_header_value_discard_ws_almost_done" ->
               STRICT_CHECK(x, ch # LF, UPDATE_STATE(x, "s_header_value_discard_lws"))
          [] st = "s_header_value_discard_lws" -> s_header_value_discard_lws(x, ch)

-----------------------------------------------------------------------------
(* The end of the headers, bodies and chunks.                              *)

(* The empty line: of the trailers of a chunked body, or of the headers.   *)
s_headers_almost_done(x, ch) ==
    LET done == UPDATE_STATE([x EXCEPT !.p.upgrade =
                    \/ {"F_UPGRADE", "F_CONNECTION_UPGRADE"} \subseteq x.p.flags
                    \/ x.p.method = "CONNECT"], "s_headers_done")
    IN  CASE ch # LF -> Error(x, "STRICT")
          [] ch = LF /\ "F_TRAILING" \in x.p.flags ->
               REEXECUTE(UPDATE_STATE(x, "s_message_done"))
          [] ch = LF /\ {"F_CHUNKED", "F_CONTENTLENGTH"} \subseteq x.p.flags ->
               Error(x, "UNEXPECTED_CONTENT_LENGTH")
          [] OTHER -> REEXECUTE(CALLBACK(done, on_headers_complete(done.s, done.p),
                                         "headers_complete", done.i - 1))

s_headers_done(x, ch) ==
    LET p == x.p
        y == [x EXCEPT !.p.nread = 0]
        hasBody == "F_CHUNKED" \in p.flags \/ p.content_length \notin {0, ULLONG_MAX}
        complete == MESSAGE_COMPLETE(UPDATE_STATE(y, NEW_MESSAGE(p)))
    IN  CASE ch # LF -> Error(x, "STRICT")
          [] ch = LF /\ p.upgrade /\ (p.method = "CONNECT" \/ ~hasBody) ->
               IF complete.ret >= 0 THEN complete ELSE RETURN(complete, x.i)
          [] OTHER ->
               CASE "F_CHUNKED" \in p.flags -> UPDATE_STATE(y, "s_chunk_size_start")
                 [] "F_CHUNKED" \notin p.flags /\ hasBody -> UPDATE_STATE(y, "s_body_identity")
                 [] OTHER -> complete

\* A slip: all the packet is taken for body.
ReadPacket(x) ==
    [MARK(x, "body") EXCEPT !.p.content_length =
         IF @ <= Len(x.data) - x.i + 1 THEN 0 ELSE @ - (Len(x.data) - x.i + 1),
         !.i = Len(x.data)]

(* As much of the body as the packet holds.                                *)
ReadBody(x) ==
    LET left == Len(x.data) - x.i + 1
        to_read == IF x.p.content_length < left THEN x.p.content_length ELSE left
    IN  [MARK(x, "body") EXCEPT !.p.content_length = @ - to_read, !.i = @ + to_read - 1]

LengthKnown(x) == x.p.content_length \notin {0, ULLONG_MAX}

s_body_identity(x) ==
    LET y == ReadBody(x)
    IN  assert(x, LengthKnown(x),
               IF y.p.content_length > 0 THEN y
               ELSE REEXECUTE(CALLBACK_DATA(UPDATE_STATE(y, "s_message_done"),
                                            "body", y.i, y.i - 1)))

s_message_done(x) ==
    LET complete == MESSAGE_COMPLETE(UPDATE_STATE(x, NEW_MESSAGE(x.p)))
    IN  IF complete.ret < 0 /\ x.p.upgrade THEN RETURN(complete, x.i) ELSE complete

s_chunk_size_start(x, ch) ==
    assert(x, x.p.nread = 1,
           IF unhex(ch) = -1 THEN Error(x, "INVALID_CHUNK_SIZE")
           ELSE UPDATE_STATE([x EXCEPT !.p.content_length = unhex(ch)], "s_chunk_size"))

s_chunk_size(x, ch) ==
    CASE ch = CR -> UPDATE_STATE(x, "s_chunk_size_almost_done")
      [] ch \in {Code[";"], SP} -> UPDATE_STATE(x, "s_chunk_parameters")
      [] unhex(ch) # -1 -> Digit(x, 16, unhex(ch), x)
      [] OTHER -> Error(x, "INVALID_CHUNK_SIZE")

s_chunk_parameters(x, ch) ==
    IF ch = CR THEN UPDATE_STATE(x, "s_chunk_size_almost_done") ELSE x

(* A chunk of size 0 ends the body: trailers, read as headers, follow.     *)
s_chunk_size_almost_done(x, ch) ==
    LET y == [x EXCEPT !.p.nread = 0]
    IN  STRICT_CHECK(x, ch # LF,
            IF x.p.content_length = 0
            THEN SetFlag(UPDATE_STATE(y, "s_header_field_start"), "F_TRAILING")
            ELSE UPDATE_STATE(y, "s_chunk_data"))

s_chunk_data(x) ==
    LET y == ReadBody(x)
    IN  assert(x, LengthKnown(x),
               IF y.p.content_length > 0 THEN y
               ELSE UPDATE_STATE(y, "s_chunk_data_almost_done"))

\* A slip: the count of header bytes goes on after a chunk.
CountGoesOn(x, ch) ==
    IF x.p.state = "s_chunk_data_almost_done"
    THEN CALLBACK_DATA(UPDATE_STATE(x, "s_chunk_data_done"), "body", x.i - 1, x.i)
    ELSE UPDATE_STATE([x EXCEPT !.p.nread = 1], "s_chunk_size_start")

s_chunk_data_end(x, ch) ==
    IF x.p.state = "s_chunk_data_almost_done"
    THEN assert(x, x.p.content_length = 0,
           STRICT_CHECK(x, ch # CR,
             CALLBACK_DATA(UPDATE_STATE(x, "s_chunk_data_done"), "body", x.i - 1, x.i)))
    ELSE STRICT_CHECK(x, ch # LF,
           UPDATE_STATE([x EXCEPT !.p.nread = 0], "s_chunk_size_start"))

s_chunk(x, ch) ==
    LET st == x.p.state
    IN  assert(x, "F_CHUNKED" \in x.p.flags,
            CASE st = "s_chunk_size_start" -> s_chunk_size_start(x, ch)
              [] st = "s_chunk_size" -> s_chunk_size(x, ch)
              [] st = "s_chunk_parameters" -> s_chunk_parameters(x, ch)
              [] st = "s_chunk_size_almost_done" -> s_chunk_size_almost_done(x, ch)
              [] st = "s_chunk_data" -> s_chunk_data(x)
              [] OTHER -> s_chunk_data_end(x, ch))

(* After a message that closes the connection only line ends may come.     *)
s_dead(x, ch) == IF ch \in {CR, LF} THEN x ELSE Error(x, "CLOSED_CONNECTION")

-----------------------------------------------------------------------------
(* One byte, and the loop over a packet.                                   *)

StepAt(x, ch) ==
    LET st == x.p.state
    IN  CASE st = "s_start_req" -> s_start_req(x, ch)
          [] st = "s_req_method" -> s_req_method(x, ch)
          [] st = "s_req_spaces_before_url" -> s_req_spaces_before_url(x, ch)
          [] st \in UrlStates -> s_req_url(x, ch)
          [] st \in {"s_req_http_start", "s_req_http_major", "s_req_http_dot",
                     "s_req_http_minor", "s_req_http_end", "s_req_line_almost_done"}
                    \cup DOMAIN VersionLetters -> s_req_http(x, ch)
          [] st = "s_header_field_start" -> s_header_field_start(x, ch)
          [] st = "s_header_field" -> s_header_field(x, ch)
          [] st = "s_header_value_discard_ws" -> s_header_value_discard_ws(x, ch)
          [] st = "s_header_value_start" -> s_header_value_start(x, ch)
          [] st = "s_header_value" -> s_header_value(x, ch)
          [] st \in {"s_header_almost_done", "s_header_value_lws",
                     "s_header_value_discard_ws_almost_done",
                     "s_header_value_discard_lws"} -> s_header_end(x, ch)
          [] st = "s_headers_almost_done" -> s_headers_almost_done(x, ch)
          [] st = "s_headers_done" -> s_headers_done(x, ch)
          [] st = "s_body_identity" -> s_body_identity(x)
          [] st = "s_message_done" -> s_message_done(x)
          [] st = "s_dead" -> s_dead(x, ch)
          [] OTHER -> s_chunk(x, ch)

(* The packet has ended: what is marked is given out, to be continued by   *)
(* the next packet.                                                        *)
MarkNames == {"url", "header_field", "header_value", "body"}
Leftovers(x) ==
    LET marked == {m \in MarkNames : x.mark[m] # 0}
        Give(m) == CALLBACK_DATA(x, m, Len(x.data), Len(x.data))
        Finish(y) == IF y.ret >= 0 THEN y ELSE RETURN(y, Len(x.data))
    IN  CASE marked = {} -> Finish(x)
          [] \E m \in MarkNames : marked = {m} -> Finish(Give(CHOOSE m \in marked : TRUE))
          [] OTHER -> Error(x, "ABORT")

(* A byte that is looked at again is not counted again.  The code counts   *)
(* the bytes of a name or a value when it has gone through them, the       *)
(* packet is refused all the same.                                         *)
COUNT_HEADER_SIZE(x) ==
    LET y == [x EXCEPT !.p.nread = @ + 1]
    IN  CASE x.again \/ ~PARSING_HEADER(x.p.state) -> x
          [] OTHER -> IF y.p.nread > max_header_size THEN Error(y, "HEADER_OVERFLOW") ELSE y

(* The byte is taken, unless it already made the headers too long.         *)
ByteTaken(x) == IF x.ret >= 0 THEN x ELSE StepAt([x EXCEPT !.again = FALSE], x.data[x.i])
Advanced(x) == IF x.again THEN x ELSE [x EXCEPT !.i = @ + 1]

RECURSIVE Loop(_)
Loop(x) ==
    IF x.ret >= 0 THEN x
    ELSE IF x.i > Len(x.data) THEN Leftovers(x)
    ELSE Loop(Advanced(ByteTaken(COUNT_HEADER_SIZE(x))))

\* A slip: a header value is not taken up again.
ResumedInName(p, name) ==
    \/ name = "header_field" /\ p.state = "s_header_field"
    \/ name = "url" /\ p.state \in UrlStates

(* A part that the last packet left unfinished goes on at the first byte.  *)
Resumed(p, name) ==
    \/ name = "header_field" /\ p.state = "s_header_field"
    \/ name = "header_value" /\ p.state = "s_header_value"
    \/ name = "url" /\ p.state \in UrlStates

http_parser_execute(p, s, data) ==
    Loop([p |-> p, s |-> s, data |-> data, i |-> 1, again |-> FALSE,
          mark |-> [m \in MarkNames |-> IF Resumed(p, m) THEN 1 ELSE 0],
          ret |-> IF p.http_errno # "OK" THEN 0 ELSE -1])
=============================================================================
