----------------------------- MODULE MCUrlText -----------------------------
(***************************************************************************)
(* Forms and cookies of up to three pairs, whose words have separators,    *)
(* percent signs, blanks and bytes that are no characters, or nothing at   *)
(* all; maps with several values of a key; uris with and without a host,   *)
(* with addresses in brackets, with odd fragments and queries.             *)
(***************************************************************************)
EXTENDS UrlText

Sample(kind, parts) == [kind |-> kind, parts |-> parts]
UpToThree(S) == UNION {[1..n -> S] : n \in 1..3}

UrlWords == {<<>>, Text("a"), Text("b=&"), Text("% +"), <<255>>}
Forms == {Sample("form", s) : s \in UpToThree(UrlWords \X UrlWords)}

CookieWords == {Text("a"), Text("b%"), Text("c d")}
CookieSets == {Sample("cookies", s) : s \in UpToThree(CookieWords \X (CookieWords \cup {<<>>}))}

FormKeys == {{Text("a"), <<>>}, {<<>>, Text("aa"), Text("b=&")}}
FormMaps ==
    {Sample("map", f) : f \in
        UNION {[keys -> UNION {{<<v>>, <<v, Text("a")>>} : v \in UrlWords}] : keys \in FormKeys}}

Origin(protocol, hostname, port) == [protocol |-> protocol, hostname |-> hostname, port |-> port]
Origins == {Origin(<<>>, <<>>, <<>>), Origin(Text("http"), Text("h.x"), <<>>),
            Origin(Text("http"), Text("[::1]"), Text("80")),
            Origin(Text("a+b"), Text("u@h?:"), Text("8"))}
Fragments == {<<>>, <<Text("a")>>, <<<<>>, Text("b?%")>>, <<Text("a:"), <<>>, Text("c=")>>}
Queries == UNION {[keys -> UrlWords] :
                    keys \in {{}, {Text("a")}, {<<>>, Text("b=&")}, {Text("a"), Text("aa/?")}}}

(* A query whose last value is empty loses its last key, and one without a *)
(* path is taken for a part of the host.                                   *)
Sound(u) ==
    /\ DOMAIN u.query # {} => u.query[Last(SortedKeys(u.query))] # <<>>
    /\ u.protocol # <<>> /\ u.fragments = <<>> => DOMAIN u.query = {}
Uris ==
    {[protocol |-> o.protocol, hostname |-> o.hostname, port |-> o.port,
      fragments |-> f, query |-> q] : o \in Origins, f \in Fragments, q \in Queries}
UriSamples == {Sample("uri", u) : u \in {x \in Uris : Sound(x)}}

MCUrlSamples == Forms \cup CookieSets \cup FormMaps \cup UriSamples
=============================================================================
