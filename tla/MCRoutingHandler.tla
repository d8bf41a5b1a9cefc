-------------------------- MODULE MCRoutingHandler --------------------------
(* Patterns that share fragments, with and without wildcards. *)
EXTENDS RoutingHandler

PathFragments == {"a", "b", "*", "**"}
AllPatterns == {<<"a", "b">>, <<"a", "*">>, <<"*", "b">>, <<"a", "**">>}
WildcardPatterns == {<<"a", "*">>, <<"*", "b">>}
FullPaths == {<<"a">>, <<"a", "b">>}
RequestPaths ==
    {<<x>> : x \in {"a", "b"}} \cup ({"a", "b", "*"} \X {"a", "b", "**"})
      \cup {<<"a", "b", "a">>, <<"a", "**", "b">>, <<"b", "b", "b">>}
GetAndPut == {"GET", "PUT"}
OnlyGet == {"GET"}
=============================================================================
