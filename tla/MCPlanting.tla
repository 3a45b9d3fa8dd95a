----------------------------- MODULE MCPlanting -----------------------------
EXTENDS Planting, TLC, Functions

\* A step asked for by a JSON Pointer is written with its slash, an index with
\* its brackets.
KeyPaths == {<<"a">>, <<"a", "[0]">>, <<"b">>}
Itself == [path \in KeyPaths |-> path]
Texts(places) == {<<place, "text">> : place \in places}

\* The field a is a list, or an object with a field named 0.
List == [leads |-> Itself @@ <<"/a", "/0">> :> <<"a", "[0]">> @@ <<"/b">> :> <<"b">>,
         always |-> {<<"a">>, <<"a", "[0]">>, <<"b">>}, sometimes |-> {<<"a", "[1]">>},
         holds |-> Texts({<<"a", "[0]">>, <<"b">>}), holdsKey |-> KeyPaths]
Object == [leads |-> [path \in {<<"a">>, <<"b">>} |-> path]
                        @@ <<"/a", "/0">> :> <<"a", "0">> @@ <<"/b">> :> <<"b">>,
           always |-> {<<"a">>, <<"a", "0">>}, sometimes |-> {<<"b">>},
           holds |-> Texts({<<"a", "0">>, <<"b">>}), holdsKey |-> {<<"a">>, <<"b">>}]
Headers == [leads |-> <<"/b">> :> <<"b">>, always |-> {<<"b">>}, sometimes |-> {},
            holds |-> Texts({<<"b">>}), holdsKey |-> {}]

Types == {[payload |-> List, headers |-> None], [payload |-> List, headers |-> Headers],
          [payload |-> Object, headers |-> Headers]}
Param(name, value, pointer, inHeaders) ==
    [name |-> name, value |-> value, pointer |-> pointer, inHeaders |-> inHeaders]
Params == {Param("region", "text", <<"/a", "/0">>, FALSE), Param("shard", "text", <<"/a", "/0">>, FALSE),
           Param("region", "text", <<"/b">>, FALSE), Param("tenant", "text", <<"/b">>, TRUE), Param("unit", "text", <<"/b">>, TRUE),
           Param("odd", "other", <<"/b">>, FALSE), Param("free", "text", None, FALSE)}

UpTo(n, S) == UNION {[1..k -> S] : k \in 0..n}
MCRuns == [types : UpTo(2, Types) \ {<<>>}, key : KeyPaths \union {None, Malformed},
           params : {s \in UpTo(2, Params) : IsInjective(s)}]
=============================================================================
