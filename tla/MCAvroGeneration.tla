-------------------------- MODULE MCAvroGeneration --------------------------
EXTENDS AvroGeneration

Plain(k, types) == [kind |-> k, of |-> types, logical |-> "none", honoured |-> FALSE, detail |-> 0]
Leaf(k) == Plain(k, <<>>)
Overlaid(k, l, detail) == [Leaf(k) EXCEPT !.logical = l, !.honoured = TRUE, !.detail = detail]
Unhonoured(k, l) == [Leaf(k) EXCEPT !.logical = l]
Sized(k, detail) == [Leaf(k) EXCEPT !.detail = detail]

\* A record of one field, of a list or tree when the field leads back to it.
Node(next) == Plain("record", "next" :> next)
Links == {Plain("union", <<"null", "Node">>), Plain("union", <<"string", "Node">>),
          Plain("array", "Node"), Plain("map", "Node"), Node("Node"), Leaf("string")}
Roots == {Node("Node"), Node("Link"), Plain("union", <<"null", "Node">>), Plain("array", "Node"),
          Plain("record", "next" :> "Link" @@ "name" :> "string")}
Avscs(root, link) ==
    [root |-> "Root", types |-> "Root" :> root @@ "Node" :> Node("Link") @@ "Link" :> link
                                @@ "string" :> Leaf("string") @@ "null" :> Leaf("null")]
Recursive == {Avscs(root, link) : root \in Roots, link \in Links}

\* Records of a field of every sort, and of a union of sorts the base type
\* alone does not tell apart.
Fields == {Leaf("long"), Overlaid("long", "timestamp-millis", 0), Unhonoured("int", "timestamp-millis"),
           Unhonoured("long", "duration"), Overlaid("string", "uuid", 0), Overlaid("bytes", "decimal", 4),
           Overlaid("bytes", "decimal", 9), Unhonoured("bytes", "decimal"),
           Plain("union", <<"null", "long", "millis", "micros">>),
           Plain("union", <<"bytes", "decimal", "Money", "Colour">>),
           Plain("array", "union"), Node("union")}
Flat(field) ==
    [root |-> "Root",
     types |-> "Root" :> Plain("record", "next" :> "field" @@ "money" :> "Money" @@ "colour" :> "Colour" @@ "name" :> "union")
               @@ "field" :> field @@ "union" :> Plain("union", <<"millis", "long", "null">>)
               @@ "null" :> Leaf("null") @@ "long" :> Leaf("long")
               @@ "millis" :> Overlaid("long", "timestamp-millis", 0)
               @@ "micros" :> Overlaid("long", "timestamp-micros", 0)
               @@ "bytes" :> Leaf("bytes") @@ "decimal" :> Overlaid("bytes", "decimal", 4)
               @@ "Money" :> Overlaid("fixed", "decimal", 4) @@ "Colour" :> Sized("enum", 2)]
MCSchemas == Recursive \union {Flat(field) : field \in Fields}

\* Keys: of each scalar sort, of named types defined as in the value avsc or
\* not, and a list as the value avsc has it.
ScalarKey(type) == [root |-> "key", types |-> "key" :> type]
NamedKey(name, type) == [root |-> name, types |-> name :> type]
MCKeySchemas ==
    {ScalarKey(f) : f \in {g \in Fields : g.kind \in Primitives}} \union
    {NamedKey("Money", Overlaid("fixed", "decimal", d)) : d \in {4, 9}} \union
    {NamedKey("Colour", Sized("enum", d)) : d \in {2, 3}} \union
    {[root |-> "Node", types |-> "Node" :> Node("Link") @@ "Link" :> link
                                 @@ "string" :> Leaf("string") @@ "null" :> Leaf("null")] :
        link \in {Plain("union", <<"null", "Node">>), Plain("array", "Node")}} \union
    {[root |-> "key", types |-> "key" :> Plain("array", "string") @@ "string" :> Leaf("string")]}
MCTexts == {"plain", "uuid", "symbol"}
MCPaths == {<<"next">>, <<"name">>, <<"money">>, <<"colour">>, <<"next", "next">>, <<"next", "0">>}

\* A linked list, as it stands and as a field of another record.
ListSchemas == {Avscs(Node("Node"), Plain("union", <<"null", "Node">>))}
=============================================================================
