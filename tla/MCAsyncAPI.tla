----------------------------- MODULE MCAsyncAPI -----------------------------
(* Families of small documents, each varying one part: the topic's templates  *)
(* and parameters, its messages, a schema's references, an avsc's, traits.    *)
EXTENDS AsyncAPI

MCTopic == <<"a", "b", "a", "b">>
MCJSONSchemaFormats == {Leaf("application/schema+json;version=draft-07")}
MCAvroFormats == {Leaf("application/vnd.apache.avro;version=1.9.0")}
AvroFormat == CHOOSE f \in MCAvroFormats : TRUE

Doc(major, channels, components) == [major |-> major, channels |-> channels, components |-> components]

\* An entry of either version, bound through its key or its address.
Channel(id, major, template, messages, members) ==
    [id |-> id, key |-> template,
     node |-> Object(members @@
        IF major = 3
        THEN [address |-> Text(template),
              messages |-> Object([k \in {m \in DOMAIN messages : messages[m] # Null} |-> messages[k]])]
        ELSE [o \in DOMAIN messages |-> Object("message" :> messages[o])])]

Message(members) == Object([payload |-> Empty] @@ members)
One(message) == [publish |-> message]

\* A document with one message, bound to the topic by its name.
Alone(major, message, components) ==
    Doc(major, <<Channel("c", major, Literal(MCTopic), One(message), <<>>)>>, components)

-----------------------------------------------------------------------------
E == <<>>
Templates == {Literal(MCTopic), Literal(<<"a">>), Template(<<E, <<"b">>>>, <<"x">>),
              Template(<<E, E, E>>, <<"x", "y">>), Template(<<E, E, E>>, <<"x", "x">>),
              Template(<<E, <<"b">>, E>>, <<"x", "y">>), Template(<<E, <<"b">>>>, <<"y">>)}

At(place) == "location" :> Text(place)
Allowing(major, value) ==
    LET list == "enum" :> List(<<Text(value)>>)
    IN IF major = 3 THEN list ELSE "schema" :> Object(list)
Declarations(major) ==
    {Null, Ref("P"), Object(At(<<"header", "x">>)), Object(At(<<"payload">>)),
     Object(Allowing(major, <<"a">>)), Object("schema" :> Object("type" :> Leaf("integer")))}

Bound(major) ==
    {Doc(major, <<Channel("c", major, t1, One(Message(<<>>)), "parameters" :> Object("x" :> p1)),
                  Channel("d", major, t2, One(Ref("M")), [parameters |-> Object("x" :> p2), bindings |-> b])>>,
         [M |-> Message(<<>>), P |-> Object(At(<<"payload", "x">>))]) :
        t1, t2 \in Templates, p1, p2 \in Declarations(major),
        b \in {Null, Object("kafka" :> Object("topic" :> Text(MCTopic)))}}

-----------------------------------------------------------------------------
MessageNodes ==
    {Null, Ref("M"), Ref("N"), Ref("O"), Message(<<>>), Message("schemaFormat" :> AvroFormat),
     Message("schemaFormat" :> Leaf("protobuf")), Message("name" :> Leaf("named")), Object(<<>>)}
Components ==
    [M |-> Message(<<>>), N |-> Ref("M"),
     O |-> Object("oneOf" :> List(<<Ref("N"), Message(<<>>), Ref("O")>>)),
     C |-> Object([address |-> Text(Literal(MCTopic)), messages |-> Object("m" :> Ref("M"))])]

OtherSyntax(major) == IF major = 3 THEN [publish |-> Empty] ELSE [messages |-> Empty]

Told(major) ==
    {Doc(major, <<Channel("c", major, Literal(MCTopic), <<>>, OtherSyntax(major))>>, Components)} \union
    {Doc(major, <<Channel("c", major, Literal(MCTopic), [publish |-> m1, subscribe |-> m2], <<>>),
                  d, [d EXCEPT !.id = "e"]>>, Components) :
        m1, m2 \in MessageNodes,
        d \in {Channel("d", major, Literal(MCTopic), One(m3), <<>>) : m3 \in MessageNodes}
              \union {[id |-> "d", key |-> Literal(<<"a">>), node |-> Ref("C")],
                      Channel("d", major, Literal(MCTopic), <<>>, OtherSyntax(major))}}

-----------------------------------------------------------------------------
Names == {"A", "B", "C"}
Bodies ==
    {Empty, Ref("Z")} \union
    UNION {{Ref(n), Object("items" :> Ref(n)),
            Object("properties" :> Object([example |-> Ref(n)])),
            Object("example" :> Object("properties" :> Ref(n)))} : n \in Names} \union
    {Object("anyOf" :> List(<<Ref(p[1]), Ref(p[2])>>)) : p \in {<<"A", "B">>, <<"A", "C">>, <<"B", "C">>}}

\* A literal is a value, so it neither holds a cycle nor stands in one, where
\* the references in it would be left as they are.
Settled(components) ==
    LET Direct == [n \in Names |-> RefsIn(components[n]) \intersect Names]
        Twice == [n \in Names |-> Direct[n] \union UNION {Direct[m] : m \in Direct[n]}]
        Reach == [n \in Names |-> Twice[n] \union UNION {Direct[m] : m \in Twice[n]}]
        HasLiteral(n) == IsObject(components[n]) /\ RefsIn(Get(components[n], "example")) # {}
    IN \A n \in {m \in Names : HasLiteral(m)} :
            \A m \in {o \in Names : o \in Reach[o]} : m \notin Reach[n] /\ n \notin Reach[m]

Resolved(major) == {Alone(major, Object("payload" :> Ref("A")), c) : c \in {f \in [Names -> Bodies] : Settled(f)}}

-----------------------------------------------------------------------------
Field(type) == Object("type" :> type)
AvroRecord(name, namespace, fields) ==
    Object([type |-> Leaf("record"), name |-> Leaf(name), namespace |-> namespace,
            fields |-> List([i \in DOMAIN fields |-> Field(fields[i])])])
Array(type) == Object([type |-> Leaf("array"), items |-> type])
Namespaces == {Null, Leaf("p")}
AvroBodies(name) ==
    {AvroRecord(name, n, t) : n \in Namespaces, t \in {<<>>, <<Ref("B")>>, <<Ref("C"), Array(Ref("B"))>>}}
        \union {Ref("C"), Array(Ref("C"))}

\* The roots have a namespace: without one a type's full name is unqualified,
\* and read inside a namespace means another type.
AvroRoots == {AvroRecord("R", Leaf("r"), t) : t \in {<<Ref("A"), Ref("B")>>, <<Ref("C"), Ref("A"), Ref("C")>>}}
Expanded ==
    {Alone(2, Object([schemaFormat |-> AvroFormat, payload |-> r]), [A |-> a, B |-> b, C |-> c]) :
        r \in AvroRoots, a \in AvroBodies("A"), b \in AvroBodies("B"),
        c \in {AvroRecord("C", n, <<>>) : n \in Namespaces}}

-----------------------------------------------------------------------------
Header(members) == Object([type |-> Leaf("object"), properties |-> Object(members)])
Str == Object("type" :> Leaf("string"))
HeaderNodes == {Null, Header("a" :> Str), Ref("H"), Header("a" :> Ref("S")), Object([type |-> Null]),
                Ref("K"), Ref("Y")}
Patches ==
    {Ref("T"), Object("payload" :> Empty), Object("headers" :> Null)} \union
    {Object("headers" :> h) : h \in {Object("properties" :> Object("a" :> Null)), Ref("H"), Ref("L"), Leaf("text"),
                                     Object("properties" :> Object("a" :> Object("title" :> Leaf("t")))),
                                     Object("properties" :> Ref("Q"))}} \union
    {Object("bindings" :> Object("kafka" :> Object("key" :> Str)))}

TraitComponents ==
    [S |-> Str, H |-> Header("b" :> Ref("S")), Q |-> Object("c" :> Str),
     T |-> Object("headers" :> Header("a" :> Ref("S"))), X |-> Object("kafka" :> Object("key" :> Empty)),
     K |-> Header("a" :> Ref("L")), L |-> Header("a" :> Ref("K")), Y |-> Ref("Y")]
Merged(major) ==
    {Alone(major, Message([headers |-> h, traits |-> List(t), bindings |-> b]), TraitComponents) :
        h \in HeaderNodes, b \in {Null, Ref("X")},
        t \in {<<>>} \union {<<p>> : p \in Patches} \union {<<p, q>> : p, q \in Patches}}

MCSpecs == Bound(2) \union Bound(3) \union Told(2) \union Told(3)
               \union Resolved(2) \union Expanded \union Merged(2) \union Merged(3)
=============================================================================
