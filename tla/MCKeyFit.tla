------------------------------ MODULE MCKeyFit ------------------------------
EXTENDS KeyFit, TLC

\* Every way to declare up to four numeric bounds: -1.5, -0.5, 0.5 or 1.
Bounds == {"minimum", "exclusiveMinimum", "maximum", "exclusiveMaximum"}
Bounded(values) == UNION {[declared -> values] : declared \in SUBSET Bounds}
Typed(types, s) == "type" :> types @@ s

One == Scalar("integer", Whole, {})
Two == Scalar("integer", 2 * Whole, {})
Literals == {<<>>, "const" :> One, "enum" :> <<One, Two>>, "enum" :> <<Two, Null>>,
             "example" :> One, "examples" :> <<Two>>, "examples" :> <<>>,
             "example" :> One @@ "examples" :> <<Two>>, "const" :> Two @@ "enum" :> <<Two>>}
Texts == {<<>>, "format" :> "uuid", "format" :> "email", "minLength" :> 1,
          "minLength" :> 2 @@ "maxLength" :> 2, "maxLength" :> 1 @@ "format" :> "uuid"}
MCQualities == {{}, {<<"format", "uuid">>}, {<<"format", "email">>}}

MCKeys == {Typed({t}, b) : t \in {"integer", "number"}, b \in Bounded({-3, -1, 1, 2})}
            \union {Typed(t, l) : t \in {{"integer"}, {"integer", "null"}}, l \in Literals}
            \union {Typed({"string"}, t) : t \in Texts} \union {Typed({"string", "null"}, <<>>), <<>>}
Listing == {"const" :> One, "enum" :> <<Two>>, "enum" :> <<One, Two>>, "enum" :> <<One, Two, Null>>,
            "const" :> Two @@ "enum" :> <<Two>>}
MCFields == {Typed({t}, b) : t \in {"integer", "number"}, b \in Bounded({-3, 1, 2})}
              \union {Typed(t, l) : t \in {{"integer"}, {"number", "null"}}, l \in Listing}
              \union {Typed(t, s) : t \in {{"string"}, {"string", "null"}}, s \in Texts} \union {<<>>}
=============================================================================
