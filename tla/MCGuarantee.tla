---------------------------- MODULE MCGuarantee ----------------------------
EXTENDS Guarantee, TLC

AllOf == INSTANCE AllOfMerge WITH NoMerge <- None

MCMerged(branches) == AllOf!MergeSchemas(branches)
MCIndexOf == "0" :> 0 @@ "1" :> 1
MCPaths == {<<Field("a")>>, <<Field("a"), Field("a")>>, <<Index(0)>>, <<Field("a"), Index(1)>>,
            <<Token("a"), Token("0")>>, <<Token("0"), Token("a")>>}

Of(kind, of) == [kind |-> kind, of |-> of]
\* Numbers are counted in halves.
Half(n) == Of(IF n % 2 = 0 THEN "integer" ELSE "number", n)
Scalars == {Of("null", "null"), Of("string", "x"), Of("string", "y")} \union {Half(n) : n \in 0..4}
Arrays == {Of("array", <<>>), Of("array", <<Of("string", "x")>>), Of("array", <<Of("string", "x"), Of("null", "null")>>)}
Holding(values) == {Of("object", "a" :> v) : v \in values} \union {Of("object", <<>>)}
MCValues == LET flat == Scalars \union Arrays IN flat \union Holding(flat) \union Holding(Holding(Arrays))

Text == "type" :> {"string"}
Cycle == "$ref" :> "A"
Undefined == "$ref" :> "B"
Object(child, required) == "type" :> {"object"} @@ "properties" :> ("a" :> child) @@ "required" :> required
List(child) == "type" :> {"array"} @@ "items" :> child
Nullable(s) == "type" :> (Types(s) \union {"null"}) @@ s

\* The ways a value is written below an object or an array.
Leaves == {Text, Cycle, Undefined, "oneOf" :> <<Text, Cycle>>, "enum" :> <<"x">> @@ Object(Text, {"a"}),
           "oneOf" :> <<>> @@ "type" :> {"string"}, <<>>}
Lists == {List(Text), List(Cycle), "minItems" :> 2 @@ List(Text), "minItems" :> 0 @@ List(Text),
          "minItems" :> 2 @@ "maxItems" :> 1 @@ List(Cycle)}
Objects == {Object(child, required) : child \in Leaves \union Lists, required \in {{}, {"a"}}}
Merges == {"allOf" :> <<x, y>> : x \in {Object(Text, {}), Object(Cycle, {})},
                y \in {"required" :> {"a"}, Object(Text, {"a"}), List(Text), Object("minItems" :> 2, {})}}
\* Branches that bound a number from several sides, fix a value, or take null.
Numbers == {"minimum" :> 1 @@ "maximum" :> 2, "minimum" :> 2, "exclusiveMinimum" :> 1, "exclusiveMinimum" :> 0,
            "exclusiveMaximum" :> 2, "exclusiveMaximum" :> 3, "maximum" :> 1, "const" :> Half(2),
            "const" :> Of("string", "x"), "type" :> {"number", "string"}, "type" :> {"null", "number"}, "type" :> {"integer", "string"},
            "type" :> {"integer", "number"}, "type" :> {"integer"}}
Bounded == {"allOf" :> <<Object(x, {}), Object(y, {"a"})>> : x \in Numbers, y \in Numbers}
           \union {"allOf" :> <<Nullable(Object(x, {})), Nullable(Object(y, {"a"}))>> : x \in Numbers, y \in Numbers}
           \union {"allOf" :> <<"exclusiveMinimum" :> 1, x, "maximum" :> 3 @@ "type" :> {"number"}>> : x \in Numbers}
Inner == Leaves \union Lists \union Objects \union Merges
Roots == Inner \union {Nullable(s) : s \in Objects \union Lists}
               \union {Object(child, {"a"}) : child \in Objects \union Merges}
\* The targets of a cycle: itself, through a branch, through an object, a list.
Targets == {Cycle, "oneOf" :> <<Text, Cycle>>, Object(Cycle, {"a"}), Nullable(Object(Cycle, {"a"})),
            Object(Text, {"a"}), List(Cycle), "anyOf" :> <<Object(Cycle, {"a"}), Text>>}
MCDocuments == [root : Roots, defs : {"A" :> target : target \in Targets}]
               \union [root : Bounded, defs : {"A" :> Cycle}]

(* Whatever allOf a record comes to: the merge admits what every branch admits *)
(* and no more, "rather than a silently-overridden constraint" (merge.go:15),  *)
(* but for keywords it has no rule for.                                        *)
MergeIsMeet ==
    phase = "record" /\ Declares(pos.node, "allOf") =>
        \A branches \in {pos.node["allOf"]} : AllOf!IsMeet(branches, MCValues, {"a"})
=============================================================================
