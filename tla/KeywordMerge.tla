---------------------------- MODULE KeywordMerge ----------------------------
(* One level of an allOf's merge (merge.go): the keywords of two schemas, and *)
(* what they ask of a value. How the schemas of a property both declare are   *)
(* merged, and which of its values they admit, is a parameter: AllOfMerge     *)
(* makes the two ends meet.                                                   *)
EXTENDS JSONSchema, SequencesExt

CONSTANT NoMerge

\* Mutant: exclusive bounds are like any other keyword.
MergeKeywordInclusive(keyword, x, y) ==
    CASE keyword \in {"minimum"} -> IF x < y THEN y ELSE x
      [] keyword \in {"maximum"} -> IF x < y THEN x ELSE y
      [] keyword = "required" -> x \union y
      [] keyword = "type" -> IF x \intersect y = {} THEN NoMerge ELSE x \intersect y
      [] keyword = "const" -> IF x = y THEN x ELSE NoMerge
      [] OTHER -> y

\* A keyword both branches declare; most keep what the later one says.
MergeKeyword(keyword, x, y) ==
    CASE keyword \in {"minimum", "exclusiveMinimum"} -> IF x < y THEN y ELSE x
      [] keyword \in {"maximum", "exclusiveMaximum"} -> IF x < y THEN x ELSE y
      [] keyword = "required" -> x \union y
      [] keyword = "type" -> IF x \intersect y = {} THEN NoMerge ELSE x \intersect y
      [] keyword = "const" -> IF x = y THEN x ELSE NoMerge
      [] OTHER -> y

\* What both declare is merged, what one of them declares is taken as it is.
MergeMembers(MergeMember(_, _, _), x, y) ==
    LET merged == [k \in DOMAIN x \union DOMAIN y |->
                     IF k \notin DOMAIN y THEN x[k] ELSE
                     IF k \notin DOMAIN x THEN y[k] ELSE MergeMember(k, x[k], y[k])]
    IN IF \E k \in DOMAIN merged : merged[k] = NoMerge THEN NoMerge ELSE merged

\* A property both branches declare is merged in turn.
MergeProperties(MergeProperty(_, _), x, y) ==
    MergeMembers(LAMBDA name, p, q : MergeProperty(p, q), x, y)

MergeKeywords(MergeProperty(_, _), x, y) ==
    MergeMembers(LAMBDA keyword, p, q : IF keyword = "properties" THEN MergeProperties(MergeProperty, p, q)
                                        ELSE MergeKeyword(keyword, p, q), x, y)

-----------------------------------------------------------------------------
\* What the keywords ask of a value, [kind, of]: of is a text, a number, the
\* function from an object's names to its values, or an array's sequence. A
\* number without a fraction is of kind integer, and every integer is a number.
Numbers == {"integer", "number"}

OfType(kind, types) == kind \in types \/ (kind = "integer" /\ "number" \in types)

AdmitsKeywords(AdmitsPart(_, _), s, v) ==
    /\ Declares(s, "type") => OfType(v.kind, s["type"])
    /\ Declares(s, "const") => v.kind = s["const"].kind /\ v.of = s["const"].of
    /\ v.kind \in Numbers =>
         /\ Value(s, "minimum", v.of) <= v.of /\ v.of <= Value(s, "maximum", v.of)
         /\ Value(s, "exclusiveMinimum", v.of - 1) < v.of /\ v.of < Value(s, "exclusiveMaximum", v.of + 1)
    /\ v.kind = "object" =>
         /\ Value(s, "required", {}) \subseteq DOMAIN v.of
         /\ LET properties == Value(s, "properties", <<>>) IN
              \A name \in DOMAIN properties \intersect DOMAIN v.of : AdmitsPart(properties[name], v.of[name])
    /\ v.kind = "array" =>
         /\ Value(s, "minItems", 0) <= Len(v.of) /\ Len(v.of) <= Value(s, "maxItems", Len(v.of))
         /\ \A item \in ToSet(v.of) : Declares(s, "items") => AdmitsPart(s["items"], item)

Numeric == {"minimum", "exclusiveMinimum", "maximum", "exclusiveMaximum"}

\* The keywords the merge has a rule for.
Reconciled == Numeric \union {"required", "properties", "type", "const"}

\* The later of two branches overrides a keyword the merge knows no rule for.
OverridesHere(a, b) == \E k \in (DOMAIN a \intersect DOMAIN b) \ Reconciled : a[k] # b[k]

\* The code intersects the names of types: of integer beside number nothing is
\* left, though every integer is both.
IntegersLost(a, b) ==
    /\ Declares(a, "type") /\ Declares(b, "type")
    /\ {a["type"] \intersect Numbers, b["type"] \intersect Numbers} = {{"integer"}, {"number"}}

\* Where the merge of two branches is not what both of them ask for.
SetApartHere(a, b) == OverridesHere(a, b) \/ IntegersLost(a, b)
=============================================================================
