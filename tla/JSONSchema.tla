----------------------------- MODULE JSONSchema -----------------------------
(* JSON Schemas as internal/generator reads them: a schema is a function from *)
(* the keywords it declares to their values. type is the set of names the     *)
(* keyword lists (generator.go:197), required a set of names, properties a    *)
(* function from names to schemas, allOf, oneOf, anyOf and enum sequences.    *)
EXTENDS Integers, Sequences

Declares(s, keyword) == keyword \in DOMAIN s

\* The value of a keyword, or what the code takes when it is not declared.
Value(s, keyword, default) == IF Declares(s, keyword) THEN s[keyword] ELSE default

\* typeList. No type at all is an error to the code: the empty set here.
Types(s) == Value(s, "type", {})

\* literalKeyword: generation answers such a schema with a value it declares.
IsLiteral(s) == \/ Declares(s, "example") \/ Declares(s, "const")
                \/ Value(s, "examples", <<>>) # <<>>
                \/ Value(s, "enum", <<>>) # <<>>

\* The schema a $ref names: one of the definitions its root carries.
Defined(defs, s) == s["$ref"] \in DOMAIN defs
Target(defs, s) == defs[s["$ref"]]
=============================================================================
