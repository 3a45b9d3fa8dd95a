------------------------------- MODULE KeyFit -------------------------------
(* A Key planted into a Payload field must conform to the field. HoldsKey     *)
(* (walk.go, keyholds.go) proves it of the two schemas before the run; the    *)
(* Keys come later from the generator (generator.go). A value is a record of  *)
(* its type, its size (a number itself, a string's length) and the other      *)
(* constraints it happens to satisfy. Numbers and their bounds lie on a grid  *)
(* finer than the integers: Whole of its steps make 1.                        *)
EXTENDS JSONSchema

CONSTANTS
    Fields, Keys,           \* schemas of a Payload field, and of a Key
    Whole, Hundredth,       \* the grid's steps in 1, and in 0.01
    DefaultMax,             \* the upper bound of an unbounded number; 1000
    Lengths, Qualities,     \* what generated strings may be like
    None

VARIABLES field, key, run, drawn
vars == <<field, key, run, drawn>>

Scalar(type, size, fits) == [type |-> type, size |-> size, fits |-> fits]
Null == Scalar("null", 0, {})

Lower == {"minimum", "minLength", "minItems", "minProperties", "exclusiveMinimum"}
Upper == {"maximum", "maxLength", "maxItems", "maxProperties", "exclusiveMaximum"}

ASSUME BoundAssumption ==
    \A s \in Fields \union Keys : \A k \in (Lower \union Upper) \intersect DOMAIN s : s[k] \in Int
ASSUME DefaultAssumption == DefaultMax \in Int /\ Lengths \subseteq Int
ASSUME GridAssumption ==
    Whole \in Nat \ {0} /\ Hundredth \in Nat \ {0} /\ DefaultMax % Whole = 0

-----------------------------------------------------------------------------
(* HoldsKey.                                                                  *)

AtLeast(k, keyword, bound) == Declares(k, keyword) /\ k[keyword] >= bound
AtMost(k, keyword, bound) == Declares(k, keyword) /\ k[keyword] <= bound
Above(k, keyword, bound) == Declares(k, keyword) /\ k[keyword] > bound
Below(k, keyword, bound) == Declares(k, keyword) /\ k[keyword] < bound

SizesHeld(f, k) ==
    /\ \A b \in {"minLength", "minItems", "minProperties"} :
            Declares(f, b) => AtLeast(k, b, f[b])
    /\ \A b \in {"maxLength", "maxItems", "maxProperties"} :
            Declares(f, b) => AtMost(k, b, f[b])

\* Mutant: an exclusive bound met by the same inclusive one.
NumbersHeldInclusive(f, k) ==
    /\ Declares(f, "minimum") => AtLeast(k, "minimum", f["minimum"])
                              \/ AtLeast(k, "exclusiveMinimum", f["minimum"])
    /\ Declares(f, "exclusiveMinimum") => AtLeast(k, "minimum", f["exclusiveMinimum"])
                                       \/ AtLeast(k, "exclusiveMinimum", f["exclusiveMinimum"])
    /\ Declares(f, "maximum") => AtMost(k, "maximum", f["maximum"])
                              \/ AtMost(k, "exclusiveMaximum", f["maximum"])
    /\ Declares(f, "exclusiveMaximum") => AtMost(k, "maximum", f["exclusiveMaximum"])
                                       \/ AtMost(k, "exclusiveMaximum", f["exclusiveMaximum"])

NumbersHeld(f, k) ==
    /\ Declares(f, "minimum") => AtLeast(k, "minimum", f["minimum"])
                              \/ AtLeast(k, "exclusiveMinimum", f["minimum"])
    /\ Declares(f, "exclusiveMinimum") => Above(k, "minimum", f["exclusiveMinimum"])
                                       \/ AtLeast(k, "exclusiveMinimum", f["exclusiveMinimum"])
    /\ Declares(f, "maximum") => AtMost(k, "maximum", f["maximum"])
                              \/ AtMost(k, "exclusiveMaximum", f["maximum"])
    /\ Declares(f, "exclusiveMaximum") => Below(k, "maximum", f["exclusiveMaximum"])
                                       \/ AtMost(k, "exclusiveMaximum", f["exclusiveMaximum"])

SameKeywords ==
    {"pattern", "format", "multipleOf", "uniqueItems", "not", "required", "properties",
     "additionalProperties", "patternProperties", "propertyNames", "items", "prefixItems",
     "contains", "minContains", "maxContains", "dependentRequired", "dependentSchemas",
     "if", "then", "else"}

\* A permissive true, which constrains nothing, is left out of Fields.
SameHeld(f, k) ==
    \A w \in SameKeywords : Declares(f, w) => Declares(k, w) /\ k[w] = f[w]

Members(s, keyword) == {s[keyword][i] : i \in 1..Len(s[keyword])}
Listed(s, keyword) == Value(s, keyword, <<>>) # <<>>

\* keyValuesWithin tells a literal null from none no more than Go's nil does.
NonNull(k, keyword) == Declares(k, keyword) /\ k[keyword] # Null
FixedTo(k) ==
    CASE NonNull(k, "example") -> {k["example"]}
      [] ~NonNull(k, "example") /\ Listed(k, "examples") -> {k["examples"][1]}
      [] ~NonNull(k, "example") /\ ~Listed(k, "examples") /\ NonNull(k, "const") -> {k["const"]}
      [] OTHER -> IF Listed(k, "enum") THEN Members(k, "enum") ELSE {None}

Allows(f, v) == /\ Declares(f, "const") => v = f["const"]
                /\ Declares(f, "enum") => v \in Members(f, "enum")

ValuesHeld(f, k) ==
    Declares(f, "enum") \/ Declares(f, "const")
        => FixedTo(k) # {None} /\ \A v \in FixedTo(k) : Allows(f, v)

TypesHeld(f, k) ==
    /\ Types(k) # {} /\ Types(f) # {}
    /\ \A t \in Types(k) : t \in Types(f) \/ (t = "integer" /\ "number" \in Types(f))

HoldsKey(f, k) ==
    TypesHeld(f, k) /\ ValuesHeld(f, k) /\ SizesHeld(f, k) /\ NumbersHeld(f, k) /\ SameHeld(f, k)

-----------------------------------------------------------------------------
(* The Keys generated.                                                        *)

\* int64(v): the fraction of a bound is dropped.
TowardZero(n) == IF n >= 0 THEN n - (n % Whole) ELSE n + ((-n) % Whole)

\* A bound as integer and as number read it, and how far from an exclusive one
\* they keep.
BoundFor(type, n) == IF type = "integer" THEN TowardZero(n) ELSE n
Apart(type) == IF type = "integer" THEN Whole ELSE Hundredth

\* Mutant: the exclusive bound itself drawn.
MostInclusive(k, type) ==
    IF Declares(k, "exclusiveMaximum") THEN BoundFor(type, k["exclusiveMaximum"])
    ELSE BoundFor(type, Value(k, "maximum", DefaultMax))

\* An exclusive bound replaces an inclusive one.
Least(k, type) ==
    IF Declares(k, "exclusiveMinimum") THEN BoundFor(type, k["exclusiveMinimum"]) + Apart(type)
    ELSE BoundFor(type, Value(k, "minimum", 0))
Most(k, type) ==
    IF Declares(k, "exclusiveMaximum") THEN BoundFor(type, k["exclusiveMaximum"]) - Apart(type)
    ELSE BoundFor(type, Value(k, "maximum", DefaultMax))

\* Synthesizer.Int and Float: an empty range yields its lower end.
Numbers(k, type) ==
    IF Most(k, type) <= Least(k, type) THEN {Least(k, type)}
    ELSE {n \in Least(k, type)..Most(k, type) : type = "integer" => n % Whole = 0}

OfType(k, type) ==
    CASE type \in {"integer", "number"} -> {Scalar(type, n, {}) : n \in Numbers(k, type)}
      [] type = "string" -> {Scalar("string", n, q) : n \in Lengths, q \in Qualities}
      [] OTHER -> {Null}

\* Generator.value on a Key schema of one scalar type or several.
Generated(k) ==
    CASE Declares(k, "example") -> {k["example"]}
      [] ~Declares(k, "example") /\ Listed(k, "examples") -> {k["examples"][1]}
      [] ~Declares(k, "example") /\ ~Listed(k, "examples") /\ Declares(k, "const") -> {k["const"]}
      [] OTHER -> IF Listed(k, "enum") THEN Members(k, "enum")
                  ELSE UNION {OfType(k, type) : type \in Types(k)}

-----------------------------------------------------------------------------
Init == /\ field \in Fields /\ key \in Keys
        /\ run = "planned" /\ drawn = None

\* The walk's last word on -keyPath.
Judge == /\ run = "planned"
         /\ run' = IF HoldsKey(field, key) THEN "accepted" ELSE "refused"
         /\ UNCHANGED <<field, key, drawn>>

\* The Key of one record, then of the next.
DrawKey == /\ run = "accepted"
           /\ drawn' \in Generated(key)
           /\ UNCHANGED <<field, key, run>>

Next == Judge \/ DrawKey
Spec == Init /\ [][Next]_vars

-----------------------------------------------------------------------------
(* What a JSON Schema says of a value, the measure of the properties below.   *)
Satisfies(s, v) ==
    /\ v.type \in Types(s) \/ (v.type = "integer" /\ "number" \in Types(s))
    /\ Allows(s, v)
    /\ v.type \in {"integer", "number"} =>
        /\ Declares(s, "minimum") => v.size >= s["minimum"]
        /\ Declares(s, "exclusiveMinimum") => v.size > s["exclusiveMinimum"]
        /\ Declares(s, "maximum") => v.size <= s["maximum"]
        /\ Declares(s, "exclusiveMaximum") => v.size < s["exclusiveMaximum"]
    /\ v.type = "string" =>
        /\ Declares(s, "minLength") => v.size >= s["minLength"]
        /\ Declares(s, "maxLength") => v.size <= s["maxLength"]
        /\ \A w \in {"pattern", "format"} : Declares(s, w) => <<w, s[w]>> \in v.fits

(* keyholds.go:33: an accepted field takes every Key that honours the Key's   *)
(* own schema.                                                                *)
ProofIsSound == drawn # None /\ Satisfies(key, drawn) => Satisfies(field, drawn)

(* A number drawn honours its bounds where they leave it room, one lower and  *)
(* one upper, its own or the generator's. A fraction of an integer's inclusive *)
(* bound must not be dropped outwards, as int64(v) does between a bound and 0  *)
(* (generator.go:399); an exclusive bound may have any.                        *)
OneBoundEach(k) == /\ ~(Declares(k, "minimum") /\ Declares(k, "exclusiveMinimum"))
                   /\ ~(Declares(k, "maximum") /\ Declares(k, "exclusiveMaximum"))
DroppedInwards(k) == /\ Declares(k, "minimum") => k["minimum"] <= 0 \/ k["minimum"] % Whole = 0
                     /\ Declares(k, "maximum") => k["maximum"] >= 0 \/ k["maximum"] % Whole = 0
Roomy(k, type) == /\ OneBoundEach(k) /\ Least(k, type) <= Most(k, type)
                  /\ type = "integer" => DroppedInwards(k)
NumbersHonoured ==
    drawn # None /\ drawn.type \in {"integer", "number"} /\ Roomy(key, drawn.type)
        => Satisfies(key, drawn)

(* ADR-0006 decision 1: a bound is honoured or refused, whatever others stand *)
(* beside it.                                                                 *)
BoundsAlwaysHonoured == drawn # None /\ drawn.type = "integer" => Satisfies(key, drawn)
=============================================================================
