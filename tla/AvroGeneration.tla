--------------------------- MODULE AvroGeneration ---------------------------
(* Generating from an avsc (generate.go): every field of a record is there,   *)
(* so a recursion ends only in a null branch or an empty container, once the  *)
(* depth is used up, and otherwise in an error. One descent is modelled, to   *)
(* any one node of a value: along a planted path, which Locate (walk.go) has  *)
(* accepted before, or anywhere. The value avsc's own values are read back by *)
(* RenderJSON and the codec, both along the same descent, and so is a Key     *)
(* planted at the end of the path, by the value avsc.                         *)
EXTENDS AvroModel, FiniteSets, Functions

CONSTANTS
    Schemas,           \* the value avscs
    KeySchemas,        \* the key avscs a run may plant
    Texts,             \* the values of Topic parameters
    Paths,             \* the paths a user may ask for, of fields and indexes
    MaxRecursionDepth  \* 32 in the code

\* The codec's parse leaves no name undefined, and honours a logical type only
\* where it may overlay: on a primitive, none that the convention lacks.
ASSUME AvscAssumption ==
    \A s \in Schemas \union KeySchemas :
        /\ s.root \in DOMAIN s.types /\ None \notin DOMAIN s.types
        /\ \A name \in DOMAIN s.types :
             LET type == s.types[name]
             IN /\ type.kind = "record" => Range(type.of) \subseteq DOMAIN s.types
                /\ type.kind = "union" => type.of \in Seq(DOMAIN s.types)
                /\ type.kind \in Containers => type.of \in DOMAIN s.types
                /\ type.honoured => type.kind \in Overlaying
                /\ type.honoured /\ type.kind \in Primitives => type.logical \in DOMAIN LogicalTypes

\* A union of null alone leaves generation no branch to pick: Intn(0) panics.
\* The codec refuses a union with two branches of one name.
ASSUME BranchAssumption ==
    \A s \in Schemas \union KeySchemas : \A name \in DOMAIN s.types :
        LET type == s.types[name]
        IN type.kind = "union" =>
             /\ \E b \in Range(type.of) : s.types[b].kind # "null"
             /\ IsInjective([i \in DOMAIN type.of |-> CodecBranchName(s, type.of[i])])

ASSUME OutcomeAssumption == None # "missed"
\* A path names a field: ParsePath and a Topic parameter's location demand it.
ASSUME PathsAssumption == \A p \in Paths : p \in Seq(Range(p)) /\ p # <<>>

VARIABLES
    schema, path,
    plants,         \* what is to be planted at path: a key avsc or a text
    phase,
    from,           \* the avsc the descent generates from: "value" or "key"
    at,             \* the type being generated
    depth,          \* its depth
    reached,        \* how many steps of the path lead to it
    place,          \* the type at the end of the path
    readAs,         \* the types it is rendered and marshalled as
    outcome
inputs == <<schema, path, plants>>
vars == <<inputs, phase, from, at, depth, reached, place, readAs, outcome>>

Avsc == IF from = "value" THEN schema ELSE plants.key
Type == Avsc.types[at]
PlantsKey == plants.key # None

-----------------------------------------------------------------------------
\* Parse, of the value avsc and the key avsc.
Parse ==
    /\ phase = "parse"
    /\ phase' = IF ~Parses(schema) \/ (PlantsKey /\ ~Parses(plants.key)) THEN "refused"
                ELSE IF path = <<>> THEN "ready" ELSE "walk"
    /\ UNCHANGED <<inputs, from, at, depth, reached, place, readAs, outcome>>

-----------------------------------------------------------------------------
(* Locate: only fields of records are there in every value.                   *)

\* Mutant: a nullable record taken for a record.
StepsIntoNullable(step) ==
    IF Type.kind = "record" /\ step \in DOMAIN Type.of THEN Type.of[step]
    ELSE IF Nullable(schema, Type) /\ "next" = step THEN Type.of[2]
    ELSE None

StepsInto(step) ==
    IF Type.kind = "record" /\ step \in DOMAIN Type.of THEN Type.of[step] ELSE None

WalkStep ==
    /\ phase = "walk" /\ reached < Len(path)
    /\ LET next == StepsInto(path[reached + 1]) IN
        IF next = None
        THEN phase' = "refused" /\ UNCHANGED <<at, reached>>
        ELSE at' = next /\ reached' = reached + 1 /\ UNCHANGED phase
    /\ UNCHANGED <<inputs, from, depth, place, readAs, outcome>>

\* Locate ends, and the field found must hold what is planted.
Held == IF PlantsKey THEN HoldsKey(Type, at, plants.key.types[plants.key.root], plants.key.root)
        ELSE Holds(Type, plants.text)

WalkEnds ==
    /\ phase = "walk" /\ reached = Len(path)
    /\ IF Type.kind = "union" \/ ~Held
       THEN phase' = "refused" /\ UNCHANGED place
       ELSE phase' = "ready" /\ place' = at
    /\ UNCHANGED <<inputs, from, at, depth, reached, readAs, outcome>>

-----------------------------------------------------------------------------
Reads(name) == [rendered |-> name, marshalled |-> name]

NextRecord ==
    /\ phase = "ready"
    /\ phase' = "record" /\ from' = "value" /\ at' = schema.root
    /\ depth' = 0 /\ reached' = 0 /\ readAs' = Reads(schema.root) /\ outcome' = None
    /\ UNCHANGED <<inputs, place>>

\* The Key of a message, planted where the path ends.
NextKey ==
    /\ phase = "ready" /\ PlantsKey
    /\ phase' = "record" /\ from' = "key" /\ at' = plants.key.root
    /\ depth' = 0 /\ reached' = Len(path) /\ readAs' = Reads(place) /\ outcome' = None
    /\ UNCHANGED <<inputs, place>>

\* Whether a value at this place is what the path leads to.
End(result) ==
    /\ outcome' = IF result = "error" \/ reached = Len(path) THEN result ELSE "missed"
    /\ phase' = IF outcome' \in {"error", "missed"} THEN "failed" ELSE "ready"
    /\ UNCHANGED <<inputs, from, at, depth, reached, place, readAs>>

Exhausted == depth > MaxRecursionDepth

\* Past the budget only null, or an empty container, ends the recursion.
Escape ==
    /\ phase = "record" /\ Exhausted
    /\ End(IF Nullable(Avsc, Type) THEN "null" ELSE IF Type.kind \in Containers THEN "empty" ELSE "error")

\* What the readers take the type at hand for.
Readers == [r \in DOMAIN readAs |->
    IF readAs[r] = None THEN [kind |-> "none", of |-> <<>>] ELSE schema.types[readAs[r]]]

Descend(next, passed, readers) ==
    /\ at' = next /\ depth' = depth + 1 /\ reached' = passed /\ readAs' = readers
    /\ UNCHANGED <<inputs, phase, from, place, outcome>>

Scalar ==
    /\ phase = "record" /\ ~Exhausted /\ Type.kind \in Scalars
    /\ End("value")

IntoField(field, passed) ==
    Descend(Type.of[field], passed, [r \in DOMAIN readAs |->
        LET type == Readers[r]
        IN IF type.kind = "record" /\ field \in DOMAIN type.of THEN type.of[field] ELSE None])

\* Mutant: records nest for free.
RecordFree ==
    /\ phase = "record" /\ ~Exhausted /\ Type.kind = "record"
    /\ IF Type.of = <<>> THEN End("value")
       ELSE \E field \in DOMAIN Type.of :
               /\ reached < Len(path) => field = path[reached + 1]
               /\ at' = Type.of[field] /\ readAs' = Reads(at')
               /\ reached' = IF reached < Len(path) THEN reached + 1 ELSE reached
               /\ UNCHANGED <<inputs, phase, from, depth, place, outcome>>

\* Every field is generated; the descent follows the path as long as there is
\* one, and below its end any of them, whose failure is the record's.
Record ==
    /\ phase = "record" /\ ~Exhausted /\ Type.kind = "record"
    /\ IF reached < Len(path)
       THEN IF path[reached + 1] \in DOMAIN Type.of
            THEN IntoField(path[reached + 1], reached + 1)
            ELSE End("value")
       ELSE \/ DOMAIN Type.of = {} /\ End("value")
            \/ \E field \in DOMAIN Type.of : IntoField(field, reached)

\* null with 30% chance where there is one, else any other branch.
Branches == {b \in Range(Type.of) : Avsc.types[b].kind # "null"}
Union ==
    /\ phase = "record" /\ ~Exhausted /\ Type.kind = "union"
    /\ \/ Nullable(Avsc, Type) /\ End("null")
       \/ \E branch \in Branches :
             LET carried == UnionBranchName(Avsc, branch)
             IN Descend(branch, reached,
                    [rendered |-> RenderedBranch(schema, Readers.rendered, carried),
                     marshalled |-> MarshalledBranch(schema, Readers.marshalled, carried)])

\* An array has one to five items, a map one to four entries.
Container ==
    /\ phase = "record" /\ ~Exhausted /\ Type.kind \in Containers
    /\ IF reached < Len(path) THEN End("value")
       ELSE Descend(Type.of, reached, [r \in DOMAIN readAs |->
                IF Readers[r].kind = Type.kind THEN Readers[r].of ELSE None])

-----------------------------------------------------------------------------
Init ==
    /\ schema \in Schemas
    /\ \/ path = <<>> /\ plants = [key |-> None, text |-> None]
       \/ path \in Paths /\ plants \in
             [key : KeySchemas, text : {None}] \union [key : {None}, text : Texts]
    /\ phase = "parse" /\ from = "value"
    /\ at = schema.root /\ depth = 0 /\ reached = 0
    /\ place = None /\ readAs = Reads(schema.root) /\ outcome = None

Generate == Escape \/ Scalar \/ Record \/ Union \/ Container
Next == Parse \/ WalkStep \/ WalkEnds \/ NextRecord \/ NextKey \/ Generate

Spec == Init /\ [][Next]_vars
FairSpec == Spec /\ WF_vars(Generate)

-----------------------------------------------------------------------------
(* A record that is generated has a value where an accepted path ends: no     *)
(* union, container or scalar along the way cuts the path short.              *)
AcceptedAlwaysThere == path # <<>> => outcome # "missed"

(* Whoever reads a value reads it as the type it was generated for, and as    *)
(* the Go value the convention gives that type: "adding one is adding an       *)
(* entry" (convention.go:24), which three readers look up apart.               *)
ReadAsGenerated ==
    phase = "record" /\ from = "value" =>
        /\ readAs = Reads(at)
        /\ Type.kind \in Scalars => ValueOf(Type) = Marshals(Type)

(* "so the planted Payload still encodes against its own schema" (walk.go:12): *)
(* a Key planted where HoldsKey allows it is read by the value avsc as what it *)
(* is, down to its last field, if the two avscs mean the same by a full name.  *)
SameNames ==
    \A name \in DOMAIN plants.key.types \intersect DOMAIN schema.types :
        plants.key.types[name] = schema.types[name]
Takes(reader, type) ==
    /\ reader.kind = type.kind
    /\ type.kind \in Scalars => Marshals(reader) = ValueOf(type)
    /\ type.kind \in {"enum", "fixed"} \/ LogicalOf(type) = "decimal" => reader.detail = type.detail
KeyReadAsGenerated ==
    phase = "record" /\ from = "key" /\ SameNames =>
        \A r \in DOMAIN readAs : readAs[r] # None /\ Takes(schema.types[readAs[r]], Type)

(* A descent ends, however the types refer to each other.                     *)
DescentEnds == phase = "record" ~> phase # "record"

(* generate_test.go:306: where every cycle goes through a nullable union or a *)
(* container, the budget running out ends the recursion and never the run.    *)
Forced(name) ==
    LET type == schema.types[name]
    IN type.kind = "record" \/ (type.kind = "union" /\ ~Nullable(schema, type))
ForcedSteps(s) == s \union UNION {Range(schema.types[name].of) : name \in {n \in s : Forced(n)}}
ForcedReach(s) ==
    LET reach[n \in Nat] == IF n = 0 THEN s ELSE ForcedSteps(reach[n - 1])
    IN reach[Cardinality(DOMAIN schema.types)]
CanEscape == \A name \in DOMAIN schema.types :
    Forced(name) => name \notin ForcedReach(Range(schema.types[name].of))
EscapeEndsRecursion == CanEscape => outcome # "error"
=============================================================================
