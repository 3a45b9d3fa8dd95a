------------------------------ MODULE AvroModel ------------------------------
(* The model of an avsc (internal/avro: avro.go, convention.go) and how its    *)
(* values are read back: by RenderJSON (render.go) and by the codec. An avsc   *)
(* is a record of                                                              *)
(*   root    the name of its outermost type,                                   *)
(*   types   its types by name, a named type under its full name: its kind,    *)
(*           the types it is built from (of: the fields of a record, the       *)
(*           branches of a union, the items or values of a container), the     *)
(*           logicalType it declares, whether the codec honours that, and      *)
(*           detail: an enum has the symbols 1 to detail, a fixed that size, a *)
(*           decimal that precision and scale.                                 *)
EXTENDS Integers, Sequences, SequencesExt

CONSTANT None

Primitives == {"null", "boolean", "int", "long", "float", "double", "bytes", "string"}
Scalars == Primitives \union {"enum", "fixed"}
Containers == {"array", "map"}
Named == {"record", "enum", "fixed"}

Nullable(avsc, type) ==
    type.kind = "union" /\ \E b \in ToSet(type.of) : avsc.types[b].kind = "null"

-----------------------------------------------------------------------------
(* The value convention.                                                       *)

\* logicalTypes: the base types of each and the Go value it stands for.
Entry(bases, value) == [bases |-> bases, value |-> value]
Instants == {"timestamp-millis", "timestamp-micros", "local-timestamp-millis", "local-timestamp-micros"}
LogicalTypes ==
    [l \in {"date", "time-millis", "time-micros", "uuid", "decimal"} \union Instants |->
        CASE l = "date" -> Entry({"int"}, "Time")
          [] l \in Instants -> Entry({"long"}, "Time")
          [] l = "time-millis" -> Entry({"int"}, "Duration")
          [] l = "time-micros" -> Entry({"long"}, "Duration")
          [] l = "uuid" -> Entry({"string"}, "string")
          [] l = "decimal" -> Entry({"bytes", "fixed"}, "Rat")]

ASSUME NoneAssumption == None \notin DOMAIN LogicalTypes \union {"refused"}

\* logicalOf, which build asks of a fixed and of a primitive other than null:
\* one it does not know is ignored, one it knows must be honoured.
Overlaying == (Primitives \ {"null"}) \union {"fixed"}
LogicalOf(type) ==
    IF type.kind \notin Overlaying \/ type.logical \notin DOMAIN LogicalTypes THEN None
    ELSE IF type.kind \in LogicalTypes[type.logical].bases /\ type.honoured THEN type.logical
    ELSE "refused"

\* Parse and build.
Parses(avsc) == \A n \in DOMAIN avsc.types : LogicalOf(avsc.types[n]) # "refused"

\* What primitive, fixed and logical generate, and what RenderJSON asserts.
ValueOf(type) ==
    IF LogicalOf(type) # None THEN LogicalTypes[LogicalOf(type)].value ELSE type.kind

\* What the codec marshals.
Marshals(type) ==
    IF type.honoured /\ type.logical \in DOMAIN LogicalTypes
    THEN LogicalTypes[type.logical].value ELSE type.kind

\* Mutant: by the base type alone.
UnionBranchNameBase(avsc, name) ==
    IF avsc.types[name].kind \in Named THEN <<name>> ELSE <<avsc.types[name].kind>>

\* unionBranchName, of a primitive, a container or a named type.
UnionBranchName(avsc, name) ==
    LET type == avsc.types[name]
    IN IF type.kind \in Named THEN <<name>>
       ELSE IF type.kind \in Primitives /\ LogicalOf(type) # None THEN <<type.kind, LogicalOf(type)>>
       ELSE <<type.kind>>

\* The codec's name of a branch.
CodecBranchName(avsc, name) ==
    LET type == avsc.types[name]
    IN IF type.kind \in Named THEN <<name>>
       ELSE IF type.kind \in Primitives /\ type.honoured THEN <<type.kind, type.logical>>
       ELSE <<type.kind>>

\* The branch a union value is read as: the first of the name it carries.
FirstBranch(type, named) ==
    IF type.kind # "union" \/ named = {} THEN None ELSE type.of[Min(named)]

RenderedBranch(avsc, type, carried) ==
    FirstBranch(type, {i \in DOMAIN type.of : UnionBranchName(avsc, type.of[i]) = carried})
MarshalledBranch(avsc, type, carried) ==
    FirstBranch(type, {i \in DOMAIN type.of : CodecBranchName(avsc, type.of[i]) = carried})

-----------------------------------------------------------------------------
(* What a located type holds (walk.go).                                        *)

\* Mutant: a decimal is a decimal.
HoldsKeyDecimal(at, name, key, keyName) ==
    IF key.kind \in Named THEN at.kind = key.kind /\ name = keyName
    ELSE key.kind \in Primitives /\ at.kind = key.kind /\ LogicalOf(at) = LogicalOf(key)

\* holdsKey, of the type at (called name) and the key avsc's outermost.
HoldsKey(at, name, key, keyName) ==
    IF key.kind \in Named THEN at.kind = key.kind /\ name = keyName
    ELSE /\ key.kind \in Primitives
         /\ at.kind = key.kind /\ LogicalOf(at) = LogicalOf(key)
         /\ LogicalOf(at) = "decimal" => at.detail = key.detail

\* Holds, of a Topic parameter's value: "plain" text, the text of a "uuid", or
\* the "symbol" of every enum.
Holds(at, text) ==
    CASE at.kind = "string" -> LogicalOf(at) = "uuid" => text = "uuid"
      [] at.kind = "enum" -> text = "symbol"
      [] OTHER -> FALSE
=============================================================================
