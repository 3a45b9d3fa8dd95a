---------------------------- MODULE MessageTypes ----------------------------
(* What a message says once its traits are merged (document.go, v2.go, v3.go, *)
(* format.go): the format of its payload, and its payload, key and headers as *)
(* schemas that stand alone, read in that format.                             *)
EXTENDS SchemaResolver, AvscExpander

CONSTANTS JSONSchemaFormats, AvroFormats    \* what schemaFormat may be

\* kafkaBinding
KafkaBinding(bindings) ==
    LET b == ObjectAt(bindings)
    IN CASE bindings = Null -> Null
         [] bindings # Null /\ b = Failed -> Failed
         [] OTHER -> IF Get(b, "kafka") = Null THEN Null ELSE ObjectAt(Get(b, "kafka"))

\* payloadFormatOf and readsSchemaFormat
FormatOf(schemaFormat) ==
    CASE schemaFormat = Null \/ schemaFormat \in JSONSchemaFormats -> "json"
      [] schemaFormat \in AvroFormats -> "avro"
      [] OTHER -> "unread"

\* A schema with the format it is written in: payload3, and 2.x's two fields.
Unwrapped(node) ==
    LET resolved == ObjectAt(node)
    IN CASE resolved = Failed -> Failed
         [] resolved # Failed /\ "schemaFormat" \notin DOMAIN resolved.keys -> [schema |-> node, format |-> Null]
         [] OTHER -> IF Get(resolved, "schema") = Null THEN Failed
                     ELSE [schema |-> Get(resolved, "schema"), format |-> Get(resolved, "schemaFormat")]

PayloadOf(msg) ==
    CASE spec.major = 2 -> [schema |-> Get(msg, "payload"), format |-> Get(msg, "schemaFormat")]
      [] spec.major = 3 /\ Get(msg, "schemaFormat") # Null -> Failed
      [] OTHER -> IF Get(msg, "payload") = Null THEN Failed ELSE Unwrapped(Get(msg, "payload"))

\* Document.headers: a JSON Schema of an object, or none.
Headers(msg) ==
    LET node == Get(msg, "headers")
        declared == IF spec.major = 3 THEN Unwrapped(node) ELSE [schema |-> node, format |-> Null]
        schema == Schema(declared.schema)
    IN CASE node = Null -> Null
         [] node # Null /\ (\/ declared = Failed
                            \/ declared.schema # node /\ declared.format \notin JSONSchemaFormats) -> Failed
         [] OTHER -> IF schema = Failed \/ ~IsObject(schema.body) \/ Get(schema.body, "type") # Leaf("object")
                     THEN Failed ELSE schema

\* messageType: a message, its traits merged, as a Message type.
MessageType(msg, name) ==
    LET payload == PayloadOf(msg)
        format == FormatOf(payload.format)
        kafka == KafkaBinding(Get(msg, "bindings"))
        key == IF kafka = Null THEN Null ELSE Get(kafka, "key")
        Resolved(node) == IF format = "avro" THEN Avsc(node) ELSE Schema(node)
        type == [name |-> name, format |-> format, payload |-> Resolved(payload.schema),
                 key |-> IF key = Null THEN Null ELSE Resolved(key), headers |-> Headers(msg)]
    IN IF \/ payload = Failed \/ payload.schema = Null \/ format = "unread"
          \/ kafka = Failed \/ Headers(msg) = Failed
          \/ Resolved(payload.schema) = Failed
          \/ (key # Null /\ Resolved(key) = Failed)
          \/ (format = "json" /\ key # Null /\ ~IsMap(key))
       THEN Failed ELSE type
=============================================================================
