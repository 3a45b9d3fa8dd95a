------------------------------- MODULE RunPlan -------------------------------
(* What Plan makes of an invocation (internal/runplan) with the Wire format it *)
(* selects (wire/jsonwire, wire/avrowire): the rules it is judged by, in their *)
(* order, and the plan of one that breaks none. An invocation is               *)
(*   flags   the options, None where one is not given,                         *)
(*   topic   what the spec says of the topic: how reading it ends, the format  *)
(*           of its payloads and its Message types (read), whether a Topic     *)
(*           parameter lies in the Headers (inHeaders), whether every Planting *)
(*           can be honoured (plants), and the avscs form a union but for names  *)
(*           that clash (unites).                                              *)
EXTENDS Integers, SequencesExt

CONSTANTS
    Malformed,   \* avscs avro.Parse refuses
    RecordOf,    \* the full name of the record a value avsc declares
    None

\* -h asks for the help text, which is no refusal.
HelpAsked(inv) == inv.flags.parse = "help"

\* A rule: the option at fault, whether it is about the flags themselves,
\* whether the invocation breaks it, and which avscs must be read to tell.
Rule(option, broken) == [option |-> option, usage |-> FALSE, broken |-> broken, reads |-> {}]
Usage(option, broken) == [Rule(option, broken) EXCEPT !.usage = TRUE]
Reading(option, avscs) ==
    [Rule(option, avscs \intersect Malformed # {}) EXCEPT !.reads = avscs]

-----------------------------------------------------------------------------
\* wireFormat: -format only confirms what the payload's schema decides.
WireFormat(inv) ==
    IF inv.topic.format = "avro" \/ inv.flags.avroSchema # None THEN "avro"
    ELSE IF inv.flags.format # None THEN inv.flags.format ELSE "json"

ContradictsFormat(inv) == inv.flags.format = "json" /\ WireFormat(inv) = "avro"

RunRules(inv) ==
    LET f == inv.flags
    IN << Usage("flags", f.parse = "bad"), Usage("spec", ~f.spec), Usage("channel", f.channel),
          Usage("topic", ~f.topic), Usage("records-per-key", f.perKey < 1), Usage("key", f.key),
          Usage("log-level", ~f.level),
          Rule("spec", inv.topic.read = "unloadable"), Rule("topic", inv.topic.read = "refused"),
          Usage("format", ContradictsFormat(inv)) >>

-----------------------------------------------------------------------------
\* SharedKeyBinding, whose absence is one of the bindings that may differ.
KeysDiffer(types) == \E i, j \in DOMAIN types : types[i].key # types[j].key
SharedKeyBinding(types) == IF types = <<>> THEN None ELSE types[1].key

JSONRules(inv) ==
    LET f == inv.flags
        types == inv.topic.types
        keyed == SharedKeyBinding(types) # None
    IN << Usage("avro-key-schema", f.avroKeySchema # None), Usage("registry", f.registry),
          Rule("topic", types = <<>>), Rule("topic", inv.topic.format # "json"),
          Rule("topic", KeysDiffer(types)),
          Usage("keyPath", f.keyPath /\ ~keyed),
          Usage("records-per-key", f.perKey > 1 /\ ~keyed),
          Rule("planting", ~inv.topic.plants) >>

-----------------------------------------------------------------------------
\* specAvro: the Message types of a spec whose payloads are Avro.
SpecAvro(inv) == IF inv.topic.format = "avro" THEN inv.topic.types ELSE <<>>

\* valueAvscs and keyAvsc, the avscs of a run.
ValueAvscs(inv) ==
    IF SpecAvro(inv) = <<>> THEN <<inv.flags.avroSchema>>
    ELSE [i \in DOMAIN SpecAvro(inv) |-> SpecAvro(inv)[i].payload]
KeyFromSpec(inv) == SharedKeyBinding(SpecAvro(inv)) # None
KeyAvsc(inv) == IF KeyFromSpec(inv) THEN SharedKeyBinding(SpecAvro(inv)) ELSE inv.flags.avroKeySchema

\* checkFlags and checkRegistry.
AvroFlagRules(inv) ==
    LET f == inv.flags
        spec == SpecAvro(inv)
        keyed == \E i \in DOMAIN spec : spec[i].key # None
        keyless == ~keyed /\ f.avroKeySchema = None
    IN << Usage("avro-schema", spec # <<>> /\ f.avroSchema # None),
          Usage("avro-schema", spec = <<>> /\ f.avroSchema = None),
          Usage("avro-key-schema", keyed /\ f.avroKeySchema # None),
          Usage("keyPath", f.keyPath /\ keyless),
          Usage("registry", ~f.dryRun /\ ~f.registry),
          Rule("topic", \E i \in DOMAIN inv.topic.types : ~inv.topic.types[i].honoured),
          Usage("records-per-key", f.perKey > 1 /\ keyless) >>

\* planUnion: a union's branches are told apart by their records' full names.
Names(values) == [i \in DOMAIN values |-> RecordOf[values[i]]]

\* Mutant: two Message types may share a record's name.
UnitesAny(inv) == inv.topic.unites

Unites(inv) == inv.topic.unites /\ IsInjective(Names(ValueAvscs(inv)))

\* The rest of Build, which reads the avscs.
AvroFileRules(inv) ==
    LET spec == SpecAvro(inv)
        values == ValueAvscs(inv)
    IN << Reading(IF spec = <<>> THEN "avro-schema" ELSE "topic", ToSet(values)),
          Rule("topic", KeysDiffer(spec)),
          Reading(IF KeyFromSpec(inv) THEN "topic" ELSE "avro-key-schema", {KeyAvsc(inv)} \ {None}),
          Rule("topic", spec = <<>> /\ inv.topic.inHeaders),
          Rule("planting", ~inv.topic.plants),
          Rule("topic", Len(values) > 1 /\ ~Unites(inv)) >>

\* Mutant: the avscs are read first.
RulesFilesFirst(inv) ==
    RunRules(inv) \o (IF WireFormat(inv) = "json" THEN JSONRules(inv)
                      ELSE AvroFileRules(inv) \o AvroFlagRules(inv))

Rules(inv) ==
    RunRules(inv) \o (IF WireFormat(inv) = "json" THEN JSONRules(inv)
                      ELSE AvroFlagRules(inv) \o AvroFileRules(inv))

Refused(inv) == \E rule \in ToSet(Rules(inv)) : rule.broken

-----------------------------------------------------------------------------
(* The plan of an invocation that breaks no rule.                              *)

\* Mutant: the registry is not thought of.
DisregardedDiagnosticsAll(inv) == IF inv.flags.dryRun /\ inv.flags.kafka THEN {"kafka options"} ELSE {}

\* warnDisregardedOptions
DisregardedDiagnostics(inv) ==
    IF inv.flags.dryRun /\ (inv.flags.kafka \/ inv.flags.registry) THEN {"kafka options"} ELSE {}

\* What Build ignores, out loud.
IgnoredDiagnostics(inv) ==
    LET types == inv.topic.types
    IN IF WireFormat(inv) = "json" THEN {}
       ELSE {d \in {"headers", "key bindings"} :
               IF d = "headers" THEN SpecAvro(inv) = <<>> /\ \E i \in DOMAIN types : types[i].headers
               ELSE inv.topic.format = "json" /\ \E i \in DOMAIN types : types[i].key # None}

\* The Message types as the run binds them: an Avro run without Avro payloads
\* in its spec has one, of no name and no Headers.
Bound(inv) ==
    IF WireFormat(inv) = "avro" /\ SpecAvro(inv) = <<>>
    THEN <<[payload |-> inv.flags.avroSchema, headers |-> FALSE]>>
    ELSE [i \in DOMAIN inv.topic.types |->
            [payload |-> inv.topic.types[i].payload, headers |-> inv.topic.types[i].headers]]

KeySchema(inv) == IF WireFormat(inv) = "avro" THEN KeyAvsc(inv) ELSE SharedKeyBinding(inv.topic.types)
Keyed(inv) == KeySchema(inv) # None

\* encoderFor, and the JSON format's one.
EncoderOf(inv) ==
    CASE WireFormat(inv) = "json" -> "json"
      [] WireFormat(inv) = "avro" /\ inv.flags.dryRun -> "display"
      [] OTHER -> IF Len(ValueAvscs(inv)) > 1 THEN "union" ELSE "framed"

PlanOf(inv) ==
    [bound |-> Bound(inv), key |-> KeySchema(inv), encoder |-> EncoderOf(inv),
     perKey |-> IF Keyed(inv) THEN inv.flags.perKey ELSE 1,
     keyPath |-> inv.flags.keyPath,
     sink |-> IF inv.flags.dryRun THEN <<"stdout">> ELSE <<"broker", inv.flags.kafka>>,
     diagnostics |-> DisregardedDiagnostics(inv) \union IgnoredDiagnostics(inv)]
=============================================================================
