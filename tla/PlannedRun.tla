----------------------------- MODULE PlannedRun -----------------------------
(* An invocation judged rule by rule, and the messages of the run it plans:    *)
(* each generated whole by Mix.Generate (wire/mix.go), its Key drawn from the  *)
(* pool of KeyReuse where the run has one, then encoded by the Encoder the     *)
(* plan has chosen. What a peer may refuse is ProcessEdge's; whether a         *)
(* Planting stands is Planting's.                                              *)
EXTENDS RunPlan, KeyReuse

CONSTANTS Invocations,
          Payloads,    \* the avscs and JSON Schemas a Message type may have
          KeyValues    \* what a Key schema's values may be, of "value" and "null"

\* Without a Key schema a Key is null.
ASSUME KeyValuesAssumption ==
    /\ KeyValues \in [DOMAIN KeyValues -> SUBSET {"value", "null"}]
    /\ None \in DOMAIN KeyValues /\ KeyValues[None] = {"null"}

\* A topic's payloads are of one format (payloadFormat, topic.go:89).
FlagSet ==
    [parse : {"ok", "bad", "help"}, spec : BOOLEAN, channel : BOOLEAN, topic : BOOLEAN, level : BOOLEAN,
     key : BOOLEAN, perKey : Int, format : {None, "json", "avro"}, keyPath : BOOLEAN,
     avroSchema : DOMAIN RecordOf \union {None}, avroKeySchema : DOMAIN KeyValues,
     registry : BOOLEAN, dryRun : BOOLEAN, kafka : BOOLEAN]
MessageTypeSet ==
    [payload : Payloads, key : DOMAIN KeyValues, headers : BOOLEAN, honoured : BOOLEAN]
TopicSet ==
    [read : {"ok", "unloadable", "refused"}, format : {"json", "avro"}, types : Seq(MessageTypeSet),
     inHeaders : BOOLEAN, plants : BOOLEAN, unites : BOOLEAN]
ASSUME InvocationsAssumption ==
    /\ Invocations \subseteq [flags : FlagSet, topic : TopicSet]
    /\ 1 \in PerKeys
    /\ \A i \in Invocations : i.flags.perKey > 0 => i.flags.perKey \in PerKeys

VARIABLES inv, phase,
          rule,        \* the rule judged next
          opened,      \* history: the avscs read
          message,     \* the message in hand: its Type, the avsc or schema its
                       \* Payload was generated of, and what its Key is
          encodedWith  \* the schemas that fit what its Encoder looked for

ring == <<perKey, keys, oldest, created, key>>
planning == <<rule, opened>>
runVars == <<inv, phase, planning, message, encodedWith, ring>>

RunInit ==
    /\ inv \in Invocations
    /\ phase = "plan" /\ rule = 1 /\ opened = {}
    /\ message = None /\ encodedWith = None
    /\ perKey = 1 /\ keys = <<>> /\ oldest = 0 /\ created = 0 /\ key = 0

-----------------------------------------------------------------------------
(* Plan.                                                                       *)
AskForHelp ==
    /\ phase = "plan" /\ rule = 1 /\ HelpAsked(inv)
    /\ phase' = "help"
    /\ UNCHANGED <<inv, planning, message, encodedWith, ring>>

Judge ==
    /\ phase = "plan" /\ ~HelpAsked(inv) /\ rule \in DOMAIN Rules(inv)
    /\ LET judged == Rules(inv)[rule]
       IN /\ opened' = opened \union judged.reads
          /\ IF judged.broken THEN phase' = "refused" /\ UNCHANGED rule
             ELSE rule' = rule + 1 /\ UNCHANGED phase
    /\ UNCHANGED <<inv, message, encodedWith, ring>>

\* Every rule is kept: the parts are wired, the Key generator as Reuse says.
Build ==
    /\ phase = "plan" /\ rule > Len(Rules(inv))
    /\ phase' = "generate"
    /\ perKey' = PlanOf(inv).perKey
    /\ UNCHANGED <<inv, planning, message, encodedWith, keys, oldest, created, key>>

-----------------------------------------------------------------------------
(* One message after the other.                                                *)
DrawKey == IF Keyed(inv) THEN Fresh \/ ReuseKey ELSE UNCHANGED ring

\* Mix.Generate: Type is the index of the bound Message type picked.
Generate ==
    /\ phase = "generate"
    /\ \E type \in DOMAIN Bound(inv), k \in KeyValues[KeySchema(inv)] :
        message' = [type |-> type, of |-> Bound(inv)[type].payload, key |-> k]
    /\ DrawKey
    /\ phase' = "encode"
    /\ UNCHANGED <<inv, planning, encodedWith>>

\* A Payload, Headers or Key whose schema cannot be honoured ends the run.
GenerateFails ==
    /\ phase = "generate"
    /\ phase' = "failed"
    /\ FreshFails
    /\ UNCHANGED <<inv, planning, message, encodedWith>>

\* The avscs an Encoder may encode the Payload with: in a union, those of the
\* branch named like the record of the Message type.
AvscsFor(m) ==
    LET own == Bound(inv)[m.type].payload
    IN CASE EncoderOf(inv) = "union" ->
              {avsc \in ToSet(ValueAvscs(inv)) : RecordOf[avsc] = RecordOf[own]}
         [] EncoderOf(inv) = "framed" -> {Bound(inv)[1].payload}
         [] OTHER -> {own}

\* The AVRO Encoders want a Key that is not null if and only if they have a
\* key avsc.
KeyMismatch(m) == EncoderOf(inv) # "json" /\ Keyed(inv) # (m.key = "value")

Encode ==
    /\ phase = "encode" /\ ~KeyMismatch(message)
    /\ encodedWith' = [payload |-> AvscsFor(message),
                       key |-> IF message.key = "null" THEN None ELSE KeySchema(inv)]
    /\ phase' = "generate"
    /\ UNCHANGED <<inv, planning, message, ring>>

EncodeFails ==
    /\ phase = "encode" /\ KeyMismatch(message)
    /\ phase' = "nonconforming"
    /\ UNCHANGED <<inv, planning, message, encodedWith, ring>>

RunNext == AskForHelp \/ Judge \/ Build \/ Generate \/ GenerateFails \/ Encode \/ EncodeFails

RunSpec == RunInit /\ [][RunNext]_runVars

-----------------------------------------------------------------------------
\* "Every rule about the flags themselves is judged before any of the format's
\* files is read, so a conflicting or missing flag wins over a broken file"
\* (wire.go:24): a run that stops after it opened an avsc has its flags right.
FlagsBeforeFiles ==
    phase = "refused" /\ opened # {} =>
        \A i \in DOMAIN Rules(inv) : Rules(inv)[i].usage => ~Rules(inv)[i].broken

\* What an invocation or its spec says that a run could fail to honour.
Saying == {"keyPath", "avro-schema", "avro-key-schema", "registry", "kafka options",
           "records-per-key", "headers", "key bindings"}

WithoutDeclared(i, part, value) ==
    [i EXCEPT !.topic.types = [n \in DOMAIN @ |-> [@[n] EXCEPT ![part] = value]]]

Without(i, what) ==
    CASE what = "keyPath" -> [i EXCEPT !.flags.keyPath = FALSE]
      [] what = "avro-schema" -> [i EXCEPT !.flags.avroSchema = None]
      [] what = "avro-key-schema" -> [i EXCEPT !.flags.avroKeySchema = None]
      [] what = "registry" -> [i EXCEPT !.flags.registry = FALSE]
      [] what = "kafka options" -> [i EXCEPT !.flags.kafka = FALSE]
      [] what = "records-per-key" -> [i EXCEPT !.flags.perKey = 1]
      [] what = "headers" -> WithoutDeclared(i, "headers", FALSE)
      [] what = "key bindings" -> WithoutDeclared(i, "key", None)

Diagnostic(what) == IF what = "registry" THEN "kafka options" ELSE what

SilentPlan(i) == [PlanOf(i) EXCEPT !.diagnostics = {}]

\* A run that is planned honours what it is told or says that it does not:
\* without it, another run is planned, or none, or a diagnostic names it
\* (runplan.go:264, avrowire.go:171-182).
NothingIgnored ==
    phase = "generate" =>
        \A what \in Saying :
            \/ Without(inv, what) = inv
            \/ Refused(Without(inv, what))
            \/ SilentPlan(Without(inv, what)) # SilentPlan(inv)
            \/ Diagnostic(what) \in PlanOf(inv).diagnostics

\* A Payload is encoded with the avsc it was generated of and no other, and in
\* AVRO a record has a Key exactly if the run has a key avsc; only a Key that is
\* null, where the key avsc allows it, stops the run (mix.go:23,
\* avro_encoder.go:175-217).
EncodesAsGenerated ==
    /\ phase = "generate" /\ encodedWith # None =>
          /\ encodedWith.payload = {message.of}
          /\ EncoderOf(inv) # "json" => encodedWith.key = KeySchema(inv)
    /\ phase = "nonconforming" => "null" \in KeyValues[KeySchema(inv)] /\ Keyed(inv)
=============================================================================
