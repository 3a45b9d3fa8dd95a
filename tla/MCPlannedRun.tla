---------------------------- MODULE MCPlannedRun ----------------------------
(* Value avscs A, A2 (another definition of the same record) and B, and  *)
(* a broken one too; key avscs, one of them of type null (a union is never     *)
(* null itself); JSON Schemas S, T, and a Key binding that allows null.        *)
EXTENDS PlannedRun

CONSTANTS A, A2, B, Broken, K, KNull, BrokenKey, KeyBinding, S, T

MCMalformed == {Broken, BrokenKey}
MCRecordOf == (A :> "a") @@ (A2 :> "a") @@ (B :> "b") @@ (Broken :> "broken")
MCKeyValues == (None :> {"null"}) @@ (K :> {"value"}) @@ (KNull :> {"null"})
                 @@ (BrokenKey :> {}) @@ (KeyBinding :> {"value", "null"})
MCPerKeys == {1, 2}
MCPayloads == {A, A2, B, Broken, S, T}

Type(payload, binding, headers) ==
    [payload |-> payload, key |-> binding, headers |-> headers, honoured |-> TRUE]

TopicOf(format, types) ==
    [read |-> "ok", format |-> format, types |-> types,
     inHeaders |-> FALSE, plants |-> TRUE, unites |-> TRUE]

JSONTopics ==
    {TopicOf("json", types) : types \in
        {<<Type(S, None, FALSE)>>, <<Type(S, KeyBinding, TRUE), Type(T, KeyBinding, FALSE)>>,
         <<Type(S, None, FALSE), Type(T, KeyBinding, TRUE)>>}}
AvroTopics ==
    {TopicOf("avro", types) : types \in
        {<<Type(A, None, TRUE)>>, <<Type(A, K, FALSE), Type(B, K, TRUE)>>,
         <<Type(A, None, FALSE), Type(A2, None, FALSE)>>,
         <<Type(A, KNull, FALSE)>>, <<Type(B, BrokenKey, FALSE)>>, <<Type(Broken, K, FALSE)>>}}

\* What else a spec may say.
Topics ==
    JSONTopics \union AvroTopics \union
    {TopicOf("json", <<>>)} \union
    {[TopicOf("json", <<Type(S, KeyBinding, TRUE)>>) EXCEPT !.inHeaders = TRUE],
     [TopicOf("avro", <<Type(A, None, FALSE), Type(B, None, FALSE)>>) EXCEPT !.unites = FALSE],
     [TopicOf("avro", <<Type(A, None, FALSE)>>) EXCEPT !.plants = FALSE],
     [TopicOf("json", <<Type(S, None, FALSE)>>) EXCEPT !.plants = FALSE],
     TopicOf("avro", <<[Type(A, None, FALSE) EXCEPT !.honoured = FALSE]>>)}

Flags ==
    [parse : {"ok"}, spec : {TRUE}, channel : {FALSE}, topic : {TRUE}, level : {TRUE}, key : {FALSE},
     perKey : MCPerKeys, format : {None, "json", "avro"}, keyPath : BOOLEAN,
     avroSchema : {None, A, Broken}, avroKeySchema : {None, K, KNull, BrokenKey},
     registry : BOOLEAN, dryRun : BOOLEAN, kafka : BOOLEAN]

Plain == [flags |-> [parse |-> "ok", spec |-> TRUE, channel |-> FALSE, topic |-> TRUE, level |-> TRUE,
                     key |-> FALSE, perKey |-> 1, format |-> None, keyPath |-> FALSE,
                     avroSchema |-> None, avroKeySchema |-> None, registry |-> FALSE,
                     dryRun |-> TRUE, kafka |-> FALSE],
          topic |-> TopicOf("json", <<Type(S, None, FALSE)>>)]

\* One slip each, before the Wire format is known.
Slips ==
    {[Plain EXCEPT !.flags.parse = p] : p \in {"bad", "help"}} \union
    {[Plain EXCEPT !.flags.spec = FALSE], [Plain EXCEPT !.flags.channel = TRUE],
     [Plain EXCEPT !.flags.topic = FALSE], [Plain EXCEPT !.flags.perKey = 0],
     [Plain EXCEPT !.flags.key = TRUE], [Plain EXCEPT !.flags.level = FALSE]} \union
    {[Plain EXCEPT !.topic.read = r] : r \in {"unloadable", "refused"}}

MCInvocations == Slips \union [flags : Flags, topic : Topics]
=============================================================================
