------------------------------ MODULE AsyncAPI ------------------------------
(* Document.Topic (internal/asyncapi): what an AsyncAPI document says of one  *)
(* Kafka topic. The entries bound to the topic are read one after the other,  *)
(* and each message of theirs once, its traits merged, its format judged and  *)
(* its schemas resolved; the whole is refused at the first error.             *)
EXTENDS MessageTypes, Traits, TopicBinding

CONSTANTS Specs,            \* documents
          Topic             \* the topic asked for

VARIABLES step,             \* "bind", "read", "accepted" or "refused"
          matched, at,      \* the entries bound, and the one being read
          todo,             \* its messages not yet looked at
          seen,             \* collector.seen
          types, params     \* what is found

vars == <<spec, step, matched, at, todo, seen, types, params>>

ASSUME BoundAssumption == MaxRefChain \in Nat /\ MaxMergeDepth \in Nat

-----------------------------------------------------------------------------
(* The entries of a document and their messages, in both front ends.          *)

\* kafkaTopic2 and kafkaTopic3: the topic an entry stands for, if it says so.
KafkaTopic(entry, key) ==
    LET kafka == KafkaBinding(Get(entry, "bindings"))
        topic == IF kafka \in {Null, Failed} THEN Null ELSE Get(kafka, "topic")
        address == IF spec.major = 2 THEN Text(key) ELSE Get(entry, "address")
    IN CASE kafka = Failed -> Failed
         [] kafka # Failed /\ topic # Null -> IF IsText(topic) THEN Text(Literal(topic.text)) ELSE Failed
         [] OTHER -> IF address = Null \/ IsText(address) THEN address ELSE Failed

\* Mutant: a component read wherever it is referenced.
OnceEach(node, read) == TRUE

\* collector.once
Once(node, read) == ~IsRef(node) \/ node.ref \notin read
Reads(node) == IF IsRef(node) THEN {node.ref} ELSE {}

\* The entries of the document, by key. In 3.0 one referenced twice is read
\* once, and one that names no topic is none.
Entries ==
    LET Visit(so, channel) ==
            LET node == ObjectAt(channel.node)
                topic == IF node = Failed THEN Failed ELSE KafkaTopic(node, channel.key)
            IN CASE so.failed \/ (spec.major = 3 /\ ~Once(channel.node, so.seen)) -> so
                 [] ~so.failed /\ topic = Failed -> [so EXCEPT !.failed = TRUE]
                 [] OTHER ->
                      [so EXCEPT !.seen = IF spec.major = 3 THEN @ \union Reads(channel.node) ELSE @,
                                 !.list = IF topic = Null THEN @
                                          ELSE Append(@, [id |-> channel.id, node |-> node,
                                                          template |-> topic.text])]
    IN FoldLeft(Visit, [failed |-> FALSE, seen |-> {}, list |-> <<>>], spec.channels)

\* The messages of an entry, each with where it is declared, which names it if
\* nothing else does.
\* The code sorts a 3.0 entry's by key; here they come in some fixed order.
MessagesOf(m) ==
    LET operations == <<"publish", "subscribe">>
        Operation(op) == IF Get(m.node, op) = Null THEN Empty ELSE ObjectAt(Get(m.node, op))
        Declared(op) == IF Get(Operation(op), "message") = Null THEN <<>>
                        ELSE <<[node |-> Get(Operation(op), "message"), place |-> <<m.id, op>>]>>
        messages == Get(m.node, "messages")
        keys == SetToSeq(DOMAIN messages.keys)
    IN CASE spec.major = 2 ->
                IF messages # Null \/ \E op \in ToSet(operations) : Operation(op) = Failed
                THEN Failed ELSE List(Declared("publish") \o Declared("subscribe"))
         [] spec.major = 3 /\ messages = Null /\ \A op \in ToSet(operations) : Get(m.node, op) = Null ->
                List(<<>>)
         [] OTHER ->
                IF ~IsObject(messages) \/ \E op \in ToSet(operations) : Get(m.node, op) # Null
                THEN Failed
                ELSE List([i \in DOMAIN keys |-> [node |-> messages.keys[keys[i]], place |-> <<m.id, keys[i]>>]])

-----------------------------------------------------------------------------
(* The reading.                                                               *)

Init ==
    /\ spec \in Specs
    /\ step = "bind" /\ at = 1
    /\ matched = <<>> /\ todo = <<>> /\ seen = {} /\ types = <<>> /\ params = <<>>

Refuse == /\ step' = "refused"
          /\ UNCHANGED <<spec, matched, at, todo, seen, types, params>>

\* An entry is taken up with its messages, or found to have none it may have.
TakeUp(entries, i) ==
    LET messages == IF i > Len(entries) THEN List(<<>>) ELSE MessagesOf(entries[i])
    IN IF messages = Failed THEN step' = "refused" /\ todo' = <<>>
       ELSE step' = "read" /\ todo' = messages.items

BindTopic ==
    /\ step = "bind"
    /\ LET found == Bind(Entries.list, Topic)
       IN IF Entries.failed \/ IsRefusal(found) THEN Refuse
          ELSE /\ matched' = found.matched
               /\ seen' = Entries.seen
               /\ TakeUp(found.matched, 1)
               /\ UNCHANGED <<spec, at, types, params>>

\* message2 and message3: the next message, unless it is a $ref read before.
\* A oneOf of 2.x gives way to its variants.
ReadMessage ==
    /\ step = "read" /\ todo # <<>>
    /\ LET next == Head(todo)
           node == next.node
           msg == ObjectAt(node)
           variants == Get(msg, "oneOf")
           traits == TraitsOf(msg)
           merged == WithTraits(msg, traits.items)
           from == IF IsRef(node) THEN <<node.ref>> ELSE next.place
           NameOf(m) == IF Get(m, "name") = Null THEN from ELSE <<Get(m, "name").leaf>>
           type == MessageType(merged, NameOf(IF spec.major = 2 THEN merged ELSE msg))
       IN CASE ~Once(node, seen) ->
                 todo' = Tail(todo) /\ UNCHANGED <<spec, step, matched, at, seen, types, params>>
            [] Once(node, seen) /\ msg # Failed /\ spec.major = 2 /\ IsList(variants) ->
                 /\ todo' = [i \in DOMAIN variants.items |->
                                [node |-> variants.items[i], place |-> Append(from, i)]] \o Tail(todo)
                 /\ seen' = seen \union Reads(node)
                 /\ UNCHANGED <<spec, step, matched, at, types, params>>
            [] OTHER ->
                 IF msg = Failed \/ traits = Failed \/ merged = Failed \/ type = Failed THEN Refuse
                 ELSE /\ types' = Append(types, type @@ [of |-> msg, from |-> from])
                      /\ seen' = seen \union Reads(node)
                      /\ todo' = Tail(todo)
                      /\ UNCHANGED <<spec, step, matched, at, params>>

\* The parameters of an entry follow its messages.
ReadParameters ==
    /\ step = "read" /\ todo = <<>> /\ at <= Len(matched)
    /\ LET found == Parameters(matched[at])
       IN IF found = Failed THEN Refuse
          ELSE /\ params' = MergeParameters(params, found.items)
               /\ at' = at + 1
               /\ TakeUp(matched, at + 1)
               /\ UNCHANGED <<spec, matched, seen, types>>

\* payloadFormat: one format for the topic.
Finish ==
    /\ step = "read" /\ todo = <<>> /\ at > Len(matched)
    /\ step' = IF types = <<>> \/ Cardinality({t.format : t \in ToSet(types)}) > 1
               THEN "refused" ELSE "accepted"
    /\ UNCHANGED <<spec, matched, at, todo, seen, types, params>>

Next == BindTopic \/ ReadMessage \/ ReadParameters \/ Finish
Spec == Init /\ [][Next]_vars

-----------------------------------------------------------------------------
(* What the reading promises. History: a type also records the message it was *)
(* read from (of) and which of the document's messages that is (from).        *)

Depth == 7      \* how deep the properties look into schemas

\* ADR-0005: a schema, made to stand alone, means what the document's does,
\* its cycles too, with the order of its members recorded; an avsc is one
\* that Avro reads so.
StandsFor(resolved, node, format) ==
    IF format = "avro" THEN Stands(resolved, node)
    ELSE Meaning(resolved.body, resolved.defs, "schema", Depth, TRUE)
             = Meaning(node, spec.components, "schema", Depth, FALSE)

MeaningKept ==
    \A t \in ToSet(types) : StandsFor(t.payload, PayloadOf(t.of).schema, t.format)

\* document.go:370: only a true cycle is kept as a reference. A schema defines
\* what its cycles reach, all of it and nothing else.
CyclesOnly ==
    \A t \in ToSet(types) : t.format = "json" =>
        LET circular == {r \in Closure(RefsIn(PayloadOf(t.of).schema)) : Circular(r)}
        IN /\ KeptIn(t.payload.body) \subseteq circular
           /\ DOMAIN t.payload.defs = Closure(circular)
           /\ \A r \in DOMAIN t.payload.defs : t.payload.defs[r] # Claimed

\* traits.go:40 and 50: merging through references is merging what they name;
\* in 2.x the last trait wins, in 3.0 the message does. (A message that goes
\* round in circles is no tree.)
TraitsMerged ==
    \A t \in ToSet(types) :
      Get(t.of, "traits") # Null /\ ~(\E r \in Closure(RefsIn(t.of)) : Circular(r)) =>
        LET merged == MergedTree(t.of, TraitsOf(t.of).items, Depth)
            kafka == KafkaBinding(Get(merged, "bindings"))
            Same(resolved, node) == IF node = Null THEN resolved = Null
                                    ELSE resolved # Null /\ StandsFor(resolved, node, "json")
        IN /\ Same(t.headers, Get(merged, "headers"))
           /\ t.format = "json" => Same(t.key, IF kafka = Null THEN Null ELSE Get(kafka, "key"))

\* A template is filled where there is one way to, however long the search:
\* every entry bound is, and no other way exists for any entry.
Fillings(template) ==
    LET names == ToSet(template.names)
        parts == {SubSeq(Topic, i, j) : i, j \in DOMAIN Topic} \ {<<>>}
        Filled(values) == template.literals[1] \o
            FlattenSeq([k \in DOMAIN template.names |-> values[template.names[k]] \o template.literals[k + 1]])
    IN {values \in [names -> parts] : Filled(values) = Topic}

FilledOneWay ==
    LET entries == ToSet(Entries.list)
        Fills == [e \in entries |-> Fillings(e.template)]
        ways == UNION {Fills[e] : e \in entries}
    IN /\ step # "bind" /\ matched # <<>> =>
            /\ Cardinality(ways) = 1
            /\ {m.id : m \in ToSet(matched)} = {e.id : e \in {f \in entries : Fills[f] # {}}}
            /\ \A m \in ToSet(matched) : Assignment(m.template, m.values) \in ways
       /\ step = "refused" /\ matched = <<>> /\ ~Entries.failed => Cardinality(ways) # 1

\* topic.go:266: a parameter is listed once per place it is said to be found
\* at, and without one only if no entry says.
ParametersMerged ==
    LET Said(n) == {p.place : p \in {q \in UNION {ToSet(Parameters(matched[i]).items) : i \in 1..(at - 1)} :
                                        q.name = n}}
        Listed(n) == SelectSeq(params, LAMBDA p : p.name = n)
    IN \A n \in UNION {ToSet(m.template.names) : m \in ToSet(matched)} :
        /\ IsInjective(Listed(n))
        /\ {p.place : p \in ToSet(Listed(n))}
             = IF Said(n) = {NoPlace} THEN Said(n) ELSE Said(n) \ {NoPlace}

\* document.go:116: the topic has every message its entries declare, each
\* component once.
RECURSIVE Variants(_, _, _)
Variants(node, place, above) ==
    LET msg == ObjectAt(node)
        from == IF IsRef(node) THEN <<node.ref>> ELSE place
        variants == Get(msg, "oneOf")
    IN CASE from \in above \/ msg = Failed -> {}
         [] spec.major = 2 /\ IsList(variants) /\ from \notin above ->
                UNION {Variants(variants.items[i], Append(from, i), above \union {from}) : i \in DOMAIN variants.items}
         [] OTHER -> {from}

MessagesOnce ==
    step = "accepted" =>
        LET declared == UNION {UNION {Variants(d.node, d.place, {}) : d \in ToSet(MessagesOf(m).items)} :
                               m \in ToSet(matched)}
        IN /\ {t.from : t \in ToSet(types)} = declared
           /\ Len(types) = Cardinality(declared)
=============================================================================
