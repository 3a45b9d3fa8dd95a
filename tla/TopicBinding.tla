---------------------------- MODULE TopicBinding ----------------------------
(* Which entries of an AsyncAPI document a Kafka topic is bound to, and the   *)
(* Topic parameters it fills them with (topic.go). A topic and the parts of a *)
(* template are sequences of characters.                                      *)
EXTENDS SpecDocument

Refusal(why) == [refusal |-> why]
IsRefusal(result) == "refusal" \in DOMAIN result

\* A template, {region}.orders say: its literal parts around its parameters.
Template(literals, names) == [literals |-> literals, names |-> names]
Literal(topic) == Template(<<topic>>, <<>>)
Templated(template) == template.names # <<>>

\* assignment: a parameter named twice has the value it was given last.
Assignment(template, values) ==
    LET filled == SubSeq(template.names, 1, Len(values))
    IN [n \in ToSet(filled) |-> values[SelectLastInSeq(filled, LAMBDA m : m = n)]]

StartsAt(topic, at, part) ==
    at + Len(part) <= Len(topic) + 1 /\ SubSeq(topic, at, at + Len(part) - 1) = part
FirstTwo(ways) == IF Len(ways) > 2 THEN SubSeq(ways, 1, 2) ELSE ways

\* Mutant: a parameter named twice may take two values.
AgreesLoosely(template, values, value) == TRUE

\* A parameter named before must take the value it took.
Agrees(template, values, value) ==
    LET name == template.names[Len(values) + 1]
        before == Assignment(template, values)
    IN name \in DOMAIN before => before[name] = value

\* fill: the values of the first two ways to fill a template, from at on.
RECURSIVE Fill(_, _, _, _)
Fill(template, topic, at, values) ==
    LET k == Len(values)
        next == template.literals[k + 2]
        Ends == {e \in at..Len(topic) :
                    StartsAt(topic, e + 1, next) /\ Agrees(template, values, SubSeq(topic, at, e))}
    IN IF k = Len(template.names)
       THEN IF at = Len(topic) + 1 THEN <<values>> ELSE <<>>
       ELSE FirstTwo(FoldLeft(LAMBDA ways, e : ways \o Fill(template, topic, e + 1 + Len(next),
                                                    Append(values, SubSeq(topic, at, e))),
                              <<>>, SetToSortSeq(Ends, <)))

Ways(template, topic) ==
    IF StartsAt(topic, 1, template.literals[1])
    THEN Fill(template, topic, Len(template.literals[1]) + 1, <<>>) ELSE <<>>

\* bind and sameWay: the entries bound to the topic, with their values.
Bind(entries, topic) ==
    LET ways == [i \in DOMAIN entries |-> Ways(entries[i].template, topic)]
        Bound(i) == ways[i] # <<>>
        matched == [j \in 1..Cardinality({i \in DOMAIN entries : Bound(i)}) |->
                        LET i == SetToSortSeq({i \in DOMAIN entries : Bound(i)}, <)[j]
                        IN entries[i] @@ [values |-> ways[i][1]]]
        How(m) == Assignment(m.template, m.values)
    IN CASE \E i \in DOMAIN entries : Len(ways[i]) > 1 -> Refusal("ambiguous")
         [] \E j \in DOMAIN matched : How(matched[j]) # How(matched[1]) -> Refusal("ambiguous")
         [] OTHER -> IF matched = <<>> THEN Refusal("not found") ELSE [matched |-> matched]

-----------------------------------------------------------------------------
(* The parameters of one entry.                                               *)

NoPlace == <<>>

\* location: a place is a sequence of the whole it lies in and the way there.
Location(declared) ==
    LET location == Get(declared, "location")
    IN CASE location = Null -> NoPlace
         [] IsText(location) /\ Len(location.text) > 1
            /\ location.text[1] \in {"payload", "header"} -> location.text
         [] OTHER -> Failed

\* checkEnum, of 3.0, and checkSchema, of 2.x: the declared value or values.
\* A schema is read as the enum it stands for and the type it declares.
Admits(declared, value) ==
    LET schema == ObjectAt(Get(declared, "schema"))
        Lists(node) == IsList(Get(node, "enum")) /\ Text(value) \in ToSet(Get(node, "enum").items)
    IN CASE spec.major = 3 -> Get(declared, "enum") = Null \/ Lists(declared)
         [] OTHER -> \/ Get(declared, "schema") = Null
                     \/ /\ schema # Failed
                        /\ Get(schema, "type") \in {Null, Leaf("string")}
                        /\ Get(schema, "enum") = Null \/ Lists(schema)

Parameter(node, name, value) ==
    LET declared == ObjectAt(node)
        known == [name |-> name, value |-> value]
    IN CASE node = Null -> known @@ [place |-> NoPlace]
         [] node # Null /\ (declared = Failed \/ ~Admits(declared, value) \/ Location(declared) = Failed) ->
                Failed
         [] OTHER -> known @@ [place |-> Location(declared)]

\* Document.parameters: each name of the template once, in order.
Parameters(m) ==
    LET names == FoldLeft(LAMBDA s, n : IF n \in ToSet(s) THEN s ELSE Append(s, n), <<>>, m.template.names)
        declared == IF Get(m.node, "parameters") = Null THEN Empty ELSE ObjectAt(Get(m.node, "parameters"))
        found == [i \in DOMAIN names |->
                    Parameter(Get(declared, names[i]), names[i], Assignment(m.template, m.values)[names[i]])]
    IN IF m.template.names # <<>> /\ (declared = Failed \/ Failed \in ToSet(found))
       THEN Failed ELSE List(found)

\* Mutant: a place found later does not take over from none.
AddAfter(have, p) ==
    IF p \in ToSet(have) THEN have ELSE Append(have, p)

\* One step of mergeParameters.
Add(have, p) ==
    LET i == SelectInSeq(have, LAMBDA h : h.name = p.name)
    IN CASE i = 0 -> Append(have, p)
         [] i # 0 /\ (p.place = NoPlace \/ \E h \in ToSet(have) : h.name = p.name /\ h.place = p.place) -> have
         [] OTHER -> IF have[i].place = NoPlace THEN [have EXCEPT ![i] = p] ELSE Append(have, p)

MergeParameters(have, found) == FoldLeft(Add, have, found)
=============================================================================
