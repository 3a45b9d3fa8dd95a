---------------------------- MODULE AvscExpander ----------------------------
(* Document.avsc (avsc.go): an Avro schema made to stand alone. A $ref is     *)
(* expanded in place the first time; where it leads to a named type it is     *)
(* replaced by the type's full name from then on, since Avro defines a name   *)
(* once. What is expanded travels with the names defined so far: [out, names].*)
(* The model keeps names and namespaces apart, as "" and a dot do in the code.*)
EXTENDS SpecDocument

Named(namespace, name) == [namespace |-> namespace, name |-> name]  \* a full name
IsName(node) == "name" \in DOMAIN node

IsNamedType(node) == /\ IsObject(node)
                     /\ Get(node, "type") \in {Leaf(t) : t \in {"record", "error", "enum", "fixed"}}
                     /\ Get(node, "name") # Null

\* namespaceOf
NamespaceOf(node, enclosing) ==
    IF Get(node, "namespace") \in {Null, Leaf("")} THEN enclosing ELSE Get(node, "namespace").leaf

FullName(node, enclosing) == Named(NamespaceOf(node, enclosing), Get(node, "name").leaf)

Refused(names) == [out |-> Failed, names |-> names]

\* What a step expands added to the object or list its parent has so far.
With(so, key, step) ==
    IF so.out = Failed \/ step.out = Failed THEN Refused(step.names)
    ELSE [step EXCEPT !.out = IF IsObject(so.out) THEN Object(so.out.keys @@ (key :> @))
                              ELSE List(Append(so.out.items, @))]

\* The end of avscExpander.ref.
Remember(names, ref, target, enclosing) ==
    IF IsNamedType(target) THEN names @@ (ref :> FullName(target, enclosing)) ELSE names

\* avscExpander.node and ref
RECURSIVE ExpandAvsc(_, _, _, _)
ExpandAvsc(node, open, namespace, names) ==
    LET inside == IF IsNamedType(node) THEN NamespaceOf(node, namespace) ELSE namespace
        Member(k, so) == With(so, k, ExpandAvsc(node.keys[k], open, inside, so.names))
        Item(so, item) == With(so, "", ExpandAvsc(item, open, namespace, so.names))
        target == Pointer(node.ref)
        expanded == ExpandAvsc(target, Append(open, node.ref), namespace, names)
    IN CASE IsRef(node) /\ node.ref \in ToSet(open) -> Refused(names)
         [] IsRef(node) /\ node.ref \notin ToSet(open) /\ node.ref \in DOMAIN names ->
                [out |-> names[node.ref], names |-> names]
         [] IsRef(node) /\ node.ref \notin ToSet(open) \union DOMAIN names ->
                IF Len(open) = MaxRefChain \/ expanded.out = Failed THEN Refused(names)
                ELSE [expanded EXCEPT !.names = Remember(@, node.ref, target, namespace)]
         [] IsObject(node) -> FoldSet(Member, [out |-> Empty, names |-> names], DOMAIN node.keys)
         [] IsList(node) -> FoldLeft(Item, [out |-> List(<<>>), names |-> names], node.items)
         [] OTHER -> [out |-> node, names |-> names]

Avsc(node) == ExpandAvsc(node, <<>>, "", <<>>).out

-----------------------------------------------------------------------------
(* How Avro reads what comes out: every name is defined before it is used and *)
(* once, and an unqualified one belongs to the namespace around it.           *)

Used(name, namespace) == IF name.namespace = "" THEN Named(namespace, name.name) ELSE name
FieldTypes(node) == [i \in DOMAIN Get(node, "fields").items |-> Get(Get(node, "fields").items[i], "type")]

\* The types defined once a schema is read after those known before it, and
\* whether the reading has been legal.
RECURSIVE Read(_, _, _)
Read(node, namespace, so) ==
    LET name == FullName(node, namespace)
    IN CASE IsName(node) -> [so EXCEPT !.legal = @ /\ Used(node, namespace) \in DOMAIN so.types]
         [] IsNamedType(node) ->
                FoldLeft(LAMBDA sofar, type : Read(type, name.namespace, sofar),
                         [legal |-> so.legal /\ name \notin DOMAIN so.types,
                          types |-> so.types @@ (name :> node)],
                         FieldTypes(node))
         [] IsObject(node) /\ ~IsNamedType(node) -> Read(Get(node, "items"), namespace, so)
         [] OTHER -> so

\* The values a schema describes, whatever its types are called.
RECURSIVE Shape(_, _, _)
Shape(node, namespace, known) ==
    CASE IsRef(node) -> Shape(Pointer(node.ref), namespace, known)
      [] IsName(node) -> Shape(known[Used(node, namespace)], Used(node, namespace).namespace, known)
      [] IsNamedType(node) ->
            [fields |-> [i \in DOMAIN FieldTypes(node) |->
                            Shape(FieldTypes(node)[i], NamespaceOf(node, namespace), known)]]
      [] IsObject(node) /\ ~IsNamedType(node) -> [array |-> Shape(Get(node, "items"), namespace, known)]
      [] OTHER -> node

\* An expanded schema that Avro reads as the document means it.
Stands(out, node) ==
    LET read == Read(out, "", [legal |-> TRUE, types |-> <<>>])
    IN read.legal /\ Shape(out, "", read.types) = Shape(node, "", <<>>)
=============================================================================
