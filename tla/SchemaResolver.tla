--------------------------- MODULE SchemaResolver ---------------------------
(* Document.schema (document.go, order.go): a schema node made into a schema  *)
(* that stands alone. Every $ref is expanded in place but one that is being   *)
(* expanded already: that one is kept as a reference into the schema's own    *)
(* $defs, which define its target, and whatever that refers to, unexpanded.   *)
(* The copy of a schema object is stamped with the order its members were     *)
(* written in; which order that is the model leaves out.                      *)
EXTENDS SpecDocument

Kept(ref) == [local |-> ref]        \* a $ref into $defs
IsKept(node) == "local" \in DOMAIN node
Claimed == [claimed |-> TRUE]       \* a definition begun

NameKeywords == {"properties", "patternProperties", "$defs", "definitions",
                 "dependencies", "dependentSchemas"}
LiteralKeywords == {"example", "examples", "const", "enum"}

\* place.child: what stands under a member of an object at a place.
Child(at, key) ==
    CASE at = "literal" -> "literal"
      [] at = "names" -> "schema"
      [] OTHER -> IF key \in NameKeywords THEN "names"
                  ELSE IF key \in LiteralKeywords \union {"default"} THEN "literal" ELSE "schema"

\* Mutant: a reference taken to lead to a schema wherever it stands.
ReferencedAsSchema(at) == "schema"

Referenced(at) == IF at = "literal" THEN "literal" ELSE "schema"

RECURSIVE HoldsObject(_)
HoldsObject(node) ==
    IsMap(node) \/ (IsList(node) /\ \E i \in DOMAIN node.items : HoldsObject(node.items[i]))

Stamps(node) ==
    {k \in {"x-order"} : IsMap(Get(node, "properties"))}
        \union {k \in {"x-literals"} : \E l \in LiteralKeywords : HoldsObject(Get(node, l))}

Stamp(node, members, at) ==
    IF at = "schema" THEN members @@ [k \in Stamps(node) |-> Leaf("stamp")] ELSE members

\* What an object or a list holds, where each part of it stands, and the copy
\* it makes once its parts are copied.
Parts(node) == IF IsObject(node) THEN node.keys ELSE node.items
PlaceOf(node, part, at) == IF IsObject(node) THEN Child(at, part) ELSE at
CopyOf(node, at, copies) ==
    CASE \E k \in DOMAIN copies : copies[k] = Failed -> Failed
      [] OTHER -> IF IsObject(node) THEN Object(Stamp(node, copies, at)) ELSE List(copies)

\* resolver.node: open is the stack of references being expanded.
RECURSIVE Expand(_, _, _)
Expand(node, open, at) ==
    CASE IsRef(node) -> IF node.ref \in open THEN Kept(node.ref)
                        ELSE Expand(Pointer(node.ref), open \union {node.ref}, Referenced(at))
      [] IsObject(node) \/ IsList(node) ->
            CopyOf(node, at, [k \in DOMAIN Parts(node) |-> Expand(Parts(node)[k], open, PlaceOf(node, k, at))])
      [] OTHER -> node

\* resolver.local
RECURSIVE Localise(_, _)
Localise(node, at) ==
    CASE IsRef(node) -> Kept(node.ref)
      [] IsObject(node) \/ IsList(node) ->
            CopyOf(node, at, [k \in DOMAIN Parts(node) |-> Localise(Parts(node)[k], PlaceOf(node, k, at))])
      [] OTHER -> node

RECURSIVE KeptIn(_)
KeptIn(node) ==
    CASE IsKept(node) -> {node.local}
      [] IsObject(node) -> UNION {KeptIn(node.keys[k]) : k \in DOMAIN node.keys}
      [] IsList(node) -> UNION {KeptIn(node.items[i]) : i \in DOMAIN node.items}
      [] OTHER -> {}

\* Mutant: a target defined without the targets it refers to.
DefineAlone(ref, defs) ==
    IF ref \in DOMAIN defs THEN defs ELSE defs @@ (ref :> Localise(Pointer(ref), "schema"))

\* resolver.cycle and define: claimed first, so that its own cycles stop there.
RECURSIVE Define(_, _)
Define(ref, defs) ==
    IF ref \in DOMAIN defs THEN defs
    ELSE LET target == Localise(Pointer(ref), "schema")
         IN [FoldSet(Define, defs @@ (ref :> Claimed), KeptIn(target)) EXCEPT ![ref] = target]

Schema(node) ==
    LET body == Expand(node, {}, "schema")
    IN IF IsObject(body) \/ IsKept(body)
       THEN [body |-> body, defs |-> FoldSet(Define, <<>>, KeptIn(body))]
       ELSE Failed

-----------------------------------------------------------------------------
(* What a schema means: the tree a reader of it sees to a given depth, every  *)
(* reference followed but one left in a literal, which is taken as it stands. *)
(* A schema of the document is read as if stamped.                            *)

Loop == [loop |-> TRUE]
Beyond == [beyond |-> TRUE]
Dangling == [dangling |-> TRUE]

RECURSIVE Landing(_, _, _)
Landing(node, defs, passed) ==
    LET name == IF IsRef(node) THEN node.ref ELSE node.local
    IN CASE ~IsRef(node) /\ ~IsKept(node) -> node
         [] name \in passed -> Loop
         [] name \notin DOMAIN defs -> Dangling
         [] OTHER -> Landing(defs[name], defs, passed \union {name})

\* The part of a schema under a keyword, under a name, or inside a literal.
PartUnder(part, key) ==
    CASE part = "literal" -> "literal"
      [] part = "names" -> "schema"
      [] key = "properties" -> "names"
      [] key \in LiteralKeywords -> "literal"
      [] OTHER -> "schema"

RECURSIVE Meaning(_, _, _, _, _)
Meaning(node, defs, part, depth, stamped) ==
    LET n == IF part = "literal" /\ IsKept(node) THEN node ELSE Landing(node, defs, {})
        Stamped == IF part = "schema" /\ ~stamped THEN Stamps(n) ELSE {}
    IN CASE (IsObject(n) \/ IsList(n)) /\ depth = 0 -> Beyond
         [] IsObject(n) /\ depth > 0 ->
                Object([k \in DOMAIN n.keys |->
                            Meaning(n.keys[k], defs, PartUnder(part, k), depth - 1, stamped)]
                       @@ [k \in Stamped |-> Leaf("stamp")])
         [] IsList(n) /\ depth > 0 ->
                List([i \in DOMAIN n.items |-> Meaning(n.items[i], defs, part, depth - 1, stamped)])
         [] OTHER -> n

\* The references a node reaches through any number of others.
RECURSIVE RefsIn(_)
RefsIn(node) ==
    CASE IsRef(node) -> {node.ref}
      [] IsObject(node) -> UNION {RefsIn(node.keys[k]) : k \in DOMAIN node.keys}
      [] IsList(node) -> UNION {RefsIn(node.items[i]) : i \in DOMAIN node.items}
      [] OTHER -> {}
RECURSIVE Closure(_)
Closure(refs) ==
    LET more == refs \union UNION {RefsIn(Pointer(r)) : r \in refs}
    IN IF more = refs THEN refs ELSE Closure(more)
Circular(ref) == ref \in Closure(RefsIn(Pointer(ref)))
=============================================================================
