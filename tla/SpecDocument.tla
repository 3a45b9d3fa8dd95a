---------------------------- MODULE SpecDocument ----------------------------
(* A parsed AsyncAPI document (internal/asyncapi/document.go): what its nodes *)
(* are, and how a reference is followed to one. A $ref is named by what it    *)
(* points to; a node that is a $ref has nothing else to say.                  *)
EXTENDS Integers, SequencesExt

CONSTANT MaxRefChain        \* maxRefChain, 32

VARIABLE spec               \* the document: major, channels, components

Leaf(value) == [leaf |-> value]
Ref(name) == [ref |-> name]
Object(members) == [keys |-> members]
List(items) == [items |-> items]
Text(value) == [text |-> value]     \* a string the tool takes apart

Null == Leaf("null")
Empty == Object(<<>>)
Failed == [failed |-> TRUE]         \* an error, which ends the reading

IsRef(node) == "ref" \in DOMAIN node
IsObject(node) == "keys" \in DOMAIN node
IsList(node) == "items" \in DOMAIN node
IsText(node) == "text" \in DOMAIN node
IsMap(node) == IsRef(node) \/ IsObject(node)

\* A member of an object; to the code an absent one is a null one.
Get(node, key) == IF key \in DOMAIN node.keys THEN node.keys[key] ELSE Null

\* pointer: what a $ref names, if the document has it.
Pointer(name) == IF name \in DOMAIN spec.components THEN spec.components[name] ELSE Failed

\* object: the object at the end of a chain of references.
RECURSIVE Follow(_, _)
Follow(node, links) ==
    CASE IsObject(node) -> node
      [] IsRef(node) /\ links < MaxRefChain -> Follow(Pointer(node.ref), links + 1)
      [] OTHER -> Failed
ObjectAt(node) == Follow(node, 0)
=============================================================================
