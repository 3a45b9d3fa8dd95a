------------------------------ MODULE Guarantee ------------------------------
(* The place of a planted value. Before the run Walk.Locate (walk.go) follows *)
(* a path through a schema and accepts it when generation puts something at   *)
(* its end in every record; afterwards Generator.value (generator.go), a      *)
(* second reading of the same schema with random choices, must never leave    *)
(* the place out. Both are modelled one schema node at a time, the generation *)
(* along the planted path: pos is the node either of them reads, its depth of *)
(* $refs, and how many steps of the path lead to it.                          *)
EXTENDS JSONSchema

CONSTANTS
    Documents,         \* what may be walked: [root |-> schema, defs |-> schemas]
    Paths,             \* the paths a user may ask for
    Names,             \* the names of fields, and what else a token may be
    IndexOf,           \* the tokens that read as an array index, to that index
    MaxRecursionDepth, \* the budget of nested $refs; 8 in the code
    Merged(_),         \* mergeSchemas: the merge of allOf branches, or None
    None

Steps == [field : Names \union {None}, index : Int, token : BOOLEAN]

ASSUME BudgetAssumption == MaxRecursionDepth \in Nat
ASSUME PathAssumption == Paths \subseteq Seq(Steps)
ASSUME IndexAssumption == IndexOf \in [DOMAIN IndexOf -> Nat]

VARIABLES doc, path, phase, pos, located, outcome, trail
vars == <<doc, path, phase, pos, located, outcome, trail>>

(* trail is not in the code: the positions the walk went through, kept to     *)
(* compare the generation with.                                               *)

Phases == {"walk", "refused", "ready", "record", "failed"}
Outcomes == {"present", "missed", "absent", "error", None}

At(node, depth, at) == [node |-> node, depth |-> depth, at |-> at]
Origin == At(doc.root, 0, 0)

Field(name) == [field |-> name, index |-> -1, token |-> FALSE]
Index(i) == [field |-> None, index |-> i, token |-> FALSE]
Token(t) == [field |-> t, index |-> -1, token |-> TRUE]

Into == pos.at < Len(path)

-----------------------------------------------------------------------------
(* Locate.                                                                    *)

\* A token is an index where the schema may be an array, else a field.
Resolve(s, step) ==
    CASE ~step.token -> step
      [] step.token /\ step.field \in DOMAIN IndexOf /\ "array" \in Types(s) ->
            Index(IndexOf[step.field])
      [] OTHER -> Field(step.field)

\* Mutant: an optional property taken for one that is always there.
GuaranteedOptional(s, step) ==
    IF step.index >= 0
    THEN /\ Types(s) = {"array"}
         /\ step.index < Value(s, "minItems", 1)
         /\ Declares(s, "items")
    ELSE Types(s) = {"object"} /\ step.field \in DOMAIN Value(s, "properties", <<>>)

\* descend and always: the steps every value of the schema has.
Guaranteed(s, step) ==
    IF step.index >= 0
    THEN /\ Types(s) = {"array"}
         /\ step.index < Value(s, "minItems", 1)
         /\ Declares(s, "items")
    ELSE /\ Types(s) = {"object"}
         /\ step.field \in DOMAIN Value(s, "properties", <<>>)
         /\ step.field \in Value(s, "required", {})

Child(s, step) == IF step.index >= 0 THEN s["items"] ELSE s["properties"][step.field]

Walking == phase = "walk"
Refuse == phase' = "refused" /\ UNCHANGED <<pos, located, trail>>
MoveTo(position) ==
    pos' = position /\ trail' = trail \union {position} /\ UNCHANGED phase

\* Mutant: a $ref that costs the walk nothing.
WalkRefFree ==
    /\ Walking /\ Declares(pos.node, "$ref")
    /\ IF Defined(doc.defs, pos.node) /\ pos.depth < MaxRecursionDepth
       THEN MoveTo(At(Target(doc.defs, pos.node), pos.depth, pos.at)) /\ UNCHANGED located
       ELSE Refuse
    /\ UNCHANGED <<doc, path, outcome>>

WalkRef ==
    /\ Walking /\ Declares(pos.node, "$ref")
    /\ IF Defined(doc.defs, pos.node) /\ pos.depth < MaxRecursionDepth
       THEN MoveTo(At(Target(doc.defs, pos.node), pos.depth + 1, pos.at)) /\ UNCHANGED located
       ELSE Refuse
    /\ UNCHANGED <<doc, path, outcome>>

\* A literal is in the way of a further step, and no obstacle at the end.
Blocked == Into /\ IsLiteral(pos.node)

WalkLiteral ==
    /\ Walking /\ ~Declares(pos.node, "$ref") /\ Blocked
    /\ Refuse
    /\ UNCHANGED <<doc, path, outcome>>

WalkAllOf ==
    /\ Walking /\ ~Declares(pos.node, "$ref") /\ ~Blocked /\ Declares(pos.node, "allOf")
    /\ IF Merged(pos.node["allOf"]) # None
       THEN MoveTo(At(Merged(pos.node["allOf"]), pos.depth, pos.at)) /\ UNCHANGED located
       ELSE Refuse
    /\ UNCHANGED <<doc, path, outcome>>

Alternatives(s) == Declares(s, "oneOf") \/ Declares(s, "anyOf")
Composed(s) == Declares(s, "$ref") \/ Declares(s, "allOf")

WalkAlternatives ==
    /\ Walking /\ ~Composed(pos.node) /\ ~Blocked /\ Alternatives(pos.node)
    /\ Refuse
    /\ UNCHANGED <<doc, path, outcome>>

WalkStep ==
    /\ Walking /\ ~Composed(pos.node) /\ ~Blocked /\ ~Alternatives(pos.node) /\ Into
    /\ LET step == Resolve(pos.node, path[pos.at + 1]) IN
        IF Guaranteed(pos.node, step)
        THEN /\ located' = Append(located, step)
             /\ MoveTo(At(Child(pos.node, step), pos.depth, pos.at + 1))
        ELSE Refuse
    /\ UNCHANGED <<doc, path, outcome>>

WalkAccepts ==
    /\ Walking /\ ~Composed(pos.node) /\ ~Alternatives(pos.node) /\ ~Into
    /\ phase' = "ready"
    /\ UNCHANGED <<doc, path, pos, located, outcome, trail>>

Walk == WalkRef \/ WalkLiteral \/ WalkAllOf \/ WalkAlternatives \/ WalkStep \/ WalkAccepts

-----------------------------------------------------------------------------
(* Value: each record from the root again, along the located path.           *)

Generating == phase = "record"
End(result) ==
    /\ outcome' = result
    /\ phase' = IF result = "present" THEN "ready" ELSE "failed"
    /\ UNCHANGED <<pos>>
Continue(position) == pos' = position /\ UNCHANGED <<phase, outcome>>
Unchanged == UNCHANGED <<doc, path, located, trail>>

\* An absent node is swallowed by the object or array around it, if any.
Truncated == IF pos.at = 0 THEN "absent" ELSE "missed"

NextRecord ==
    /\ phase = "ready"
    /\ phase' = "record" /\ pos' = Origin /\ outcome' = None
    /\ Unchanged

\* null is a value, so it may stand at the end of the path but holds no step.
AtEnd == pos.at = Len(located)
Scalar == IF AtEnd THEN "present" ELSE "missed"

GenRef ==
    /\ Generating /\ Declares(pos.node, "$ref")
    /\ \/ ~Defined(doc.defs, pos.node) /\ End("error")
       \/ /\ Defined(doc.defs, pos.node) /\ pos.depth >= MaxRecursionDepth
          /\ End(IF "null" \in Types(Target(doc.defs, pos.node)) THEN Scalar ELSE Truncated)
       \/ /\ Defined(doc.defs, pos.node) /\ pos.depth < MaxRecursionDepth
          /\ Continue(At(Target(doc.defs, pos.node), pos.depth + 1, pos.at))
    /\ Unchanged

\* A literal need not hold the rest of the path.
GenLiteral ==
    /\ Generating /\ ~Declares(pos.node, "$ref") /\ IsLiteral(pos.node)
    /\ End("present") \/ (~AtEnd /\ End("missed"))
    /\ Unchanged

Built == Generating /\ ~Declares(pos.node, "$ref") /\ ~IsLiteral(pos.node)

GenAllOf ==
    /\ Built /\ Declares(pos.node, "allOf")
    /\ IF Merged(pos.node["allOf"]) = None
       THEN End("error")
       ELSE Continue(At(Merged(pos.node["allOf"]), pos.depth, pos.at))
    /\ Unchanged

\* A branch is picked anew for every record; oneOf goes before anyOf, and an
\* empty list of branches is passed over.
Branches(s) == IF Value(s, "oneOf", <<>>) # <<>> THEN s["oneOf"] ELSE Value(s, "anyOf", <<>>)

GenAlternative ==
    /\ Built /\ ~Declares(pos.node, "allOf")
    /\ \E i \in 1..Len(Branches(pos.node)) :
            Continue(At(Branches(pos.node)[i], pos.depth, pos.at))
    /\ Unchanged

Typed == Built /\ ~Declares(pos.node, "allOf") /\ Branches(pos.node) = <<>>

GenUntyped == Typed /\ Types(pos.node) = {} /\ End("error") /\ Unchanged

GenEnd == Typed /\ AtEnd /\ Types(pos.node) # {} /\ End("present") /\ Unchanged

\* object: a required property always, another one by chance.
GenProperty ==
    /\ Typed /\ ~AtEnd
    /\ \E type \in Types(pos.node), step \in {located[pos.at + 1]} :
        LET declared == /\ type = "object" /\ step.index < 0
                        /\ step.field \in DOMAIN Value(pos.node, "properties", <<>>)
        IN \/ declared /\ Continue(At(Child(pos.node, step), pos.depth, pos.at + 1))
           \/ /\ step.index < 0
              /\ ~declared \/ step.field \notin Value(pos.node, "required", {})
              /\ End("missed")
    /\ Unchanged

\* array: the count is drawn from minItems to maxItems, and is minItems when
\* they cross, so it may always be minItems.
MayHold(s, i) == i < Value(s, "minItems", 1) \/ i < Value(s, "maxItems", 5)
AlwaysHolds(s, i) == i < Value(s, "minItems", 1)

GenItem ==
    /\ Typed /\ ~AtEnd
    /\ \E type \in Types(pos.node), step \in {located[pos.at + 1]} :
        LET filled == type = "array" /\ step.index >= 0 /\ Declares(pos.node, "items")
        IN \/ /\ filled /\ MayHold(pos.node, step.index)
              /\ Continue(At(Child(pos.node, step), pos.depth, pos.at + 1))
           \/ /\ step.index >= 0
              /\ filled => ~AlwaysHolds(pos.node, step.index)
              /\ End("missed")
    /\ Unchanged

Record ==
    GenRef \/ GenLiteral \/ GenAllOf \/ GenAlternative \/ GenUntyped \/ GenEnd
        \/ GenProperty \/ GenItem

-----------------------------------------------------------------------------
(* A run either plants along a path, or plants nothing and is not walked.     *)

Init ==
    /\ doc \in Documents
    /\ path \in Paths \union {<<>>}
    /\ phase = IF path = <<>> THEN "ready" ELSE "walk"
    /\ pos = Origin
    /\ located = <<>>
    /\ outcome = None
    /\ trail = {Origin}

Next == Walk \/ NextRecord \/ Record

Spec == Init /\ [][Next]_vars

\* One goroutine walks, then generates; nothing in either waits.
FairSpec == Spec /\ WF_vars(Walk) /\ WF_vars(Record)

-----------------------------------------------------------------------------
(* TypeOK: the budget bounds every reading, and a resolved path has no token: *)
(* Overlap (path.go:128) compares steps whole, so one left would hide a clash.*)
TypeOK ==
    /\ phase \in Phases
    /\ outcome \in Outcomes
    /\ pos.depth \in 0..MaxRecursionDepth
    /\ pos.at \in 0..Len(path)
    /\ Len(located) <= Len(path)
    /\ \A i \in 1..Len(located) : ~located[i].token

(* A path Locate accepted is there in every record: no draw, truncation,      *)
(* literal or merge on the way leaves the place out or stops the record,      *)
(* which planting.go:213 would report as a defect. Only a place of no type at *)
(* all, which Locate lets pass, stops it.                                     *)
AcceptedAlwaysThere ==
    path # <<>> => \/ outcome \in {"present", None}
                   \/ outcome = "error" /\ Types(pos.node) = {}

(* The budget and the schemas' own structure end every walk and every record, *)
(* however the $refs run in circles.                                          *)
ReadingsEnd == (Walking ~> ~Walking) /\ (Generating ~> ~Generating)
=============================================================================
