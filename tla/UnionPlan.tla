----------------------------- MODULE UnionPlan -----------------------------
(***************************************************************************)
(* How several Avro Message types register as a union: planUnion of        *)
(* internal/wire/avrowire/union.go.                                        *)
(*                                                                         *)
(* An avsc is abstracted to the named types it defines and, for each, the  *)
(* named types its fields refer to, in order, through arrays, maps and     *)
(* unions.  A composition is a record                                      *)
(*   roots      the Message types' payload records, in order,              *)
(*   refs       the references of each type,                               *)
(*   differing  the types their Message types would define differently.    *)
(* A Message type defines what its root reaches: each avsc is parsed on    *)
(* its own first, which refuses a name it does not define.                 *)
(*                                                                         *)
(* The recursive calls are steps.  `path' is the call stack of visit;      *)
(* `rest' has, below it, the branches left and, for each type on the path, *)
(* the dependencies left.  The inner recursion over a type's fields keeps  *)
(* the references still to follow in `todo'.                               *)
(***************************************************************************)
EXTENDS NamedTypes, Integers, SequencesExt

CONSTANT Compositions   \* the Message types considered

Composition == [roots : Seq(Names) \ {<<>>}, refs : [Names -> Seq(Names)],
                differing : SUBSET Names]

ASSUME CompositionAssumption == Compositions \subseteq Composition

VARIABLES
  composition,
  stage,     \* "compose", "order", "look", "render", "planned" or "refused"
  refusal,   \* why it is refused, or "no"
  at,        \* the Message type to compose, or the subject to render
  defined,   \* definedBy: the Message types found to define each type
  path,      \* the types being visited, each a dependency of the one before
  rest,      \* what visits are left: see above
  order,     \* the types that are done, in registration order
  todo,      \* of a type looked at or rendered: references still to follow,
  seen,      \*   the types met, those rendered inline,
  found,     \*   and the registered types it refers to
  subjects   \* what is planned so far: [name, refs, inline]

ordering  == <<path, rest, order>>
traversal == <<todo, seen, found>>
planVars  == <<composition, stage, refusal, at, defined, ordering, traversal, subjects>>

-----------------------------------------------------------------------------
StepsOf(c) == [t \in Names |-> RangeOf(c.refs[t])]

(* shallow and define: the types an avsc defines.                          *)
Defines(c, i) == Reached(StepsOf(c), {c.roots[i]})

(* The types that become subjects: the branches and what is shared.        *)
Registered ==
  RangeOf(composition.roots)
    \cup {t \in Names : \E i, j \in defined[t] : i # j}

PlanInit ==
  /\ composition \in Compositions
  /\ stage = "compose"
  /\ refusal = "no"
  /\ at = 1
  /\ defined = [t \in Names |-> {}]
  /\ path = <<>> /\ rest = <<composition.roots>> /\ order = <<>>
  /\ todo = <<>> /\ seen = {} /\ found = <<>>
  /\ subjects = <<>>

Refuse(why) ==
  /\ stage' = "refused"
  /\ refusal' = why
  /\ UNCHANGED <<composition, at, defined, ordering, traversal, subjects>>

Differs == \E t \in Defines(composition, at) \cap composition.differing : defined[t] # {}

Twice == \E i \in 1..(at - 1) : composition.roots[i] = composition.roots[at]

(* One Message type joins the composition.                                 *)
Compose ==
  /\ stage = "compose" /\ ~Differs /\ ~Twice
  /\ defined' = [t \in Names |-> IF t \in Defines(composition, at)
                                 THEN defined[t] \cup {at} ELSE defined[t]]
  /\ at' = at + 1
  /\ stage' = IF at = Len(composition.roots) THEN "order" ELSE "compose"
  /\ UNCHANGED <<composition, refusal, ordering, traversal, subjects>>

RefuseToCompose ==
  /\ stage = "compose"
  /\ \/ Differs /\ Refuse("defined differently")
     \/ ~Differs /\ Twice /\ Refuse("one record twice")

-----------------------------------------------------------------------------
(* A traversal of the references of name begins, to look for its           *)
(* dependencies or to render it.                                           *)
Begin(name) ==
  /\ todo' = composition.refs[name]
  /\ seen' = {name}
  /\ found' = <<>>

Left == rest[Len(rest)]

ToVisit(name) == stage = "order" /\ Left # <<>> /\ name = Head(Left)

Dropped == [rest EXCEPT ![Len(rest)] = Tail(@)]

(* order: depth first, each type after those it depends on.                *)
Skip ==
  \E name \in RangeOf(order) :
    /\ ToVisit(name)
    /\ rest' = Dropped
    /\ UNCHANGED <<composition, stage, refusal, at, defined, path, order, traversal, subjects>>

Enter ==
  \E name \in Names \ (RangeOf(order) \cup RangeOf(path)) :
    /\ ToVisit(name)
    /\ path' = Append(path, name)
    /\ rest' = Dropped
    /\ stage' = "look"
    /\ Begin(name)
    /\ UNCHANGED <<composition, refusal, at, defined, order, subjects>>

(* A type met while it is being visited closes a cycle.                    *)
CloseCycleUnnoticed ==
  \E name \in RangeOf(path) :
    /\ ToVisit(name)
    /\ rest' = Dropped
    /\ UNCHANGED <<composition, stage, refusal, at, defined, path, order, traversal, subjects>>

CloseCycle == \E name \in RangeOf(path) : ToVisit(name) /\ Refuse("cycle")

Leave ==
  /\ stage = "order" /\ Left = <<>> /\ path # <<>>
  /\ order' = Append(order, Last(path))
  /\ path' = Front(path)
  /\ rest' = Front(rest)
  /\ UNCHANGED <<composition, stage, refusal, at, defined, traversal, subjects>>

(* dependencies: the registered types that a type refers to, looking       *)
(* through the types that stay inline in it.                               *)
LookDirect ==
  /\ stage = "look" /\ todo # <<>>
  /\ LET t == Head(todo) IN
     /\ seen' = seen \cup {t}
     /\ found' = IF t \in Registered \ seen THEN Append(found, t) ELSE found
     /\ todo' = Tail(todo)
  /\ UNCHANGED <<composition, stage, refusal, at, defined, ordering, subjects>>

Look ==
  /\ stage = "look" /\ todo # <<>>
  /\ LET t == Head(todo) IN
     /\ seen' = seen \cup {t}
     /\ found' = IF t \in Registered \ seen THEN Append(found, t) ELSE found
     /\ todo' = IF t \in Registered \cup seen THEN Tail(todo)
                ELSE composition.refs[t] \o Tail(todo)
  /\ UNCHANGED <<composition, stage, refusal, at, defined, ordering, subjects>>

Looked ==
  /\ stage = "look" /\ todo = <<>>
  /\ stage' = "order"
  /\ rest' = Append(rest, found)
  /\ UNCHANGED <<composition, refusal, at, defined, path, order, traversal, subjects>>

-----------------------------------------------------------------------------
(* Each type in order is rendered as a subject.                            *)
Ordered ==
  /\ stage = "order" /\ Left = <<>> /\ path = <<>>
  /\ stage' = "render"
  /\ at' = 1
  /\ Begin(order[1])
  /\ UNCHANGED <<composition, refusal, defined, ordering, subjects>>

(* renderer: the inline types are defined in the subject and the           *)
(* registered ones named and recorded as references.                       *)
RefWithSelf ==
  /\ stage = "render" /\ todo # <<>>
  /\ LET t == Head(todo)
         other == t \in Registered
     IN /\ seen' = IF other THEN seen ELSE seen \cup {t}
        /\ found' = IF other /\ t \notin RangeOf(found) THEN Append(found, t) ELSE found
        /\ todo' = IF other \/ t \in seen THEN Tail(todo)
                   ELSE composition.refs[t] \o Tail(todo)
  /\ UNCHANGED <<composition, stage, refusal, at, defined, ordering, subjects>>

Ref ==
  /\ stage = "render" /\ todo # <<>>
  /\ LET t == Head(todo)
         other == t # order[at] /\ t \in Registered
     IN /\ seen' = IF other THEN seen ELSE seen \cup {t}
        /\ found' = IF other /\ t \notin RangeOf(found) THEN Append(found, t) ELSE found
        /\ todo' = IF other \/ t \in seen THEN Tail(todo)
                   ELSE composition.refs[t] \o Tail(todo)
  /\ UNCHANGED <<composition, stage, refusal, at, defined, ordering, subjects>>

Rendered ==
  /\ stage = "render" /\ todo = <<>>
  /\ subjects' = Append(subjects, [name |-> order[at], refs |-> found, inline |-> seen])
  /\ IF at = Len(order)
     THEN stage' = "planned" /\ UNCHANGED <<at, traversal>>
     ELSE at' = at + 1 /\ Begin(order[at']) /\ UNCHANGED stage
  /\ UNCHANGED <<composition, refusal, defined, ordering>>

PlanNext ==
  \/ Compose \/ RefuseToCompose
  \/ Skip \/ Enter \/ CloseCycle \/ Leave
  \/ Look \/ Looked
  \/ Ordered \/ Ref \/ Rendered

PlanSpec == PlanInit /\ [][PlanNext]_planVars

-----------------------------------------------------------------------------
(* What name's schema must have at hand from other subjects: the           *)
(* registered types reached from it through inline types only, whatever    *)
(* the order of a traversal.                                               *)
InlineSteps(name) ==
  LET others == Registered \ {name}
  IN [t \in Names |-> IF t \in others THEN {} ELSE RangeOf(composition.refs[t])]

Needs(name) == (Reached(InlineSteps(name), {name}) \cap Registered) \ {name}

(* Every subject registers once, after all the subjects its schema needs,  *)
(* and nothing is left out: all that is shared is reached from a branch.   *)
OrderedByNeed ==
  stage = "planned" =>
    /\ IsInjective(order)
    /\ RangeOf(order) = Registered
    /\ \A i \in DOMAIN order : Needs(order[i]) \subseteq {order[j] : j \in 1..(i - 1)}

(* A composition is refused for a cycle exactly when some registered types *)
(* need each other; recursion inside one subject is no cycle.              *)
NeedsRelation == UNION {{<<t, u>> : u \in Needs(t)} : t \in Registered}

NeedEachOther ==
  LET needs == NeedsRelation
  IN \E S \in SUBSET Registered :
       S # {} /\ \A t \in S : \E u \in S : <<t, u>> \in needs

CycleRefusedExactly ==
  /\ stage = "planned" => ~NeedEachOther
  /\ stage = "refused" /\ refusal = "cycle" => NeedEachOther

(* The references a subject registers with are what its schema needs: the  *)
(* two traversals, one for the order and one for the rendering, agree; and *)
(* what it holds inline belongs to one Message type alone.                 *)
ReferencesExact ==
  stage = "planned" =>
    /\ Len(subjects) = Len(order)
    /\ \A i \in DOMAIN subjects :
         LET name == order[i] IN
         /\ subjects[i].name = name
         /\ RangeOf(subjects[i].refs) = Needs(name)
         /\ subjects[i].inline \cap Registered = {name}
=============================================================================
