-------------------------- MODULE Guarantee_proofs --------------------------
(* What a walk accepts, generation delivers: the positions the walk went      *)
(* through form a chain from the root to an accepted end, and each step of a  *)
(* record moves along it.                                                     *)
EXTENDS Guarantee, KeywordMerge, TLAPS

\* From p generation has no choice but q.
RefLeads(p, q) ==
    /\ Declares(p.node, "$ref") /\ Defined(doc.defs, p.node) /\ p.depth < MaxRecursionDepth
    /\ q = At(Target(doc.defs, p.node), p.depth + 1, p.at)

InTheOpen(p) == ~Declares(p.node, "$ref") /\ (p.at < Len(path) => ~IsLiteral(p.node))

AllOfLeads(p, q) ==
    /\ InTheOpen(p) /\ Declares(p.node, "allOf") /\ Merged(p.node["allOf"]) # None
    /\ q = At(Merged(p.node["allOf"]), p.depth, p.at)

StepLeads(p, q) ==
    /\ InTheOpen(p) /\ ~Composed(p.node) /\ ~Alternatives(p.node)
    /\ p.at \in Nat /\ p.at < Len(located) /\ p.at < Len(path)
    /\ Guaranteed(p.node, located[p.at + 1])
    /\ q = At(Child(p.node, located[p.at + 1]), p.depth, p.at + 1)

Leads(p, q) == RefLeads(p, q) \/ AllOfLeads(p, q) \/ StepLeads(p, q)

\* Where a walk accepts.
Final(p) == ~Composed(p.node) /\ ~Alternatives(p.node) /\ p.at = Len(path)

-----------------------------------------------------------------------------
ShapeInv ==
    /\ path \in Seq(Steps)
    /\ located \in Seq(Steps)
    /\ \A i \in 1..Len(located) : ~located[i].token
    /\ phase \in Phases
    /\ outcome \in Outcomes
    /\ pos = At(pos.node, pos.depth, pos.at)
    /\ pos.depth \in 0..MaxRecursionDepth
    /\ pos.at \in 0..Len(path)
    /\ Len(located) <= Len(path)

\* The chain: every position but the one being read leads to another.
TrailInv ==
    /\ Origin \in trail
    /\ phase = "walk" =>
        /\ pos \in trail /\ pos.at = Len(located)
        /\ \A p \in trail \ {pos} : \E q \in trail : Leads(p, q)
    /\ phase \in {"ready", "record", "failed"} /\ path # <<>> =>
        /\ Len(located) = Len(path)
        /\ \A p \in trail : Final(p) \/ \E q \in trail : Leads(p, q)

RecordInv ==
    /\ phase = "walk" => path # <<>>
    /\ phase = "record" /\ path # <<>> => pos \in trail
    /\ phase \in {"walk", "refused", "record"} => outcome = None
    /\ path = <<>> => located = <<>>
    /\ AcceptedAlwaysThere

GuaranteeInv == ShapeInv /\ TrailInv /\ RecordInv

-----------------------------------------------------------------------------
\* A resolved step is a step, and no token.
LEMMA Resolved ==
    ASSUME NEW s, NEW step \in Steps
    PROVE  Resolve(s, step) \in Steps /\ ~Resolve(s, step).token
  <1>1. CASE ~step.token  BY <1>1 DEF Resolve, Steps
  <1>2. CASE step.token /\ step.field \in DOMAIN IndexOf /\ "array" \in Types(s)
    <2>1. Resolve(s, step) = Index(IndexOf[step.field])  BY <1>2 DEF Resolve
    <2>2. IndexOf[step.field] \in Nat  BY <1>2, IndexAssumption
    <2>3. Index(IndexOf[step.field]) \in Steps  BY <2>2 DEF Index, Steps
    <2>4. ~Index(IndexOf[step.field]).token  BY DEF Index
    <2> QED  BY <2>1, <2>3, <2>4
  <1>3. CASE step.token /\ ~(step.field \in DOMAIN IndexOf /\ "array" \in Types(s))
    <2>1. Resolve(s, step) = Field(step.field)  BY <1>3 DEF Resolve
    <2> QED  BY <2>1 DEF Field, Steps
  <1> QED  BY <1>1, <1>2, <1>3

THEOREM GuaranteeStart == Init => GuaranteeInv
  <1> SUFFICES ASSUME Init PROVE GuaranteeInv
    OBVIOUS
  <1> USE DEF Init
  <1>1. path \in Seq(Steps)
    <2>1. CASE path = <<>>  BY <2>1
    <2>2. CASE path \in Paths  BY <2>2, PathAssumption
    <2> QED  BY <2>1, <2>2
  <1>2. Len(path) \in Nat  BY <1>1
  <1>3. ShapeInv
    BY <1>1, <1>2, BudgetAssumption DEF ShapeInv, Phases, Outcomes, At, Origin
  <1>4. TrailInv  BY <1>1, <1>2 DEF TrailInv, Origin, At
  <1>5. RecordInv  BY DEF RecordInv, AcceptedAlwaysThere
  <1> QED  BY <1>3, <1>4, <1>5 DEF GuaranteeInv

-----------------------------------------------------------------------------
\* What the walk found stays found while it goes on.
LEMMA LeadsOn ==
    ASSUME ShapeInv, UNCHANGED <<doc, path>>, NEW p, NEW q, Leads(p, q),
           \/ located' = located
           \/ \E step \in Steps : located' = Append(located, step)
    PROVE  Leads(p, q)'
  <1>1. CASE RefLeads(p, q)  BY <1>1 DEF RefLeads, Leads
  <1>2. CASE AllOfLeads(p, q)  BY <1>2 DEF AllOfLeads, Leads, InTheOpen
  <1>3. CASE StepLeads(p, q)
    <2>1. p.at < Len(located)' /\ located'[p.at + 1] = located[p.at + 1]
      <3>1. p.at \in Nat /\ p.at + 1 \in 1..Len(located) /\ located \in Seq(Steps)
        BY <1>3 DEF StepLeads, ShapeInv
      <3>2. CASE located' = located  BY <3>1, <3>2
      <3>3. CASE \E step \in Steps : located' = Append(located, step)
        BY <3>1, <3>3
      <3> QED  BY <3>2, <3>3
    <2> QED  BY <1>3, <2>1 DEF StepLeads, Leads, InTheOpen
  <1> QED  BY <1>1, <1>2, <1>3 DEF Leads

\* A position moved to by the walk joins the chain.
LEMMA Extends ==
    ASSUME GuaranteeInv, phase = "walk", NEW o, o = pos, NEW q, MoveTo(q), UNCHANGED <<doc, path, outcome>>,
           q = At(q.node, q.depth, q.at), q.depth \in 0..MaxRecursionDepth, q.at \in 0..Len(path),
           \/ located' = located
           \/ \E step \in Steps : located' = Append(located, step) /\ ~step.token,
           q.at = Len(located'), Leads(o, q)'
    PROVE  GuaranteeInv'
  <1>1. located' \in Seq(Steps) /\ \A i \in 1..Len(located)' : ~located'[i].token
    <2>1. CASE located' = located  BY <2>1 DEF GuaranteeInv, ShapeInv
    <2>2. CASE \E step \in Steps : located' = Append(located, step) /\ ~step.token
      <3>1. PICK step \in Steps : located' = Append(located, step) /\ ~step.token
        BY <2>2
      <3>2. located \in Seq(Steps) /\ \A i \in 1..Len(located) : ~located[i].token
        BY DEF GuaranteeInv, ShapeInv
      <3> QED  BY <3>1, <3>2
    <2> QED  BY <2>1, <2>2
  <1>2. ShapeInv'
    <2>1. Len(located)' <= Len(path)' /\ pos' = q /\ phase' = phase
      BY <1>1 DEF GuaranteeInv, ShapeInv, MoveTo
    <2> QED  BY <1>1, <2>1 DEF GuaranteeInv, ShapeInv
  <1>3. ASSUME NEW p \in trail' \ {pos'} PROVE \E r \in trail' : Leads(p, r)'
    <2>1. trail' = trail \union {q} /\ pos' = q  BY DEF MoveTo
    <2>2. CASE p = pos  BY <2>1, <2>2
    <2>3. CASE p # pos
      <3>1. PICK r \in trail : Leads(p, r)
        BY <1>3, <2>1, <2>3 DEF GuaranteeInv, TrailInv
      <3>2. Leads(p, r)'
        BY <3>1, <1>1, LeadsOn DEF GuaranteeInv
      <3> QED  BY <2>1, <3>1, <3>2
    <2> QED  BY <2>2, <2>3
  <1>4. TrailInv'
    <2>1. Origin' = Origin /\ Origin \in trail'
      BY DEF GuaranteeInv, TrailInv, MoveTo, Origin
    <2>2. pos' \in trail' /\ phase' = "walk" /\ pos'.at = Len(located)'
      BY DEF MoveTo
    <2> QED  BY <1>3, <2>1, <2>2 DEF TrailInv
  <1>5. RecordInv'
    BY DEF GuaranteeInv, RecordInv, AcceptedAlwaysThere, MoveTo
  <1> QED  BY <1>2, <1>4, <1>5 DEF GuaranteeInv

\* A refusal leaves no record to be generated.
LEMMA Refuses ==
    ASSUME GuaranteeInv, phase = "walk", Refuse, UNCHANGED <<doc, path, outcome>>
    PROVE  GuaranteeInv'
  <1>1. ShapeInv'  BY DEF GuaranteeInv, ShapeInv, Refuse, Phases
  <1>2. TrailInv'  BY DEF GuaranteeInv, TrailInv, Refuse, Origin
  <1>3. RecordInv'  BY DEF GuaranteeInv, RecordInv, AcceptedAlwaysThere, Refuse
  <1> QED  BY <1>1, <1>2, <1>3 DEF GuaranteeInv

LEMMA WalkKeeps == ASSUME GuaranteeInv, Walk PROVE GuaranteeInv'
  <1> USE DEF Walking
  <1>1. /\ pos = At(pos.node, pos.depth, pos.at) /\ pos.depth \in 0..MaxRecursionDepth
        /\ pos.at \in 0..Len(path) /\ path \in Seq(Steps) /\ located \in Seq(Steps)
        /\ phase = "walk" => pos.at = Len(located)
    BY DEF GuaranteeInv, ShapeInv, TrailInv
  <1>2. CASE WalkRef
    <2>1. CASE Defined(doc.defs, pos.node) /\ pos.depth < MaxRecursionDepth
      <3>0. PICK q, o : q = At(Target(doc.defs, pos.node), pos.depth + 1, pos.at) /\ o = pos
        OBVIOUS
      <3>1. MoveTo(q) /\ located' = located /\ phase = "walk" /\ UNCHANGED <<doc, path, outcome>>
        BY <3>0, <1>2, <2>1 DEF WalkRef
      <3>2. q = At(q.node, q.depth, q.at) /\ q.depth \in 0..MaxRecursionDepth /\ q.at \in 0..Len(path)
        BY <3>0, <1>1, <2>1, BudgetAssumption DEF At
      <3>3. q.at = Len(located')  BY <3>0, <1>1, <3>1 DEF At
      <3>4. Leads(o, q)'
        BY <3>0, <1>2, <2>1, <3>1 DEF WalkRef, Leads, RefLeads
      <3> QED  BY <3>0, <3>1, <3>2, <3>3, <3>4, Extends
    <2>2. CASE ~(Defined(doc.defs, pos.node) /\ pos.depth < MaxRecursionDepth)
      BY <1>2, <2>2, Refuses DEF WalkRef
    <2> QED  BY <2>1, <2>2
  <1>3. CASE WalkLiteral  BY <1>3, Refuses DEF WalkLiteral
  <1>4. CASE WalkAllOf
    <2>1. CASE Merged(pos.node["allOf"]) # None
      <3>0. PICK q, o : q = At(Merged(pos.node["allOf"]), pos.depth, pos.at) /\ o = pos
        OBVIOUS
      <3>1. MoveTo(q) /\ located' = located /\ phase = "walk" /\ UNCHANGED <<doc, path, outcome>>
        BY <3>0, <1>4, <2>1 DEF WalkAllOf
      <3>2. q = At(q.node, q.depth, q.at) /\ q.depth \in 0..MaxRecursionDepth /\ q.at \in 0..Len(path)
        BY <3>0, <1>1 DEF At
      <3>3. q.at = Len(located')  BY <3>0, <1>1, <3>1 DEF At
      <3>4. Leads(o, q)'
        BY <3>0, <1>4, <2>1, <3>1 DEF WalkAllOf, Leads, AllOfLeads, InTheOpen, Blocked, Into
      <3> QED  BY <3>0, <3>1, <3>2, <3>3, <3>4, Extends
    <2>2. CASE Merged(pos.node["allOf"]) = None
      BY <1>4, <2>2, Refuses DEF WalkAllOf
    <2> QED  BY <2>1, <2>2
  <1>5. CASE WalkAlternatives  BY <1>5, Refuses DEF WalkAlternatives
  <1>6. CASE WalkStep
    <2> DEFINE step == Resolve(pos.node, path[pos.at + 1])
    <2>1. path[pos.at + 1] \in Steps /\ pos.at + 1 \in 1..Len(path)
      BY <1>1, <1>6 DEF WalkStep, Into
    <2>2. step \in Steps /\ ~step.token  BY <2>1, Resolved
    <2>3. CASE Guaranteed(pos.node, step)
      <3>0. PICK q, o : q = At(Child(pos.node, step), pos.depth, pos.at + 1) /\ o = pos
        OBVIOUS
      <3>1. /\ MoveTo(q) /\ located' = Append(located, step) /\ phase = "walk"
            /\ UNCHANGED <<doc, path, outcome>>
        BY <3>0, <1>6, <2>3 DEF WalkStep
      <3>2. q = At(q.node, q.depth, q.at) /\ q.depth \in 0..MaxRecursionDepth /\ q.at \in 0..Len(path)
        BY <3>0, <1>1, <2>1 DEF At
      <3> HIDE DEF step
      <3>3. q.at = Len(located')  BY <3>0, <1>1, <2>2, <3>1 DEF At
      <3>4. Len(located') = pos.at + 1 /\ located'[pos.at + 1] = step
        BY <3>0, <1>1, <2>2, <3>1
      <3>5. Leads(o, q)'
        BY <3>0, <1>1, <1>6, <2>1, <2>3, <3>1, <3>4
           DEF WalkStep, Leads, StepLeads, InTheOpen, Blocked, Into, Composed
      <3> QED  BY <2>2, <3>0, <3>1, <3>2, <3>3, <3>5, Extends
    <2>4. CASE ~Guaranteed(pos.node, step)
      BY <1>6, <2>4, Refuses DEF WalkStep
    <2> QED  BY <2>3, <2>4
  <1>7. CASE WalkAccepts
    <2>1. Final(pos) /\ Len(located) = Len(path)
      BY <1>1, <1>7 DEF WalkAccepts, Final, Into
    <2>2. ShapeInv'  BY <1>7 DEF WalkAccepts, GuaranteeInv, ShapeInv, Phases
    <2>3. TrailInv'
      BY <1>7, <2>1 DEF WalkAccepts, GuaranteeInv, TrailInv, Origin, Final,
                        Leads, RefLeads, AllOfLeads, StepLeads, InTheOpen
    <2>4. RecordInv'  BY <1>7 DEF WalkAccepts, GuaranteeInv, RecordInv, AcceptedAlwaysThere
    <2> QED  BY <2>2, <2>3, <2>4 DEF GuaranteeInv
  <1> QED  BY <1>2, <1>3, <1>4, <1>5, <1>6, <1>7 DEF Walk

-----------------------------------------------------------------------------
LEMMA NextRecordKeeps == ASSUME GuaranteeInv, NextRecord PROVE GuaranteeInv'
  <1> USE DEF NextRecord, Unchanged
  <1>1. ShapeInv'
    BY BudgetAssumption DEF GuaranteeInv, ShapeInv, Phases, Outcomes, Origin, At
  <1>2. TrailInv'
    BY DEF GuaranteeInv, TrailInv, Origin, Final, Leads, RefLeads, AllOfLeads, StepLeads, InTheOpen
  <1>3. RecordInv'
    BY DEF GuaranteeInv, TrailInv, RecordInv, AcceptedAlwaysThere, Origin
  <1> QED  BY <1>1, <1>2, <1>3 DEF GuaranteeInv

\* A record that goes on along the chain, or of which nothing is asked.
LEMMA Continues ==
    ASSUME GuaranteeInv, phase = "record", NEW q, Continue(q), Unchanged,
           q = At(q.node, q.depth, q.at), q.depth \in 0..MaxRecursionDepth, q.at \in 0..Len(path),
           path # <<>> => q \in trail
    PROVE  GuaranteeInv'
  <1> USE DEF Continue, Unchanged
  <1>1. ShapeInv'  BY DEF GuaranteeInv, ShapeInv
  <1>2. TrailInv'
    BY DEF GuaranteeInv, TrailInv, Origin, Final, Leads, RefLeads, AllOfLeads, StepLeads, InTheOpen
  <1>3. RecordInv'  BY DEF GuaranteeInv, RecordInv, AcceptedAlwaysThere
  <1> QED  BY <1>1, <1>2, <1>3 DEF GuaranteeInv

LEMMA Ends ==
    ASSUME GuaranteeInv, phase = "record", NEW result \in Outcomes, End(result), Unchanged,
           path # <<>> => \/ result = "present"
                          \/ result = "error" /\ Types(pos.node) = {}
    PROVE  GuaranteeInv'
  <1> USE DEF End, Unchanged
  <1>1. ShapeInv'  BY DEF GuaranteeInv, ShapeInv, Phases
  <1>2. TrailInv'
    BY DEF GuaranteeInv, TrailInv, Origin, Final, Leads, RefLeads, AllOfLeads, StepLeads, InTheOpen
  <1>3. RecordInv'  BY DEF GuaranteeInv, RecordInv, AcceptedAlwaysThere
  <1> QED  BY <1>1, <1>2, <1>3 DEF GuaranteeInv

LEMMA RecordKeeps == ASSUME GuaranteeInv, Record PROVE GuaranteeInv'
  <1> USE DEF Generating, Built, Typed
  <1>1. /\ pos = At(pos.node, pos.depth, pos.at) /\ pos.depth \in 0..MaxRecursionDepth
        /\ pos.at \in 0..Len(path) /\ path \in Seq(Steps) /\ located \in Seq(Steps)
        /\ path = <<>> => located = <<>>
    BY DEF GuaranteeInv, ShapeInv, RecordInv
  <1>2. Outcomes = {"present", "missed", "absent", "error", None}
    BY DEF Outcomes
  \* Where the position stands on the chain.
  <1>3. ASSUME phase = "record", path # <<>>
        PROVE  /\ Len(located) = Len(path)
               /\ Final(pos) \/ \E q \in trail : Leads(pos, q)
    BY <1>3 DEF GuaranteeInv, TrailInv, RecordInv
  \* The chain read forwards: each kind of position has its own way on.
  <1>4. ASSUME phase = "record", path # <<>>, Declares(pos.node, "$ref")
        PROVE  \E q \in trail : RefLeads(pos, q)
    BY <1>3, <1>4 DEF Final, Composed, Leads, AllOfLeads, StepLeads, InTheOpen
  <1>5. ASSUME phase = "record", path # <<>>, ~Declares(pos.node, "$ref"), IsLiteral(pos.node)
        PROVE  pos.at = Len(located)
    <2>1. pos.at < Len(path) => FALSE
      BY <1>3, <1>5 DEF Final, Leads, RefLeads, AllOfLeads, StepLeads, InTheOpen
    <2> QED  BY <1>1, <1>3, <1>5, <2>1
  <1>6. ASSUME phase = "record", path # <<>>, ~Declares(pos.node, "$ref"),
               Declares(pos.node, "allOf")
        PROVE  \E q \in trail : AllOfLeads(pos, q)
    BY <1>3, <1>6 DEF Final, Composed, Leads, RefLeads, StepLeads
  <1>7. ASSUME phase = "record", path # <<>>, ~Composed(pos.node)
        PROVE  /\ ~Alternatives(pos.node)
               /\ pos.at # Len(located) => \E q \in trail : StepLeads(pos, q)
    BY <1>3, <1>7 DEF Final, Composed, Leads, RefLeads, AllOfLeads, StepLeads
  <1>8. path = <<>> => pos.at = Len(located)  BY <1>1
  <1>9. CASE GenRef
    <2>1. CASE pos.depth < MaxRecursionDepth /\ Defined(doc.defs, pos.node)
      <3>0. PICK q : q = At(Target(doc.defs, pos.node), pos.depth + 1, pos.at)
        OBVIOUS
      <3>1. Continue(q) /\ Unchanged /\ phase = "record" /\ Declares(pos.node, "$ref")
        BY <1>9, <2>1, <1>1, <3>0, BudgetAssumption DEF GenRef
      <3>2. q = At(q.node, q.depth, q.at) /\ q.depth \in 0..MaxRecursionDepth /\ q.at \in 0..Len(path)
        BY <1>1, <2>1, <3>0, BudgetAssumption DEF At
      <3>3. path # <<>> => q \in trail  BY <1>4, <3>0, <3>1 DEF RefLeads
      <3> QED  BY <3>1, <3>2, <3>3, Continues
    <2>2. CASE ~(pos.depth < MaxRecursionDepth /\ Defined(doc.defs, pos.node))
      <3>1. path = <<>>  BY <1>4, <1>9, <2>2 DEF GenRef, RefLeads
      <3>2. PICK result \in Outcomes : End(result)
        BY <1>1, <1>2, <1>9, <2>2, BudgetAssumption DEF GenRef, Scalar, Truncated
      <3> QED  BY <1>9, <3>1, <3>2, Ends DEF GenRef
    <2> QED  BY <2>1, <2>2
  <1>10. CASE GenLiteral
    <2>1. pos.at = Len(located)  BY <1>5, <1>8, <1>10 DEF GenLiteral
    <2>2. End("present") /\ Unchanged /\ phase = "record"
      BY <1>10, <2>1 DEF GenLiteral, AtEnd
    <2> QED  BY <1>2, <2>2, Ends
  <1>11. CASE GenAllOf
    <2>1. CASE Merged(pos.node["allOf"]) = None
      <3>1. path = <<>>  BY <1>6, <1>11, <2>1 DEF GenAllOf, AllOfLeads
      <3>2. End("error") /\ Unchanged /\ phase = "record"  BY <1>11, <2>1 DEF GenAllOf
      <3> QED  BY <1>2, <3>1, <3>2, Ends
    <2>2. CASE Merged(pos.node["allOf"]) # None
      <3>0. PICK q : q = At(Merged(pos.node["allOf"]), pos.depth, pos.at)
        OBVIOUS
      <3>1. Continue(q) /\ Unchanged /\ phase = "record"  BY <1>11, <2>2, <3>0 DEF GenAllOf
      <3>2. q = At(q.node, q.depth, q.at) /\ q.depth \in 0..MaxRecursionDepth /\ q.at \in 0..Len(path)
        BY <1>1, <3>0 DEF At
      <3>3. path # <<>> => q \in trail  BY <1>6, <1>11, <3>0 DEF GenAllOf, AllOfLeads
      <3> QED  BY <3>1, <3>2, <3>3, Continues
    <2> QED  BY <2>1, <2>2
  <1>12. CASE GenAlternative
    <2>1. PICK i \in 1..Len(Branches(pos.node)) :
            Continue(At(Branches(pos.node)[i], pos.depth, pos.at))
      BY <1>12 DEF GenAlternative
    <2>2. Branches(pos.node) # <<>>  BY <2>1
    <2>3. Alternatives(pos.node)  BY <2>2 DEF Branches, Value, Alternatives
    <2>4. path = <<>>  BY <1>7, <1>12, <2>3 DEF GenAlternative, Composed
    <2>5. PICK q : q = At(Branches(pos.node)[i], pos.depth, pos.at)
      OBVIOUS
    <2>6. q = At(q.node, q.depth, q.at) /\ q.depth \in 0..MaxRecursionDepth /\ q.at \in 0..Len(path)
      BY <1>1, <2>5 DEF At
    <2> QED  BY <1>12, <2>1, <2>4, <2>5, <2>6, Continues DEF GenAlternative
  <1>13. CASE GenUntyped  BY <1>2, <1>13, Ends DEF GenUntyped
  <1>14. CASE GenEnd  BY <1>2, <1>14, Ends DEF GenEnd
  <1>15. ASSUME phase = "record", ~Composed(pos.node), pos.at # Len(located)
         PROVE  /\ path # <<>>
                /\ Guaranteed(pos.node, located[pos.at + 1])
                /\ At(Child(pos.node, located[pos.at + 1]), pos.depth, pos.at + 1) \in trail
                /\ pos.at + 1 \in 0..Len(path)
                /\ located[pos.at + 1] \in Steps
    <2>1. path # <<>>  BY <1>8, <1>15
    <2>2. PICK q \in trail : StepLeads(pos, q)  BY <1>7, <1>15, <2>1
    <2>3. pos.at + 1 \in 1..Len(located)  BY <1>1, <2>2 DEF StepLeads
    <2> QED  BY <1>1, <2>1, <2>2, <2>3 DEF StepLeads
  <1>16. CASE GenProperty
    <2> DEFINE step == located[pos.at + 1]
               declared(type) == /\ type = "object" /\ step.index < 0
                                 /\ step.field \in DOMAIN Value(pos.node, "properties", <<>>)
    <2>1. PICK type \in Types(pos.node) :
            \/ declared(type) /\ Continue(At(Child(pos.node, step), pos.depth, pos.at + 1))
            \/ /\ step.index < 0
               /\ ~declared(type) \/ step.field \notin Value(pos.node, "required", {})
               /\ End("missed")
      BY <1>16 DEF GenProperty
    <2>2. phase = "record" /\ ~Composed(pos.node) /\ pos.at # Len(located) /\ Unchanged
      BY <1>16 DEF GenProperty, Composed, AtEnd
    <2>3. Guaranteed(pos.node, step) /\ step \in Steps  BY <1>15, <2>2
    <2>4. step.index < 0 => declared(type) /\ step.field \in Value(pos.node, "required", {})
      BY <2>1, <2>3 DEF Guaranteed, Steps
    <2>5. PICK q : q = At(Child(pos.node, step), pos.depth, pos.at + 1)
      OBVIOUS
    <2>6. Continue(q)  BY <2>1, <2>4, <2>5
    <2>7. q = At(q.node, q.depth, q.at) /\ q.depth \in 0..MaxRecursionDepth /\ q.at \in 0..Len(path)
      BY <1>1, <1>15, <2>2, <2>5 DEF At
    <2> QED  BY <1>15, <2>2, <2>5, <2>6, <2>7, Continues
  <1>17. CASE GenItem
    <2> DEFINE step == located[pos.at + 1]
               filled(type) == type = "array" /\ step.index >= 0 /\ Declares(pos.node, "items")
    <2>1. PICK type \in Types(pos.node) :
            \/ filled(type) /\ Continue(At(Child(pos.node, step), pos.depth, pos.at + 1))
            \/ /\ step.index >= 0
               /\ filled(type) => ~AlwaysHolds(pos.node, step.index)
               /\ End("missed")
      BY <1>17 DEF GenItem
    <2>2. phase = "record" /\ ~Composed(pos.node) /\ pos.at # Len(located) /\ Unchanged
      BY <1>17 DEF GenItem, Composed, AtEnd
    <2>3. Guaranteed(pos.node, step) /\ step \in Steps  BY <1>15, <2>2
    <2>4. step.index >= 0 => filled(type) /\ AlwaysHolds(pos.node, step.index)
      BY <2>1, <2>3 DEF Guaranteed, Steps, AlwaysHolds
    <2>5. PICK q : q = At(Child(pos.node, step), pos.depth, pos.at + 1)
      OBVIOUS
    <2>6. Continue(q)  BY <2>1, <2>4, <2>5
    <2>7. q = At(q.node, q.depth, q.at) /\ q.depth \in 0..MaxRecursionDepth /\ q.at \in 0..Len(path)
      BY <1>1, <1>15, <2>2, <2>5 DEF At
    <2> QED  BY <1>15, <2>2, <2>5, <2>6, <2>7, Continues
  <1> QED
    BY <1>9, <1>10, <1>11, <1>12, <1>13, <1>14, <1>16, <1>17 DEF Record
-----------------------------------------------------------------------------
THEOREM GuaranteeStep == ASSUME GuaranteeInv, [Next]_vars PROVE GuaranteeInv'
  <1>1. CASE Walk  BY <1>1, WalkKeeps
  <1>2. CASE NextRecord  BY <1>2, NextRecordKeeps
  <1>3. CASE Record  BY <1>3, RecordKeeps
  <1>4. CASE UNCHANGED vars
    <2>1. ShapeInv'  BY <1>4 DEF vars, GuaranteeInv, ShapeInv
    <2>2. TrailInv'
      BY <1>4 DEF vars, GuaranteeInv, TrailInv, Origin, Final, Leads, RefLeads, AllOfLeads,
                  StepLeads, InTheOpen
    <2>3. RecordInv'  BY <1>4 DEF vars, GuaranteeInv, RecordInv, AcceptedAlwaysThere
    <2> QED  BY <2>1, <2>2, <2>3 DEF GuaranteeInv
  <1> QED  BY <1>1, <1>2, <1>3, <1>4 DEF Next

THEOREM GuaranteeCorrect == Spec => []GuaranteeInv
  BY GuaranteeStart, GuaranteeStep, PTL DEF Spec

\* The budget bounds both readings of every schema, for every budget.
THEOREM GuaranteeTypeCorrect == Spec => []TypeOK
  <1>1. GuaranteeInv => TypeOK  BY DEF GuaranteeInv, ShapeInv, TypeOK
  <1> QED  BY <1>1, GuaranteeCorrect, PTL

\* An accepted path is there in every record, for all schemas, any merge of
\* branches, every path and every budget.
THEOREM AcceptedIsThere == Spec => []AcceptedAlwaysThere
  <1>1. GuaranteeInv => AcceptedAlwaysThere  BY DEF GuaranteeInv, RecordInv
  <1> QED  BY <1>1, GuaranteeCorrect, PTL

-----------------------------------------------------------------------------
(* The merge of an allOf, one level of it: whatever merges the schemas of a   *)
(* property and says which of its values they admit.                          *)
CONSTANTS MergePart(_, _), AdmitsPart(_, _)

MergedProperties(x, y) == MergeProperties(MergePart, x, y)
MergedKeywords(a, b) == MergeKeywords(MergePart, a, b)
Admitted(s, v) == AdmitsKeywords(AdmitsPart, s, v)

\* A schema as the merge sees it: bounds are numbers, a const is a value, and
\* nothing it declares is the error NoMerge.
WellFormed(s) ==
    /\ \A k \in DOMAIN s : s[k] # NoMerge
    /\ \A k \in Numeric : Declares(s, k) => s[k] \in Int
    /\ Declares(s, "const") => s["const"] = [kind |-> s["const"].kind, of |-> s["const"].of]
    /\ Declares(s, "properties") =>
         \A name \in DOMAIN s["properties"] : s["properties"][name] # NoMerge

\* m holds what mergeTwoSchemas makes of each keyword a or b declares, merged or
\* refused.
LevelOf(m, a, b) ==
    /\ MergedKeywords(a, b) = IF \E k \in DOMAIN m : m[k] = NoMerge THEN NoMerge ELSE m
    /\ m = [k \in DOMAIN m |-> m[k]]
    /\ DOMAIN m = DOMAIN a \union DOMAIN b
    /\ \A k \in DOMAIN a \ DOMAIN b : m[k] = a[k]
    /\ \A k \in DOMAIN b \ DOMAIN a : m[k] = b[k]
    /\ \A k \in DOMAIN a \intersect DOMAIN b :
         m[k] = IF k = "properties" THEN MergedProperties(a[k], b[k]) ELSE MergeKeyword(k, a[k], b[k])

LEMMA MergedLevelIs ==
    ASSUME NEW a, NEW b
    PROVE  \E m : LevelOf(m, a, b)
<1> DEFINE m == [k \in DOMAIN a \union DOMAIN b |->
                   IF k \notin DOMAIN b THEN a[k] ELSE
                   IF k \notin DOMAIN a THEN b[k] ELSE
                   IF k = "properties" THEN MergedProperties(a[k], b[k])
                   ELSE MergeKeyword(k, a[k], b[k])]
<1>1. MergedKeywords(a, b) = IF \E k \in DOMAIN m : m[k] = NoMerge THEN NoMerge ELSE m
  BY DEF MergedKeywords, MergedProperties, MergeKeywords, MergeMembers
<1>2. LevelOf(m, a, b)
  BY <1>1 DEF LevelOf
<1> QED BY <1>2

\* p holds the schemas of every property x or y declares, merged or refused.
MergedFrom(p, x, y) ==
    /\ MergedProperties(x, y) = IF \E name \in DOMAIN p : p[name] = NoMerge THEN NoMerge ELSE p
    /\ p = [name \in DOMAIN p |-> p[name]]
    /\ DOMAIN p = DOMAIN x \union DOMAIN y
    /\ \A name \in DOMAIN x \ DOMAIN y : p[name] = x[name]
    /\ \A name \in DOMAIN y \ DOMAIN x : p[name] = y[name]
    /\ \A name \in DOMAIN x \intersect DOMAIN y : p[name] = MergePart(x[name], y[name])

LEMMA MergedPropertiesAre ==
    ASSUME NEW x, NEW y
    PROVE  \E p : MergedFrom(p, x, y)
<1> DEFINE p == [k \in DOMAIN x \union DOMAIN y |->
                   IF k \notin DOMAIN y THEN x[k] ELSE
                   IF k \notin DOMAIN x THEN y[k] ELSE MergePart(x[k], y[k])]
<1>1. MergedProperties(x, y) = IF \E name \in DOMAIN p : p[name] = NoMerge THEN NoMerge ELSE p
  BY DEF MergedProperties, MergeProperties, MergeMembers
<1>2. MergedFrom(p, x, y)
  BY <1>1 DEF MergedFrom
<1> QED BY <1>2

\* m declares what a or b does, and what both do as the merge has it.
Joins(m, a, b) ==
    /\ DOMAIN m = DOMAIN a \union DOMAIN b
    /\ \A k \in DOMAIN a \ DOMAIN b : m[k] = a[k]
    /\ \A k \in DOMAIN b \ DOMAIN a : m[k] = b[k]
    /\ \A k \in (DOMAIN a \intersect DOMAIN b) \ {"properties"} : m[k] = MergeKeyword(k, a[k], b[k])

LEMMA JoinedKeyword ==
    ASSUME NEW m, NEW a, NEW b, Joins(m, a, b), NEW k, k # "properties"
    PROVE  /\ Declares(m, k) <=> Declares(a, k) \/ Declares(b, k)
           /\ Declares(a, k) /\ ~Declares(b, k) => m[k] = a[k]
           /\ Declares(b, k) /\ ~Declares(a, k) => m[k] = b[k]
           /\ Declares(a, k) /\ Declares(b, k) => m[k] = MergeKeyword(k, a[k], b[k])
BY DEF Joins, Declares

\* The stricter bound of two is the one that both ask for.
LEMMA BoundsMeet ==
    ASSUME NEW m, NEW a, NEW b, Joins(m, a, b), WellFormed(a), WellFormed(b), NEW n \in Int
    PROVE  /\ Value(m, "minimum", n) <= n <=>
                Value(a, "minimum", n) <= n /\ Value(b, "minimum", n) <= n
           /\ n <= Value(m, "maximum", n) <=>
                n <= Value(a, "maximum", n) /\ n <= Value(b, "maximum", n)
           /\ Value(m, "exclusiveMinimum", n - 1) < n <=>
                Value(a, "exclusiveMinimum", n - 1) < n /\ Value(b, "exclusiveMinimum", n - 1) < n
           /\ n < Value(m, "exclusiveMaximum", n + 1) <=>
                n < Value(a, "exclusiveMaximum", n + 1) /\ n < Value(b, "exclusiveMaximum", n + 1)
<1>1. \A s \in {a, b} : \A k \in Numeric : Declares(s, k) => s[k] \in Int
  BY DEF WellFormed
<1>2. Value(m, "minimum", n) <= n <=>
        Value(a, "minimum", n) <= n /\ Value(b, "minimum", n) <= n
  <2> DEFINE k == "minimum"
  <2>1. k \in Numeric /\ k # "properties"
    BY DEF Numeric
  <2>2. Declares(a, k) /\ Declares(b, k) => m[k] = IF a[k] < b[k] THEN b[k] ELSE a[k]
    BY <2>1, JoinedKeyword DEF MergeKeyword
  <2> QED BY <1>1, <2>1, <2>2, JoinedKeyword DEF Value
<1>3. n <= Value(m, "maximum", n) <=>
        n <= Value(a, "maximum", n) /\ n <= Value(b, "maximum", n)
  <2> DEFINE k == "maximum"
  <2>1. k \in Numeric /\ k # "properties"
    BY DEF Numeric
  <2>2. Declares(a, k) /\ Declares(b, k) => m[k] = IF a[k] < b[k] THEN a[k] ELSE b[k]
    BY <2>1, JoinedKeyword DEF MergeKeyword
  <2> QED BY <1>1, <2>1, <2>2, JoinedKeyword DEF Value
<1>4. Value(m, "exclusiveMinimum", n - 1) < n <=>
        Value(a, "exclusiveMinimum", n - 1) < n /\ Value(b, "exclusiveMinimum", n - 1) < n
  <2> DEFINE k == "exclusiveMinimum"
  <2>1. k \in Numeric /\ k # "properties"
    BY DEF Numeric
  <2>2. Declares(a, k) /\ Declares(b, k) => m[k] = IF a[k] < b[k] THEN b[k] ELSE a[k]
    BY <2>1, JoinedKeyword DEF MergeKeyword
  <2> QED BY <1>1, <2>1, <2>2, JoinedKeyword DEF Value
<1>5. n < Value(m, "exclusiveMaximum", n + 1) <=>
        n < Value(a, "exclusiveMaximum", n + 1) /\ n < Value(b, "exclusiveMaximum", n + 1)
  <2> DEFINE k == "exclusiveMaximum"
  <2>1. k \in Numeric /\ k # "properties"
    BY DEF Numeric
  <2>2. Declares(a, k) /\ Declares(b, k) => m[k] = IF a[k] < b[k] THEN a[k] ELSE b[k]
    BY <2>1, JoinedKeyword DEF MergeKeyword
  <2> QED BY <1>1, <2>1, <2>2, JoinedKeyword DEF Value
<1> QED BY <1>2, <1>3, <1>4, <1>5

\* Of the types both list, those both admit are left, unless it is integer in
\* the one and number in the other.
LEMMA TypesShared ==
    ASSUME NEW a, NEW b, Declares(a, "type"), Declares(b, "type"), ~IntegersLost(a, b), NEW kind
    PROVE  OfType(kind, a["type"] \intersect b["type"]) <=>
             OfType(kind, a["type"]) /\ OfType(kind, b["type"])
<1> DEFINE x == a["type"]
           y == b["type"]
<1>1. x \intersect Numbers = {"integer"} /\ y \intersect Numbers = {"number"} => FALSE
  BY DEF IntegersLost
<1>2. x \intersect Numbers = {"number"} /\ y \intersect Numbers = {"integer"} => FALSE
  BY DEF IntegersLost
<1> HIDE DEF x, y
<1>3. "integer" \in x /\ "number" \notin x => x \intersect Numbers = {"integer"}
  BY DEF Numbers
<1>4. "number" \in x /\ "integer" \notin x => x \intersect Numbers = {"number"}
  BY DEF Numbers
<1>5. "integer" \in y /\ "number" \notin y => y \intersect Numbers = {"integer"}
  BY DEF Numbers
<1>6. "number" \in y /\ "integer" \notin y => y \intersect Numbers = {"number"}
  BY DEF Numbers
<1>7. OfType(kind, x \intersect y) <=> OfType(kind, x) /\ OfType(kind, y)
  BY <1>1, <1>2, <1>3, <1>4, <1>5, <1>6 DEF OfType
<1> QED BY <1>7 DEF x, y

\* Types and values fixed: those both have, if any.
TypesMeet(m, a, b) ==
    \A kind : (Declares(m, "type") => OfType(kind, m["type"])) <=>
                /\ Declares(a, "type") => OfType(kind, a["type"])
                /\ Declares(b, "type") => OfType(kind, b["type"])

ConstsMeet(m, a, b) ==
    \A kind, of : (Declares(m, "const") => kind = m["const"].kind /\ of = m["const"].of) <=>
                     /\ Declares(a, "const") => kind = a["const"].kind /\ of = a["const"].of
                     /\ Declares(b, "const") => kind = b["const"].kind /\ of = b["const"].of

RequiredMeet(m, a, b) ==
    Value(m, "required", {}) = Value(a, "required", {}) \union Value(b, "required", {})

LEMMA FixedMeet ==
    ASSUME NEW m, NEW a, NEW b, Joins(m, a, b), WellFormed(a), WellFormed(b), ~IntegersLost(a, b),
           Declares(m, "type") => m["type"] # NoMerge,
           Declares(m, "const") => m["const"] # NoMerge
    PROVE  TypesMeet(m, a, b) /\ ConstsMeet(m, a, b) /\ RequiredMeet(m, a, b)
<1>1. Declares(a, "type") /\ Declares(b, "type") => m["type"] = a["type"] \intersect b["type"]
  <2>1. MergeKeyword("type", a["type"], b["type"])
          = IF a["type"] \intersect b["type"] = {} THEN NoMerge ELSE a["type"] \intersect b["type"]
    BY DEF MergeKeyword
  <2>2. /\ Declares(m, "type") <=> Declares(a, "type") \/ Declares(b, "type")
        /\ Declares(a, "type") /\ Declares(b, "type") =>
             m["type"] = MergeKeyword("type", a["type"], b["type"])
    BY JoinedKeyword
  <2> QED BY <2>1, <2>2
<1>2. Declares(a, "const") /\ Declares(b, "const") => m["const"] = a["const"] /\ a["const"] = b["const"]
  BY JoinedKeyword DEF MergeKeyword
<1>3. Declares(a, "required") /\ Declares(b, "required") =>
        m["required"] = a["required"] \union b["required"]
  <2>1. MergeKeyword("required", a["required"], b["required"]) = a["required"] \union b["required"]
    BY DEF MergeKeyword
  <2>2. Declares(a, "required") /\ Declares(b, "required") =>
          m["required"] = MergeKeyword("required", a["required"], b["required"])
    BY JoinedKeyword
  <2> QED BY <2>1, <2>2
<1>4. ASSUME NEW kind
      PROVE  (Declares(m, "type") => OfType(kind, m["type"])) <=>
                /\ Declares(a, "type") => OfType(kind, a["type"])
                /\ Declares(b, "type") => OfType(kind, b["type"])
  <2>1. CASE Declares(a, "type") /\ Declares(b, "type")
    <3>1. OfType(kind, a["type"] \intersect b["type"]) <=>
            OfType(kind, a["type"]) /\ OfType(kind, b["type"])
      BY <2>1, TypesShared
    <3>2. Declares(m, "type")
      BY <2>1, JoinedKeyword
    <3> QED BY <1>1, <2>1, <3>1, <3>2
  <2>2. CASE ~(Declares(a, "type") /\ Declares(b, "type"))
    BY <2>2, JoinedKeyword
  <2> QED BY <2>1, <2>2
<1>5. ASSUME NEW kind, NEW of
      PROVE  (Declares(m, "const") => kind = m["const"].kind /\ of = m["const"].of) <=>
                /\ Declares(a, "const") => kind = a["const"].kind /\ of = a["const"].of
                /\ Declares(b, "const") => kind = b["const"].kind /\ of = b["const"].of
  BY <1>2, JoinedKeyword
<1>6. RequiredMeet(m, a, b)
  BY <1>3, JoinedKeyword DEF Value, RequiredMeet
<1> QED BY <1>4, <1>5, <1>6 DEF TypesMeet, ConstsMeet

\* Keywords without a rule: the later branch's, and no other where both speak.
LEMMA OthersMeet ==
    ASSUME NEW m, NEW a, NEW b, Joins(m, a, b), ~OverridesHere(a, b), NEW k, k \notin Reconciled
    PROVE  /\ Declares(m, k) <=> Declares(a, k) \/ Declares(b, k)
           /\ Declares(a, k) => m[k] = a[k]
           /\ Declares(b, k) => m[k] = b[k]
<1>1. MergeKeyword(k, a[k], b[k]) = b[k]
  BY DEF MergeKeyword, Reconciled, Numeric
<1>2. k # "properties"
  BY DEF Reconciled
<1>3. Declares(a, k) /\ Declares(b, k) => a[k] = b[k]
  BY DEF OverridesHere, Declares
<1> QED BY <1>1, <1>2, <1>3, JoinedKeyword

\* What an array is asked for.
LEMMA ItemsMeet ==
    ASSUME NEW m, NEW a, NEW b, Joins(m, a, b), ~OverridesHere(a, b), NEW n \in Nat
    PROVE  /\ Value(m, "minItems", 0) <= n <=>
                Value(a, "minItems", 0) <= n /\ Value(b, "minItems", 0) <= n
           /\ n <= Value(m, "maxItems", n) <=>
                n <= Value(a, "maxItems", n) /\ n <= Value(b, "maxItems", n)
           /\ Declares(m, "items") <=> Declares(a, "items") \/ Declares(b, "items")
           /\ Declares(a, "items") => m["items"] = a["items"]
           /\ Declares(b, "items") => m["items"] = b["items"]
<1>1. "minItems" \notin Reconciled /\ "maxItems" \notin Reconciled /\ "items" \notin Reconciled
  BY DEF Reconciled, Numeric
<1>2. Value(m, "minItems", 0) <= n <=>
        Value(a, "minItems", 0) <= n /\ Value(b, "minItems", 0) <= n
  <2>1. /\ Declares(m, "minItems") <=> Declares(a, "minItems") \/ Declares(b, "minItems")
        /\ Declares(a, "minItems") => m["minItems"] = a["minItems"]
        /\ Declares(b, "minItems") => m["minItems"] = b["minItems"]
    BY <1>1, OthersMeet
  <2> QED BY <2>1 DEF Value
<1>3. n <= Value(m, "maxItems", n) <=>
        n <= Value(a, "maxItems", n) /\ n <= Value(b, "maxItems", n)
  <2>1. /\ Declares(m, "maxItems") <=> Declares(a, "maxItems") \/ Declares(b, "maxItems")
        /\ Declares(a, "maxItems") => m["maxItems"] = a["maxItems"]
        /\ Declares(b, "maxItems") => m["maxItems"] = b["maxItems"]
    BY <1>1, OthersMeet
  <2> QED BY <2>1 DEF Value
<1>4. /\ Declares(m, "items") <=> Declares(a, "items") \/ Declares(b, "items")
      /\ Declares(a, "items") => m["items"] = a["items"]
      /\ Declares(b, "items") => m["items"] = b["items"]
  BY <1>1, OthersMeet
<1> QED BY <1>2, <1>3, <1>4

\* The property merge is exact at one pair of schemas: what it yields admits
\* what both of them admit and no more.
Exact(x, y) ==
    MergePart(x, y) # NoMerge =>
      \A w : AdmitsPart(MergePart(x, y), w) <=> AdmitsPart(x, w) /\ AdmitsPart(y, w)

\* The schemas of the properties both branches declare.
SharedProperties(a, b) ==
    DOMAIN Value(a, "properties", <<>>) \intersect DOMAIN Value(b, "properties", <<>>)

PropertiesAdmit(s, object) ==
    LET properties == Value(s, "properties", <<>>) IN
      \A name \in DOMAIN properties \intersect DOMAIN object : AdmitsPart(properties[name], object[name])

\* Where the property merge is exact, so is the merge of two sets of them.
LEMMA PropertiesMeet ==
    ASSUME NEW a, NEW b, NEW object,
           \A name \in SharedProperties(a, b) :
             Exact(a["properties"][name], b["properties"][name]),
           NEW m,
           Declares(m, "properties") <=> Declares(a, "properties") \/ Declares(b, "properties"),
           Declares(a, "properties") /\ ~Declares(b, "properties") => m["properties"] = a["properties"],
           Declares(b, "properties") /\ ~Declares(a, "properties") => m["properties"] = b["properties"],
           Declares(a, "properties") /\ Declares(b, "properties") =>
             /\ m["properties"] # NoMerge
             /\ m["properties"] = MergedProperties(a["properties"], b["properties"])
    PROVE  PropertiesAdmit(m, object) <=>
             PropertiesAdmit(a, object) /\ PropertiesAdmit(b, object)
<1>0. DOMAIN <<>> = {}
  OBVIOUS
<1>1. CASE ~Declares(a, "properties") /\ ~Declares(b, "properties")
  BY <1>0, <1>1 DEF PropertiesAdmit, Value
<1>2. CASE Declares(a, "properties") /\ ~Declares(b, "properties")
  BY <1>0, <1>2 DEF PropertiesAdmit, Value
<1>3. CASE ~Declares(a, "properties") /\ Declares(b, "properties")
  BY <1>0, <1>3 DEF PropertiesAdmit, Value
<1>4. CASE Declares(a, "properties") /\ Declares(b, "properties")
  <2> DEFINE x == a["properties"]
             y == b["properties"]
  <2>1. PICK p : MergedFrom(p, x, y)
    BY MergedPropertiesAre
  <2>2. m["properties"] = p /\ \A name \in DOMAIN p : p[name] # NoMerge
    BY <1>4, <2>1 DEF MergedFrom
  <2>3. ASSUME NEW name \in DOMAIN x \intersect DOMAIN y
        PROVE  \A w : AdmitsPart(p[name], w) <=> AdmitsPart(x[name], w) /\ AdmitsPart(y[name], w)
    <3>1. name \in SharedProperties(a, b)
      BY <1>4 DEF SharedProperties, Value
    <3>2. p[name] = MergePart(x[name], y[name]) /\ p[name] # NoMerge
      BY <2>1, <2>2 DEF MergedFrom
    <3> QED BY <3>1, <3>2 DEF Exact
  <2>4. /\ PropertiesAdmit(m, object)
             <=> \A name \in DOMAIN p \intersect DOMAIN object : AdmitsPart(p[name], object[name])
        /\ PropertiesAdmit(a, object)
             <=> \A name \in DOMAIN x \intersect DOMAIN object : AdmitsPart(x[name], object[name])
        /\ PropertiesAdmit(b, object)
             <=> \A name \in DOMAIN y \intersect DOMAIN object : AdmitsPart(y[name], object[name])
    BY <1>4, <2>2 DEF PropertiesAdmit, Value
  <2> HIDE DEF x, y
  <2>5. ASSUME NEW name \in DOMAIN p \intersect DOMAIN object
        PROVE  AdmitsPart(p[name], object[name]) <=>
                 /\ name \in DOMAIN x => AdmitsPart(x[name], object[name])
                 /\ name \in DOMAIN y => AdmitsPart(y[name], object[name])
    <3>1. CASE name \in DOMAIN x \intersect DOMAIN y  BY <2>3, <3>1
    <3>2. CASE name \in DOMAIN x \ DOMAIN y  BY <2>1, <3>2 DEF MergedFrom
    <3>3. CASE name \in DOMAIN y \ DOMAIN x  BY <2>1, <3>3 DEF MergedFrom
    <3> QED BY <2>1, <3>1, <3>2, <3>3 DEF MergedFrom
  <2> QED BY <2>1, <2>4, <2>5 DEF MergedFrom
<1> QED BY <1>1, <1>2, <1>3, <1>4

\* A merge that was not refused, and no part of it was.
Joined(m, a, b) ==
    /\ \A k \in DOMAIN m : m[k] # NoMerge
    /\ Joins(m, a, b)
    /\ Declares(m, "properties") <=> Declares(a, "properties") \/ Declares(b, "properties")
    /\ Declares(a, "properties") /\ ~Declares(b, "properties") => m["properties"] = a["properties"]
    /\ Declares(b, "properties") /\ ~Declares(a, "properties") => m["properties"] = b["properties"]
    /\ Declares(a, "properties") /\ Declares(b, "properties") =>
         m["properties"] = MergedProperties(a["properties"], b["properties"])

LEMMA NotRefused ==
    ASSUME NEW a, NEW b, MergedKeywords(a, b) # NoMerge
    PROVE  Joined(MergedKeywords(a, b), a, b)
<1>1. PICK m : LevelOf(m, a, b)
  BY MergedLevelIs
<1>2. MergedKeywords(a, b) = m /\ \A k \in DOMAIN m : m[k] # NoMerge
  BY <1>1 DEF LevelOf
<1>3. Joins(m, a, b)
  BY <1>1 DEF LevelOf, Joins
<1>4. Declares(m, "properties") <=> Declares(a, "properties") \/ Declares(b, "properties")
  BY <1>1 DEF LevelOf, Declares
<1>5. Declares(a, "properties") /\ ~Declares(b, "properties") => m["properties"] = a["properties"]
  BY <1>1 DEF LevelOf, Declares
<1>6. Declares(b, "properties") /\ ~Declares(a, "properties") => m["properties"] = b["properties"]
  BY <1>1 DEF LevelOf, Declares
<1>7. Declares(a, "properties") /\ Declares(b, "properties") =>
           m["properties"] = MergedProperties(a["properties"], b["properties"])
  BY <1>1 DEF LevelOf, Declares
<1>8. Joined(m, a, b)
  BY <1>2, <1>3, <1>4, <1>5, <1>6, <1>7 DEF Joined
<1> QED BY <1>2, <1>8

\* What a value is asked, keyword by keyword.
LEMMA AdmittedIs ==
    ASSUME NEW s, NEW v
    PROVE  Admitted(s, v) <=>
             /\ Declares(s, "type") => OfType(v.kind, s["type"])
             /\ Declares(s, "const") => v.kind = s["const"].kind /\ v.of = s["const"].of
             /\ v.kind \in Numbers =>
                  /\ Value(s, "minimum", v.of) <= v.of
                  /\ v.of <= Value(s, "maximum", v.of)
                  /\ Value(s, "exclusiveMinimum", v.of - 1) < v.of
                  /\ v.of < Value(s, "exclusiveMaximum", v.of + 1)
             /\ v.kind = "object" =>
                  /\ Value(s, "required", {}) \subseteq DOMAIN v.of
                  /\ PropertiesAdmit(s, v.of)
             /\ v.kind = "array" =>
                  /\ Value(s, "minItems", 0) <= Len(v.of)
                  /\ Len(v.of) <= Value(s, "maxItems", Len(v.of))
                  /\ \A item \in ToSet(v.of) : Declares(s, "items") => AdmitsPart(s["items"], item)
BY DEF Admitted, AdmitsKeywords, PropertiesAdmit

\* A level merges exactly where the properties below it do: the merge of two
\* schemas admits a value just when both of them admit it (merge.go:44), unless
\* the later overrides the earlier or integers are lost between their types.
THEOREM MergeStepExact ==
    ASSUME NEW a, NEW b, WellFormed(a), WellFormed(b), ~SetApartHere(a, b),
           \A name \in SharedProperties(a, b) : Exact(a["properties"][name], b["properties"][name]),
           MergedKeywords(a, b) # NoMerge,
           NEW v, v.kind \in Numbers => v.of \in Int, v.kind = "array" => Len(v.of) \in Nat
    PROVE  Admitted(MergedKeywords(a, b), v) <=> Admitted(a, v) /\ Admitted(b, v)
<1>0. PICK m : m = MergedKeywords(a, b) /\ Joined(m, a, b)
  BY NotRefused
<1>1. /\ \A k \in DOMAIN m : m[k] # NoMerge
      /\ Joins(m, a, b)
      /\ Declares(m, "properties") <=> Declares(a, "properties") \/ Declares(b, "properties")
      /\ Declares(a, "properties") /\ ~Declares(b, "properties") => m["properties"] = a["properties"]
      /\ Declares(b, "properties") /\ ~Declares(a, "properties") => m["properties"] = b["properties"]
      /\ Declares(a, "properties") /\ Declares(b, "properties") =>
           m["properties"] = MergedProperties(a["properties"], b["properties"])
  BY <1>0 DEF Joined
<1>2. /\ (Declares(m, "type") => OfType(v.kind, m["type"])) <=>
           /\ Declares(a, "type") => OfType(v.kind, a["type"])
           /\ Declares(b, "type") => OfType(v.kind, b["type"])
      /\ (Declares(m, "const") => v.kind = m["const"].kind /\ v.of = m["const"].of) <=>
           /\ Declares(a, "const") => v.kind = a["const"].kind /\ v.of = a["const"].of
           /\ Declares(b, "const") => v.kind = b["const"].kind /\ v.of = b["const"].of
      /\ Value(m, "required", {}) = Value(a, "required", {}) \union Value(b, "required", {})
  <2>1. /\ Declares(m, "type") => m["type"] # NoMerge
        /\ Declares(m, "const") => m["const"] # NoMerge
    BY <1>1 DEF Declares
  <2>2. TypesMeet(m, a, b) /\ ConstsMeet(m, a, b) /\ RequiredMeet(m, a, b)
    BY <1>1, <2>1, FixedMeet DEF SetApartHere
  <2> QED BY <2>2 DEF TypesMeet, ConstsMeet, RequiredMeet
<1>3. ASSUME v.kind \in Numbers
      PROVE  /\ Value(m, "minimum", v.of) <= v.of <=>
                  Value(a, "minimum", v.of) <= v.of /\ Value(b, "minimum", v.of) <= v.of
             /\ v.of <= Value(m, "maximum", v.of) <=>
                  v.of <= Value(a, "maximum", v.of) /\ v.of <= Value(b, "maximum", v.of)
             /\ Value(m, "exclusiveMinimum", v.of - 1) < v.of <=>
                  Value(a, "exclusiveMinimum", v.of - 1) < v.of /\ Value(b, "exclusiveMinimum", v.of - 1) < v.of
             /\ v.of < Value(m, "exclusiveMaximum", v.of + 1) <=>
                  v.of < Value(a, "exclusiveMaximum", v.of + 1) /\ v.of < Value(b, "exclusiveMaximum", v.of + 1)
  BY <1>1, <1>3, BoundsMeet
<1>4. PropertiesAdmit(m, v.of) <=> PropertiesAdmit(a, v.of) /\ PropertiesAdmit(b, v.of)
  <2>1. Declares(m, "properties") => m["properties"] # NoMerge
    BY <1>1 DEF Declares
  <2> QED BY <1>1, <2>1, PropertiesMeet
<1>5. ASSUME v.kind = "array"
      PROVE  /\ Value(m, "minItems", 0) <= Len(v.of) <=>
                  Value(a, "minItems", 0) <= Len(v.of) /\ Value(b, "minItems", 0) <= Len(v.of)
             /\ Len(v.of) <= Value(m, "maxItems", Len(v.of)) <=>
                  Len(v.of) <= Value(a, "maxItems", Len(v.of)) /\ Len(v.of) <= Value(b, "maxItems", Len(v.of))
             /\ Declares(m, "items") <=> Declares(a, "items") \/ Declares(b, "items")
             /\ Declares(a, "items") => m["items"] = a["items"]
             /\ Declares(b, "items") => m["items"] = b["items"]
  <2>1. PICK n \in Nat : n = Len(v.of)
    BY <1>5
  <2> QED BY <1>1, <2>1, ItemsMeet DEF SetApartHere
<1>6. v.kind = "object" =>
        (/\ Value(m, "required", {}) \subseteq DOMAIN v.of
         /\ PropertiesAdmit(m, v.of))
        <=> /\ Value(a, "required", {}) \subseteq DOMAIN v.of /\ PropertiesAdmit(a, v.of)
            /\ Value(b, "required", {}) \subseteq DOMAIN v.of /\ PropertiesAdmit(b, v.of)
  BY <1>2, <1>4
<1>7. v.kind = "array" =>
        (\A item \in ToSet(v.of) : Declares(m, "items") => AdmitsPart(m["items"], item))
        <=> /\ \A item \in ToSet(v.of) : Declares(a, "items") => AdmitsPart(a["items"], item)
            /\ \A item \in ToSet(v.of) : Declares(b, "items") => AdmitsPart(b["items"], item)
  BY <1>5
<1>8. Admitted(m, v) <=> Admitted(a, v) /\ Admitted(b, v)
  BY <1>2, <1>3, <1>5, <1>6, <1>7, AdmittedIs
<1> QED BY <1>0, <1>8

\* The fold over the branches meets the same premises at its next step: a
\* merge that was not refused is well formed again.
LEMMA MergeStepForm ==
    ASSUME NEW a, NEW b, WellFormed(a), WellFormed(b), MergedKeywords(a, b) # NoMerge
    PROVE  WellFormed(MergedKeywords(a, b))
<1>0. PICK m : m = MergedKeywords(a, b) /\ Joined(m, a, b)
  BY NotRefused
<1>1. /\ \A k \in DOMAIN m : m[k] # NoMerge
      /\ Joins(m, a, b)
      /\ Declares(m, "properties") <=> Declares(a, "properties") \/ Declares(b, "properties")
      /\ Declares(a, "properties") /\ ~Declares(b, "properties") => m["properties"] = a["properties"]
      /\ Declares(b, "properties") /\ ~Declares(a, "properties") => m["properties"] = b["properties"]
      /\ Declares(a, "properties") /\ Declares(b, "properties") =>
           m["properties"] = MergedProperties(a["properties"], b["properties"])
  BY <1>0 DEF Joined
<1>2. ASSUME NEW k \in Numeric, Declares(m, k)
      PROVE  m[k] \in Int
  <2>1. k # "properties"
    BY DEF Numeric
  <2>2. /\ Declares(a, k) \/ Declares(b, k)
        /\ Declares(a, k) /\ ~Declares(b, k) => m[k] = a[k]
        /\ Declares(b, k) /\ ~Declares(a, k) => m[k] = b[k]
        /\ Declares(a, k) /\ Declares(b, k) => m[k] = MergeKeyword(k, a[k], b[k])
    BY <1>1, <1>2, <2>1, JoinedKeyword
  <2>3. MergeKeyword(k, a[k], b[k]) \in {a[k], b[k]}
    <3>1. CASE k \in {"minimum", "exclusiveMinimum"}
      BY <3>1 DEF MergeKeyword
    <3>2. CASE k \in {"maximum", "exclusiveMaximum"}
      BY <3>2 DEF MergeKeyword
    <3> QED BY <3>1, <3>2 DEF Numeric
  <2>4. /\ Declares(a, k) => a[k] \in Int
        /\ Declares(b, k) => b[k] \in Int
    BY DEF WellFormed
  <2> QED BY <2>2, <2>3, <2>4
<1>3. ASSUME Declares(m, "const")
      PROVE  m["const"] = [kind |-> m["const"].kind, of |-> m["const"].of]
  <2>1. /\ Declares(a, "const") \/ Declares(b, "const")
        /\ Declares(a, "const") /\ ~Declares(b, "const") => m["const"] = a["const"]
        /\ Declares(b, "const") /\ ~Declares(a, "const") => m["const"] = b["const"]
        /\ Declares(a, "const") /\ Declares(b, "const") =>
             m["const"] = MergeKeyword("const", a["const"], b["const"])
    BY <1>1, <1>3, JoinedKeyword
  <2>2. m["const"] # NoMerge
    BY <1>1, <1>3 DEF Declares
  <2>3. MergeKeyword("const", a["const"], b["const"])
          = IF a["const"] = b["const"] THEN a["const"] ELSE NoMerge
    BY DEF MergeKeyword
  <2>4. /\ Declares(a, "const") => a["const"] = [kind |-> a["const"].kind, of |-> a["const"].of]
        /\ Declares(b, "const") => b["const"] = [kind |-> b["const"].kind, of |-> b["const"].of]
    BY DEF WellFormed
  <2>5. CASE Declares(a, "const")
    <3>1. m["const"] = a["const"]
      BY <2>1, <2>2, <2>3, <2>5
    <3> QED BY <3>1, <2>4, <2>5
  <2>6. CASE Declares(b, "const") /\ ~Declares(a, "const")
    <3>1. m["const"] = b["const"]
      BY <2>1, <2>6
    <3> QED BY <3>1, <2>4, <2>6
  <2> QED BY <2>1, <2>5, <2>6
<1>4. ASSUME Declares(m, "properties")
      PROVE  \A name \in DOMAIN m["properties"] : m["properties"][name] # NoMerge
  <2>1. /\ Declares(a, "properties") => \A name \in DOMAIN a["properties"] : a["properties"][name] # NoMerge
        /\ Declares(b, "properties") => \A name \in DOMAIN b["properties"] : b["properties"][name] # NoMerge
    BY DEF WellFormed
  <2>2. CASE Declares(a, "properties") /\ Declares(b, "properties")
    <3>1. PICK p : MergedFrom(p, a["properties"], b["properties"])
      BY MergedPropertiesAre
    <3>2. m["properties"] # NoMerge /\ m["properties"] = MergedProperties(a["properties"], b["properties"])
      BY <1>1, <1>4, <2>2 DEF Declares
    <3> QED BY <3>1, <3>2 DEF MergedFrom
  <2> QED BY <1>1, <1>4, <2>1, <2>2
<1>5. WellFormed(m)
  BY <1>1, <1>2, <1>3, <1>4 DEF WellFormed
<1> QED BY <1>0, <1>5

\* The error is neither a set of the names schemas list nor a map.
ErrorApart(names) ==
    NoMerge \notin SUBSET names /\ NoMerge # [k \in DOMAIN NoMerge |-> NoMerge[k]]

Refused(a, b) ==
    /\ Declares(a, "properties") /\ Declares(b, "properties")
    /\ \E name \in SharedProperties(a, b) : MergePart(a["properties"][name], b["properties"][name]) = NoMerge

\* A refusal has its reason in the schemas: no value is admitted by both, or
\* the refusal is that of a property both of them declare (merge.go:85-105).
\* Of integer beside number it has none: both admit every integer, and the code
\* refuses them by their names (merge.go:204).
THEOREM RefusalHasReason ==
    ASSUME NEW a, NEW b, WellFormed(a), WellFormed(b), ~IntegersLost(a, b),
           NEW names, ErrorApart(names),
           Value(a, "required", {}) \subseteq names, Value(b, "required", {}) \subseteq names,
           Value(a, "type", {}) \subseteq names, Value(b, "type", {}) \subseteq names,
           MergedKeywords(a, b) = NoMerge, NEW v, Admitted(a, v), Admitted(b, v)
    PROVE  Refused(a, b)
<1>1. PICK m : LevelOf(m, a, b)
  BY MergedLevelIs
<1>2. /\ Declares(a, "type") => OfType(v.kind, a["type"])
      /\ Declares(a, "const") => v.kind = a["const"].kind /\ v.of = a["const"].of
      /\ Declares(b, "type") => OfType(v.kind, b["type"])
      /\ Declares(b, "const") => v.kind = b["const"].kind /\ v.of = b["const"].of
  BY AdmittedIs
<1>3. PICK k \in DOMAIN m : m[k] = NoMerge
  BY <1>1 DEF LevelOf, ErrorApart
<1>4. Declares(a, k) /\ Declares(b, k)
  BY <1>1, <1>3 DEF LevelOf, Declares, WellFormed
<1>5. CASE k = "properties"
  <2>1. MergedProperties(a[k], b[k]) = NoMerge
    BY <1>1, <1>3, <1>4, <1>5 DEF LevelOf, Declares
  <2>2. PICK p : MergedFrom(p, a[k], b[k])
    BY MergedPropertiesAre
  <2>3. PICK name \in DOMAIN p : p[name] = NoMerge
    BY <2>1, <2>2 DEF MergedFrom, ErrorApart
  <2>4. name \in DOMAIN a[k] /\ name \in DOMAIN b[k]
    <3>1. /\ \A n \in DOMAIN a[k] : a[k][n] # NoMerge
          /\ \A n \in DOMAIN b[k] : b[k][n] # NoMerge
      BY <1>4, <1>5 DEF WellFormed
    <3> QED BY <2>2, <2>3, <3>1 DEF MergedFrom
  <2>5. MergePart(a[k][name], b[k][name]) = NoMerge
    BY <2>2, <2>3, <2>4 DEF MergedFrom
  <2> QED BY <1>4, <1>5, <2>4, <2>5 DEF Refused, SharedProperties, Value
<1>6. CASE k # "properties"
  <2>1. MergeKeyword(k, a[k], b[k]) = NoMerge
    BY <1>1, <1>3, <1>4, <1>6 DEF LevelOf, Declares
  <2>2. a[k] # NoMerge /\ b[k] # NoMerge
    BY <1>4 DEF WellFormed, Declares
  <2>3. k # "required"
    <3>1. SUFFICES ASSUME k = "required" PROVE FALSE  OBVIOUS
    <3>2. NoMerge = a[k] \union b[k]
      BY <2>1, <3>1 DEF MergeKeyword
    <3>3. a[k] \subseteq names /\ b[k] \subseteq names
      BY <1>4, <3>1 DEF Value
    <3> QED BY <3>2, <3>3 DEF ErrorApart
  <2>4. k # "type"
    <3>1. SUFFICES ASSUME k = "type" PROVE FALSE  OBVIOUS
    <3>2. OfType(v.kind, a[k] \intersect b[k])
      BY <1>2, <1>4, <3>1, TypesShared
    <3>3. NoMerge = a[k] \intersect b[k]
      BY <2>1, <3>1, <3>2 DEF MergeKeyword, OfType
    <3>4. a[k] \subseteq names
      BY <1>4, <3>1 DEF Value
    <3> QED BY <3>3, <3>4 DEF ErrorApart
  <2>5. k # "const"
    <3>1. SUFFICES ASSUME k = "const" PROVE FALSE  OBVIOUS
    <3>2. a[k] = b[k]
      BY <1>2, <1>4, <3>1 DEF WellFormed
    <3> QED BY <2>1, <2>2, <3>1, <3>2 DEF MergeKeyword
  <2>6. CASE k \in Numeric
    BY <2>1, <2>2, <2>6 DEF MergeKeyword, Numeric
  <2>7. CASE k \notin Reconciled
    BY <2>1, <2>2, <2>7 DEF MergeKeyword, Reconciled, Numeric
  <2> QED BY <1>6, <2>3, <2>4, <2>5, <2>6, <2>7 DEF Reconciled
<1> QED BY <1>5, <1>6
=============================================================================
