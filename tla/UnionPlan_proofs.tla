-------------------------- MODULE UnionPlan_proofs --------------------------
(***************************************************************************)
(* planUnion, for any Message types and any reference graph: its order is  *)
(* complete and by need, it refuses a cycle and nothing but a cycle, and   *)
(* what it renders refers to what it must.                                 *)
(***************************************************************************)
EXTENDS UnionPlan, WellFoundedInduction, TLAPS

SubjectRecord == [name : Names, refs : Seq(Names), inline : SUBSET Names]

PlanTypeOK ==
  /\ composition \in Composition
  /\ stage \in {"compose", "order", "look", "render", "planned", "refused"}
  /\ at \in Nat \ {0}
  /\ defined \in [Names -> SUBSET Nat]
  /\ path \in Seq(Names) /\ order \in Seq(Names) /\ rest \in Seq(Seq(Names))
  /\ todo \in Seq(Names) /\ seen \in SUBSET Names /\ found \in Seq(Names)
  /\ subjects \in Seq(SubjectRecord)

(* What is said to define a type does.                                     *)
DefinedInv ==
  \A t \in Names : \A i \in defined[t] :
    i \in DOMAIN composition.roots /\ t \in Defines(composition, i)

NeedsOf == [name \in Names |-> Needs(name)]

(* What the type k - 1 on the path, or the composition, wants visited.     *)
Wanted(k) == IF k = 1 THEN RangeOf(composition.roots) ELSE NeedsOf[path[k - 1]]

OnPath(k) == IF k \in DOMAIN path THEN {path[k]} ELSE {}

(* The stack of visit: each type on it is wanted by the one below, and     *)
(* what a type wants is done, left to visit, or the one above it.          *)
StackInv ==
  /\ Len(rest) = IF stage = "look" THEN Len(path) ELSE Len(path) + 1
  /\ stage = "look" => path # <<>>
  /\ IsInjective(path)
  /\ RangeOf(path) \subseteq Registered \ RangeOf(order)
  /\ \A k \in DOMAIN path : path[k] \in Wanted(k)
  /\ \A k \in DOMAIN rest :
       /\ RangeOf(rest[k]) \subseteq Wanted(k)
       /\ Wanted(k) \subseteq RangeOf(order) \cup RangeOf(rest[k]) \cup OnPath(k)

(* A type that is done comes after all it needs.                           *)
DoneInv ==
  /\ IsInjective(order)
  /\ RangeOf(order) \subseteq Registered
  /\ \A i \in DOMAIN order : NeedsOf[order[i]] \subseteq {order[j] : j \in 1..(i - 1)}

(* A traversal from name meets only what is reached from it, and leaves    *)
(* nothing out: what it has met leads to what it has met or has to do.     *)
Met == seen \cup RangeOf(found)

Traversal(name) ==
  LET others == Registered \ {name} IN
  /\ name \in seen
  /\ Met \cup RangeOf(todo) \subseteq Reached(InlineSteps(name), {name})
  /\ \A u \in seen \ others : RangeOf(composition.refs[u]) \subseteq Met \cup RangeOf(todo)
  /\ RangeOf(found) \subseteq others
  /\ seen \cap others \subseteq RangeOf(found)

TraversalInv ==
  \A name \in Names :
    /\ stage = "look" /\ name = path[Len(path)] => Traversal(name)
    /\ stage = "render" /\ name = order[at] =>
         Traversal(name) /\ seen \cap Registered = {name}

Exact(s, name) ==
  /\ s.name = name
  /\ RangeOf(s.refs) = NeedsOf[name]
  /\ s.inline \cap Registered = {name}

RenderedInv == \A i \in DOMAIN subjects : i \in DOMAIN order /\ Exact(subjects[i], order[i])

StageInv ==
  /\ stage = "compose" =>
       /\ at \in DOMAIN composition.roots
       /\ path = <<>> /\ order = <<>> /\ rest = <<composition.roots>>
  /\ stage \in {"compose", "order", "look"} => subjects = <<>>
  /\ stage \in {"render", "planned"} => path = <<>> /\ rest = <<<<>>>>
  /\ stage = "render" => at \in DOMAIN order /\ Len(subjects) = at - 1
  /\ stage = "planned" => Len(subjects) = Len(order)

PlanInv ==
  /\ PlanTypeOK /\ DefinedInv
  /\ stage # "refused" => /\ refusal = "no"
                          /\ StageInv /\ StackInv /\ DoneInv
                          /\ TraversalInv /\ RenderedInv
  /\ refusal = "cycle" => NeedEachOther

-----------------------------------------------------------------------------
(* Sequences and the reached set.                                          *)

LEMMA HeadAndTail ==
  ASSUME NEW S, NEW s \in Seq(S), s # <<>>
  PROVE  /\ Head(s) \in S /\ Tail(s) \in Seq(S)
         /\ RangeOf(s) = {Head(s)} \cup RangeOf(Tail(s))
<1>1. /\ Len(s) \in Nat \ {0} /\ DOMAIN s = 1..Len(s)
      /\ Head(s) = s[1] /\ Tail(s) \in Seq(S) /\ Len(Tail(s)) = Len(s) - 1
      /\ DOMAIN Tail(s) = 1..(Len(s) - 1)
      /\ \A i \in 1..(Len(s) - 1) : Tail(s)[i] = s[i + 1]
  OBVIOUS
<1>2. ASSUME NEW x \in RangeOf(s) PROVE x \in {Head(s)} \cup RangeOf(Tail(s))
  <2>1. PICK i \in 1..Len(s) : s[i] = x
    BY <1>1 DEF RangeOf
  <2>2. CASE i = 1
    BY <1>1, <2>1, <2>2
  <2>3. CASE i # 1
    <3>1. i - 1 \in 1..(Len(s) - 1) /\ (i - 1) + 1 = i
      BY <1>1, <2>3
    <3>2. Tail(s)[i - 1] = x
      BY <1>1, <2>1, <3>1
    <3> QED BY <1>1, <3>1, <3>2 DEF RangeOf
  <2> QED BY <2>2, <2>3
<1>3. ASSUME NEW x \in RangeOf(Tail(s)) PROVE x \in RangeOf(s)
  <2>1. PICK i \in 1..(Len(s) - 1) : Tail(s)[i] = x
    BY <1>1 DEF RangeOf
  <2>2. i + 1 \in 1..Len(s) /\ s[i + 1] = x
    BY <1>1, <2>1
  <2> QED BY <1>1, <2>2 DEF RangeOf
<1>4. Head(s) \in RangeOf(s)
  BY <1>1 DEF RangeOf
<1> QED BY <1>1, <1>2, <1>3, <1>4

LEMMA RangeOfAppend ==
  ASSUME NEW S, NEW s \in Seq(S), NEW e \in S
  PROVE  /\ Append(s, e) \in Seq(S) /\ Len(Append(s, e)) = Len(s) + 1
         /\ RangeOf(Append(s, e)) = RangeOf(s) \cup {e}
<1>1. /\ Append(s, e) \in Seq(S) /\ Len(Append(s, e)) = Len(s) + 1 /\ Len(s) \in Nat
      /\ DOMAIN s = 1..Len(s) /\ DOMAIN Append(s, e) = 1..(Len(s) + 1)
      /\ \A i \in 1..Len(s) : Append(s, e)[i] = s[i]
      /\ Append(s, e)[Len(s) + 1] = e
  OBVIOUS
<1>2. \A i \in 1..(Len(s) + 1) : i \in 1..Len(s) \/ i = Len(s) + 1
  BY <1>1
<1>3. \A i \in 1..Len(s) : i \in 1..(Len(s) + 1)
  BY <1>1
<1> QED BY <1>1, <1>2, <1>3 DEF RangeOf

LEMMA RangeOfConcat ==
  ASSUME NEW S, NEW s \in Seq(S), NEW t \in Seq(S)
  PROVE  s \o t \in Seq(S) /\ RangeOf(s \o t) = RangeOf(s) \cup RangeOf(t)
<1>1. /\ s \o t \in Seq(S) /\ Len(s) \in Nat /\ Len(t) \in Nat
      /\ DOMAIN s = 1..Len(s) /\ DOMAIN t = 1..Len(t)
      /\ DOMAIN (s \o t) = 1..(Len(s) + Len(t))
      /\ \A i \in 1..(Len(s) + Len(t)) :
           (s \o t)[i] = IF i <= Len(s) THEN s[i] ELSE t[i - Len(s)]
  OBVIOUS
<1>2. ASSUME NEW x \in RangeOf(s \o t) PROVE x \in RangeOf(s) \cup RangeOf(t)
  <2>1. PICK i \in 1..(Len(s) + Len(t)) : (s \o t)[i] = x
    BY <1>1 DEF RangeOf
  <2>2. i \in 1..Len(s) \/ i - Len(s) \in 1..Len(t)
    BY <1>1
  <2>3. x = IF i <= Len(s) THEN s[i] ELSE t[i - Len(s)]
    BY <1>1, <2>1
  <2>4. CASE i <= Len(s)
    BY <1>1, <2>3, <2>4 DEF RangeOf
  <2>5. CASE ~(i <= Len(s))
    <3>1. i - Len(s) \in 1..Len(t) /\ x = t[i - Len(s)]
      BY <1>1, <2>1, <2>3, <2>5
    <3> QED BY <1>1, <3>1 DEF RangeOf
  <2> QED BY <2>4, <2>5
<1>3. ASSUME NEW i \in 1..Len(s) PROVE s[i] \in RangeOf(s \o t)
  <2>1. i \in 1..(Len(s) + Len(t)) /\ (s \o t)[i] = s[i]
    BY <1>1
  <2> QED BY <1>1, <2>1 DEF RangeOf
<1>4. ASSUME NEW i \in 1..Len(t) PROVE t[i] \in RangeOf(s \o t)
  <2>1. i + Len(s) \in 1..(Len(s) + Len(t)) /\ ~(i + Len(s) <= Len(s))
        /\ (i + Len(s)) - Len(s) = i
    BY <1>1
  <2>2. (s \o t)[i + Len(s)] = t[i]
    BY <1>1, <2>1
  <2> QED BY <1>1, <2>1, <2>2 DEF RangeOf
<1> QED BY <1>1, <1>2, <1>3, <1>4 DEF RangeOf

LEMMA RangeOfType ==
  ASSUME NEW S, NEW s \in Seq(S)
  PROVE  RangeOf(s) \subseteq S /\ Len(s) \in Nat /\ DOMAIN s = 1..Len(s)
BY DEF RangeOf

(* The reached set has where it begins and every step from it...           *)
LEMMA ReachedHas ==
  ASSUME NEW step, NEW from \in SUBSET Names
  PROVE  /\ Reached(step, from) \subseteq Names
         /\ from \subseteq Reached(step, from)
         /\ \A u \in Reached(step, from) :
              step[u] \subseteq Names => step[u] \subseteq Reached(step, from)
BY DEF Reached, Closed

(* ...and is the least such set.                                           *)
LEMMA ReachedLeast ==
  ASSUME NEW step, NEW from, NEW S \in SUBSET Names, from \subseteq S, Closed(S, step)
  PROVE  Reached(step, from) \subseteq S
BY DEF Reached

-----------------------------------------------------------------------------
(* Looking for a type's dependencies, and rendering it.                    *)

LEMMA RefsType ==
  ASSUME PlanTypeOK
  PROVE  /\ composition.roots \in Seq(Names) /\ composition.roots # <<>>
         /\ Registered \subseteq Names
         /\ \A t \in Names : /\ composition.refs[t] \in Seq(Names)
                             /\ RangeOf(composition.refs[t]) \subseteq Names
                             /\ InlineSteps(t) \in [Names -> SUBSET Names]
                             /\ Needs(t) \subseteq Registered \ {t}
<1>1. composition.roots \in Seq(Names) /\ composition.roots # <<>>
  BY DEF PlanTypeOK, Composition
<1>2. Registered \subseteq Names
  BY <1>1, RangeOfType DEF Registered
<1>3. \A t \in Names : composition.refs[t] \in Seq(Names)
  BY DEF PlanTypeOK, Composition
<1>4. \A t \in Names : RangeOf(composition.refs[t]) \subseteq Names
  BY <1>3, RangeOfType
<1>5. \A t \in Names : InlineSteps(t) \in [Names -> SUBSET Names]
  BY <1>4 DEF InlineSteps
<1> QED BY <1>1, <1>2, <1>3, <1>4, <1>5 DEF Needs

(* Nothing else changes what a type needs.                                 *)
LEMMA NeedsStay ==
  ASSUME UNCHANGED <<composition, defined>>
  PROVE  /\ Registered' = Registered
         /\ \A name \in Names : InlineSteps(name)' = InlineSteps(name)
         /\ \A name \in Names : Needs(name)' = Needs(name)
         /\ NeedsOf' = NeedsOf
<1>1. Registered' = Registered
  BY DEF Registered
<1>2. \A name \in Names : InlineSteps(name)' = InlineSteps(name)
  BY <1>1 DEF InlineSteps
<1>3. \A name \in Names : Needs(name)' = Needs(name)
  BY <1>1, <1>2 DEF Needs
<1> QED BY <1>1, <1>2, <1>3 DEF NeedsOf

LEMMA TraversalBegins ==
  ASSUME PlanTypeOK, NEW name \in Names, Begin(name), UNCHANGED <<composition, defined>>
  PROVE  /\ Traversal(name)' /\ seen' = {name}
         /\ todo' \in Seq(Names) /\ seen' \in SUBSET Names /\ found' \in Seq(Names)
<1> DEFINE met == Reached(InlineSteps(name), {name})
<1>1. /\ todo' = composition.refs[name] /\ seen' = {name} /\ found' = <<>>
      /\ composition' = composition
  BY DEF Begin
<1>2. /\ Registered' = Registered /\ InlineSteps(name)' = InlineSteps(name)
      /\ composition.refs[name] \in Seq(Names)
      /\ RangeOf(composition.refs[name]) \subseteq Names
  BY NeedsStay, RefsType
<1>3. /\ name \in met
      /\ InlineSteps(name)[name] \subseteq Names => InlineSteps(name)[name] \subseteq met
  BY ReachedHas
<1>4. InlineSteps(name)[name] = RangeOf(composition.refs[name])
  BY DEF InlineSteps
<1>5. RangeOf(<<>>) = {}
  BY DEF RangeOf
<1>6. Met' = {name}
  BY <1>1, <1>5 DEF Met
<1>7. RangeOf(todo)' = RangeOf(composition.refs[name]) /\ RangeOf(found)' = {}
  BY <1>1, <1>5
<1>8. Met' \cup RangeOf(todo)' \subseteq met
  BY <1>2, <1>3, <1>4, <1>6, <1>7
<1> HIDE DEF met
<1>9. \A u \in seen' \ (Registered \ {name}) :
        RangeOf(composition.refs[u]) \subseteq Met' \cup RangeOf(todo)'
  BY <1>1, <1>7
<1>10. Traversal(name)'
  BY <1>1, <1>2, <1>7, <1>8, <1>9 DEF Traversal, met
<1>11. <<>> \in Seq(Names)
  OBVIOUS
<1> QED BY <1>1, <1>2, <1>10, <1>11

(* One reference is followed: another registered type is found, a type not *)
(* met yet is entered.                                                     *)
Follows(name) ==
  LET t == Head(todo)
      other == t \in Registered \ {name}
  IN /\ todo # <<>>
     /\ found' \in Seq(Names)
     /\ RangeOf(found') = IF other THEN RangeOf(found) \cup {t} ELSE RangeOf(found)
     /\ seen \subseteq seen' /\ seen' \subseteq seen \cup {t}
     /\ ~other => t \in seen'
     /\ todo' = IF other \/ t \in seen THEN Tail(todo) ELSE composition.refs[t] \o Tail(todo)

LEMMA TraversalGoesOn ==
  ASSUME PlanTypeOK, NEW name \in Names, Traversal(name), Follows(name),
         UNCHANGED <<composition, defined>>
  PROVE  /\ Traversal(name)'
         /\ todo' \in Seq(Names) /\ seen' \in SUBSET Names /\ found' \in Seq(Names)
<1> DEFINE met == Reached(InlineSteps(name), {name})
           others == Registered \ {name}
<1>1. PICK t : t = Head(todo)
  OBVIOUS
<1>2. /\ t \in Names /\ Tail(todo) \in Seq(Names)
      /\ RangeOf(todo) = {t} \cup RangeOf(Tail(todo))
  BY <1>1, HeadAndTail DEF PlanTypeOK, Follows
<1>3. /\ Registered' = Registered /\ InlineSteps(name)' = InlineSteps(name)
      /\ composition' = composition
      /\ composition.refs[t] \in Seq(Names) /\ RangeOf(composition.refs[t]) \subseteq Names
  BY <1>2, NeedsStay, RefsType
<1>4. /\ todo' \in Seq(Names)
      /\ RangeOf(todo') = IF t \in others \/ t \in seen THEN RangeOf(Tail(todo))
                          ELSE RangeOf(composition.refs[t]) \cup RangeOf(Tail(todo))
  <2>1. PICK refs : refs = composition.refs[t]
    OBVIOUS
  <2>2. PICK left : left = Tail(todo)
    OBVIOUS
  <2>3. refs \in Seq(Names) /\ left \in Seq(Names)
    BY <1>2, <1>3, <2>1, <2>2
  <2>4. refs \o left \in Seq(Names) /\ RangeOf(refs \o left) = RangeOf(refs) \cup RangeOf(left)
    BY <2>3, RangeOfConcat, Zenon
  <2>5. todo' = IF t \in others \/ t \in seen THEN left ELSE refs \o left
    BY <1>1, <2>1, <2>2 DEF Follows
  <2> QED BY <2>1, <2>2, <2>3, <2>4, <2>5, Zenon
<1>5. /\ seen \subseteq seen' /\ seen' \subseteq seen \cup {t}
      /\ t \notin others => t \in seen'
      /\ RangeOf(found') = IF t \in others THEN RangeOf(found) \cup {t} ELSE RangeOf(found)
      /\ found' \in Seq(Names)
  BY <1>1 DEF Follows
<1>6. /\ name \in seen /\ t \in met
      /\ seen \subseteq met /\ RangeOf(found) \subseteq met
      /\ RangeOf(Tail(todo)) \subseteq met
      /\ RangeOf(found) \subseteq others /\ seen \cap others \subseteq RangeOf(found)
      /\ \A u \in seen \ others :
           RangeOf(composition.refs[u]) \subseteq seen \cup RangeOf(found) \cup {t}
                                                    \cup RangeOf(Tail(todo))
  BY <1>2 DEF Traversal, Met
<1>7. t \notin others => RangeOf(composition.refs[t]) \subseteq met
  <2>1. t \notin others => InlineSteps(name)[t] = RangeOf(composition.refs[t])
    BY <1>2 DEF InlineSteps
  <2> QED BY <1>3, <1>6, <2>1, ReachedHas
<1> HIDE DEF met
<1>8. Met' = seen' \cup RangeOf(found')
  BY DEF Met, RangeOf
<1>9. Met' \cup RangeOf(todo') \subseteq met
  BY <1>4, <1>5, <1>6, <1>7, <1>8
<1>10. \A u \in seen' \ others : RangeOf(composition.refs[u]) \subseteq Met' \cup RangeOf(todo')
  BY <1>4, <1>5, <1>6, <1>8
<1>11. name \in seen' /\ RangeOf(found') \subseteq others /\ seen' \cap others \subseteq RangeOf(found')
  BY <1>5, <1>6
<1>12. Traversal(name)'
  BY <1>3, <1>9, <1>10, <1>11 DEF Traversal, RangeOf, met
<1> QED BY <1>2, <1>4, <1>5, <1>12 DEF PlanTypeOK

(* At its end it has found what the type needs.                            *)
LEMMA TraversalEnds ==
  ASSUME PlanTypeOK, NEW name \in Names, Traversal(name), todo = <<>>
  PROVE  RangeOf(found) = Needs(name)
<1> DEFINE others == Registered \ {name}
<1>1. RangeOf(todo) = {}
  BY DEF RangeOf
<1>2. /\ name \in seen /\ Met \subseteq Reached(InlineSteps(name), {name})
      /\ \A u \in seen \ others : RangeOf(composition.refs[u]) \subseteq Met
      /\ RangeOf(found) \subseteq others /\ seen \cap others \subseteq RangeOf(found)
  BY <1>1 DEF Traversal
<1>3. Met \subseteq Names /\ {name} \subseteq Met
  BY <1>2, RangeOfType DEF Met, PlanTypeOK
<1>4. Closed(Met, InlineSteps(name))
  <2> SUFFICES ASSUME NEW u \in Met PROVE InlineSteps(name)[u] \subseteq Met
    BY DEF Closed
  <2>1. InlineSteps(name)[u] = IF u \in others THEN {} ELSE RangeOf(composition.refs[u])
    BY <1>3 DEF InlineSteps
  <2>2. u \in others \/ u \in seen
    BY <1>2 DEF Met
  <2> QED BY <1>2, <2>1, <2>2
<1>5. Reached(InlineSteps(name), {name}) \subseteq Met
  BY <1>3, <1>4, ReachedLeast
<1> QED BY <1>2, <1>5 DEF Needs, Met

-----------------------------------------------------------------------------
(* What a step leaves alone.                                               *)

LEMMA PlanStays ==
  ASSUME PlanTypeOK, UNCHANGED <<composition, defined>>
  PROVE  /\ DefinedInv => DefinedInv'
         /\ NeedEachOther => NeedEachOther'
         /\ DoneInv /\ order' = order => DoneInv'
         /\ RenderedInv /\ UNCHANGED <<order, subjects>> => RenderedInv'
         /\ StackInv /\ UNCHANGED <<stage, path, rest, order>> => StackInv'
<1>1. /\ Registered' = Registered /\ NeedsOf' = NeedsOf
  BY NeedsStay
<1>2. DefinedInv => DefinedInv'
  BY DEF DefinedInv, Defines, StepsOf
<1>3. NeedEachOther => NeedEachOther'
  <2>1. \A t \in Registered : Needs(t)' = Needs(t)
    BY RefsType, NeedsStay
  <2>2. NeedsRelation' = NeedsRelation
    <3>1. ASSUME NEW t \in Registered
          PROVE  {<<t, u>> : u \in Needs(t)}' = {<<t, u>> : u \in Needs(t)}
      BY <2>1
    <3>2. {{<<t, u>> : u \in Needs(t)}' : t \in Registered}
            = {{<<t, u>> : u \in Needs(t)} : t \in Registered}
      BY <3>1
    <3> QED BY <1>1, <3>2 DEF NeedsRelation
  <2> QED BY <1>1, <2>2, Zenon DEF NeedEachOther
<1>4. DoneInv /\ order' = order => DoneInv'
  BY <1>1 DEF DoneInv
<1>5. RenderedInv /\ UNCHANGED <<order, subjects>> => RenderedInv'
  BY <1>1 DEF RenderedInv, Exact
<1>6. StackInv /\ UNCHANGED <<stage, path, rest, order>> => StackInv'
  BY <1>1 DEF StackInv, Wanted, OnPath
<1> QED BY <1>2, <1>3, <1>4, <1>5, <1>6

-----------------------------------------------------------------------------
(* The actions.                                                            *)

LEMMA PlanInitInv == PlanInit => PlanInv
<1> SUFFICES ASSUME PlanInit PROVE PlanInv
  OBVIOUS
<1>1. /\ composition \in Composition /\ composition.roots \in Seq(Names)
      /\ composition.roots # <<>>
  BY CompositionAssumption DEF PlanInit, Composition
<1>2. /\ rest = <<composition.roots>> /\ rest \in Seq(Seq(Names))
      /\ Len(rest) = 1 /\ DOMAIN rest = {1} /\ rest[1] = composition.roots
  BY <1>1 DEF PlanInit
<1>3. PlanTypeOK
  BY <1>1, <1>2 DEF PlanInit, PlanTypeOK
<1>4. DefinedInv
  BY DEF PlanInit, DefinedInv
<1>5. RangeOf(<<>>) = {} /\ DOMAIN <<>> = {} /\ Len(<<>>) = 0
  BY DEF RangeOf
<1>6. StageInv
  <2>1. 1 \in DOMAIN composition.roots
    BY <1>1
  <2> QED BY <2>1 DEF PlanInit, StageInv
<1>7. StackInv
  BY <1>2, <1>5 DEF StackInv, PlanInit, IsInjective, Wanted
<1>8. DoneInv /\ RenderedInv
  BY <1>5 DEF DoneInv, RenderedInv, PlanInit, IsInjective
<1>9. TraversalInv /\ refusal = "no"
  BY DEF TraversalInv, PlanInit
<1> QED BY <1>3, <1>4, <1>6, <1>7, <1>8, <1>9 DEF PlanInv

LEMMA RefuseInv ==
  ASSUME PlanInv, NEW why, Refuse(why), why = "cycle" => NeedEachOther
  PROVE  PlanInv'
<1>1. PlanTypeOK' /\ stage' = "refused" /\ refusal' = why
  BY DEF PlanInv, PlanTypeOK, Refuse, ordering, traversal
<1>2. DefinedInv' /\ (why = "cycle" => NeedEachOther')
  BY PlanStays DEF PlanInv, Refuse
<1> QED BY <1>1, <1>2 DEF PlanInv

LEMMA ComposeInv ==
  ASSUME PlanInv, Compose
  PROVE  PlanInv'
<1>1. /\ PlanTypeOK /\ DefinedInv /\ refusal = "no" /\ stage = "compose"
      /\ at \in DOMAIN composition.roots /\ at \in Nat /\ subjects = <<>>
      /\ path = <<>> /\ order = <<>> /\ rest = <<composition.roots>>
      /\ composition.roots \in Seq(Names)
  BY RefsType DEF PlanInv, PlanTypeOK, StageInv, Compose
<1>2. /\ UNCHANGED <<composition, refusal, path, rest, order, todo, seen, found, subjects>>
      /\ at' = at + 1
      /\ stage' = IF at = Len(composition.roots) THEN "order" ELSE "compose"
      /\ defined' = [t \in Names |-> IF t \in Defines(composition, at)
                                     THEN defined[t] \cup {at} ELSE defined[t]]
  BY DEF Compose, ordering, traversal
<1>3. PlanTypeOK'
  <2>1. defined' \in [Names -> SUBSET Nat]
    BY <1>1, <1>2 DEF PlanTypeOK
  <2> QED BY <1>1, <1>2, <2>1 DEF PlanTypeOK
<1>4. DefinedInv'
  BY <1>1, <1>2 DEF DefinedInv, PlanTypeOK, Defines, StepsOf
<1>5. StageInv'
  <2>1. at # Len(composition.roots) => at + 1 \in DOMAIN composition.roots
    BY <1>1
  <2> QED BY <1>1, <1>2, <2>1 DEF StageInv
<1>6. RangeOf(<<>>) = {} /\ DOMAIN <<>> = {} /\ Len(<<>>) = 0
  BY DEF RangeOf
<1>7. StackInv'
  <2>1. /\ Len(<<composition.roots>>) = 1 /\ DOMAIN <<composition.roots>> = {1}
        /\ <<composition.roots>>[1] = composition.roots
    OBVIOUS
  <2>2. Wanted(1)' = RangeOf(composition.roots)
    BY <1>2 DEF Wanted
  <2> QED BY <1>1, <1>2, <1>6, <2>1, <2>2 DEF StackInv, IsInjective
<1>8. DoneInv' /\ RenderedInv' /\ TraversalInv'
  BY <1>1, <1>2, <1>6 DEF DoneInv, RenderedInv, TraversalInv, IsInjective
<1> QED BY <1>1, <1>2, <1>3, <1>4, <1>5, <1>7, <1>8 DEF PlanInv

(* The next visit is made or left out.                                     *)
LEMMA Drops ==
  ASSUME PlanTypeOK, NEW name, ToVisit(name), Len(rest) \in Nat \ {0}
  PROVE  LET P == Len(rest) IN
         /\ name \in Names
         /\ Dropped \in Seq(Seq(Names)) /\ DOMAIN Dropped = DOMAIN rest /\ Len(Dropped) = P
         /\ RangeOf(rest[P]) = {name} \cup RangeOf(Dropped[P])
         /\ \A k \in DOMAIN rest \ {P} : Dropped[k] = rest[k]
<1> DEFINE P == Len(rest)
<1>1. rest \in Seq(Seq(Names)) /\ DOMAIN rest = 1..P /\ P \in DOMAIN rest
  BY DEF PlanTypeOK
<1>2. rest[P] \in Seq(Names) /\ rest[P] # <<>> /\ name = Head(rest[P])
  BY <1>1 DEF ToVisit, Left
<1>3. /\ name \in Names /\ Tail(rest[P]) \in Seq(Names)
      /\ RangeOf(rest[P]) = {name} \cup RangeOf(Tail(rest[P]))
  BY <1>2, HeadAndTail
<1>4. Dropped = [rest EXCEPT ![P] = Tail(rest[P])]
  BY <1>1 DEF Dropped
<1>5. Dropped \in Seq(Seq(Names))
  BY <1>1, <1>3, <1>4
<1>6. DOMAIN Dropped = DOMAIN rest /\ Dropped[P] = Tail(rest[P])
      /\ \A k \in DOMAIN rest \ {P} : Dropped[k] = rest[k]
  BY <1>1, <1>4
<1>7. Len(Dropped) = P
  BY <1>1, <1>5, <1>6
<1> QED BY <1>3, <1>5, <1>6, <1>7

LEMMA SkipInv ==
  ASSUME PlanInv, Skip
  PROVE  PlanInv'
<1>1. PICK name \in RangeOf(order) : ToVisit(name) /\ rest' = Dropped
  BY DEF Skip
<1>2. /\ UNCHANGED <<composition, stage, refusal, at, defined, path, order,
                     todo, seen, found, subjects>>
      /\ stage = "order"
  BY <1>1 DEF Skip, ToVisit, traversal
<1>3. /\ PlanTypeOK /\ DefinedInv /\ refusal = "no" /\ StageInv /\ StackInv /\ DoneInv
      /\ TraversalInv /\ RenderedInv /\ path \in Seq(Names)
  BY <1>2 DEF PlanInv, PlanTypeOK
<1>4. Len(rest) = Len(path) + 1 /\ Len(rest) \in Nat \ {0}
  BY <1>2, <1>3 DEF StackInv
<1>5. /\ rest' \in Seq(Seq(Names)) /\ DOMAIN rest' = DOMAIN rest /\ Len(rest') = Len(rest)
      /\ RangeOf(rest[Len(rest)]) = {name} \cup RangeOf(rest'[Len(rest)])
      /\ \A k \in DOMAIN rest \ {Len(rest)} : rest'[k] = rest[k]
  BY <1>1, <1>3, <1>4, Drops
<1>6. PlanTypeOK'
  BY <1>2, <1>3, <1>5 DEF PlanTypeOK
<1>7. DefinedInv' /\ DoneInv' /\ RenderedInv'
  BY <1>2, <1>3, PlanStays
<1>8. StackInv'
  <2>1. Registered' = Registered /\ NeedsOf' = NeedsOf
    BY <1>2, NeedsStay
  <2>2. ASSUME NEW k \in DOMAIN rest
        PROVE  /\ RangeOf(rest'[k]) \subseteq Wanted(k)
               /\ Wanted(k) \subseteq RangeOf(order) \cup RangeOf(rest'[k]) \cup OnPath(k)
    <3>1. /\ RangeOf(rest[k]) \subseteq Wanted(k)
          /\ Wanted(k) \subseteq RangeOf(order) \cup RangeOf(rest[k]) \cup OnPath(k)
      BY <1>3 DEF StackInv
    <3> QED BY <1>1, <1>5, <3>1
  <2> QED BY <1>2, <1>3, <1>5, <2>1, <2>2 DEF StackInv, Wanted, OnPath
<1>9. StageInv' /\ TraversalInv'
  BY <1>2, <1>3 DEF StageInv, TraversalInv
<1> QED BY <1>2, <1>3, <1>6, <1>7, <1>8, <1>9 DEF PlanInv

(* A type that is visited was wanted by the one below it on the path.      *)
LEMMA EnterInv ==
  ASSUME PlanInv, Enter
  PROVE  PlanInv'
<1>1. PICK name \in Names : /\ name \notin RangeOf(order) /\ name \notin RangeOf(path)
                            /\ ToVisit(name) /\ Begin(name)
                            /\ path' = Append(path, name) /\ rest' = Dropped
                            /\ stage' = "look"
                            /\ UNCHANGED <<composition, refusal, at, defined, order, subjects>>
  BY DEF Enter
<1>2. stage = "order"
  BY <1>1 DEF ToVisit
<1>3. /\ PlanTypeOK /\ DefinedInv /\ refusal = "no" /\ StageInv /\ StackInv /\ DoneInv
      /\ RenderedInv /\ path \in Seq(Names) /\ subjects = <<>>
  BY <1>2 DEF PlanInv, PlanTypeOK, StageInv
<1> DEFINE P == Len(rest)
<1>4. P = Len(path) + 1 /\ P \in Nat \ {0} /\ DOMAIN rest = 1..P /\ DOMAIN path = 1..(P - 1)
  BY <1>2, <1>3 DEF StackInv, PlanTypeOK
<1>5. /\ rest' \in Seq(Seq(Names)) /\ DOMAIN rest' = DOMAIN rest /\ Len(rest') = P
      /\ RangeOf(rest[P]) = {name} \cup RangeOf(rest'[P])
      /\ \A k \in DOMAIN rest \ {P} : rest'[k] = rest[k]
  BY <1>1, <1>3, <1>4, Drops
<1>6. /\ path' \in Seq(Names) /\ Len(path') = P /\ DOMAIN path' = 1..P
      /\ path'[P] = name /\ \A k \in 1..(P - 1) : path'[k] = path[k]
      /\ RangeOf(path') = RangeOf(path) \cup {name}
  <2>1. path' \in Seq(Names) /\ Len(path') = P /\ RangeOf(path') = RangeOf(path) \cup {name}
    BY <1>1, <1>3, <1>4, RangeOfAppend
  <2> QED BY <1>1, <1>3, <1>4, <2>1
<1>7. /\ Traversal(name)' /\ todo' \in Seq(Names) /\ seen' \in SUBSET Names
      /\ found' \in Seq(Names)
  BY <1>1, <1>3, TraversalBegins
<1>8. PlanTypeOK'
  BY <1>1, <1>3, <1>5, <1>6, <1>7 DEF PlanTypeOK
<1>9. DefinedInv' /\ DoneInv' /\ RenderedInv'
  BY <1>1, <1>3, PlanStays
<1>10. Registered' = Registered /\ NeedsOf' = NeedsOf
  BY <1>1, NeedsStay
<1>11. \A k \in 1..P : Wanted(k) \subseteq Registered
  <2>1. \A t \in Names : NeedsOf[t] \subseteq Registered
    BY <1>3, RefsType DEF NeedsOf
  <2>2. \A k \in 1..P : k # 1 => k - 1 \in DOMAIN path /\ path[k - 1] \in Names
    BY <1>3, <1>4
  <2> QED BY <2>1, <2>2 DEF Wanted, Registered
<1>12. \A k \in 1..P : Wanted(k)' = Wanted(k)
  <2>1. \A k \in 1..P : k # 1 => k - 1 \in 1..(P - 1)
    BY <1>4
  <2> QED BY <1>1, <1>6, <1>10, <2>1 DEF Wanted
<1>13. ASSUME NEW k \in 1..P
       PROVE  /\ RangeOf(rest'[k]) \subseteq Wanted(k)
              /\ Wanted(k) \subseteq RangeOf(order) \cup RangeOf(rest'[k]) \cup {path'[k]}
  <2>1. /\ RangeOf(rest[k]) \subseteq Wanted(k)
        /\ Wanted(k) \subseteq RangeOf(order) \cup RangeOf(rest[k]) \cup OnPath(k)
    BY <1>3, <1>4 DEF StackInv
  <2>2. CASE k = P
    <3>1. OnPath(k) = {}
      BY <1>4, <2>2 DEF OnPath
    <3> QED BY <1>5, <1>6, <2>1, <2>2, <3>1
  <2>3. CASE k # P
    <3>1. k \in 1..(P - 1) /\ OnPath(k) = {path[k]}
      BY <1>4, <2>3 DEF OnPath
    <3> QED BY <1>4, <1>5, <1>6, <2>1, <2>3, <3>1
  <2> QED BY <2>2, <2>3
<1>14. name \in Wanted(P) /\ P \in 1..P
  <2>1. P \in 1..P
    BY <1>4
  <2>2. RangeOf(rest[P]) \subseteq Wanted(P)
    BY <1>3, <1>4, <2>1 DEF StackInv
  <2> QED BY <1>5, <2>1, <2>2
<1>15. StackInv'
  <2>1. IsInjective(path')
    <3>1. \A k \in 1..(P - 1) : path[k] # name /\ path[k] \in RangeOf(path)
      BY <1>1, <1>4 DEF RangeOf
    <3>2. \A k \in 1..P : k = P \/ k \in 1..(P - 1)
      BY <1>4
    <3>3. IsInjective(path)
      BY <1>3 DEF StackInv
    <3>4. \A k, l \in 1..(P - 1) : path[k] = path[l] => k = l
      BY <1>4, <3>3 DEF IsInjective
    <3> QED BY <1>6, <3>1, <3>2, <3>4 DEF IsInjective
  <2>2. RangeOf(path') \subseteq Registered \ RangeOf(order)
    BY <1>1, <1>3, <1>6, <1>11, <1>14 DEF StackInv
  <2>3. ASSUME NEW k \in 1..P PROVE path'[k] \in Wanted(k)
    <3>1. CASE k = P
      BY <1>6, <1>14, <3>1
    <3>2. CASE k # P
      <4>1. k \in 1..(P - 1)
        BY <1>4, <3>2
      <4>2. path[k] \in Wanted(k)
        BY <1>3, <1>4, <4>1 DEF StackInv
      <4> QED BY <1>6, <4>1, <4>2
    <3> QED BY <3>1, <3>2
  <2>4. path' # <<>>
    BY <1>4, <1>6
  <2>5. \A k \in 1..P : OnPath(k)' = {path'[k]}
    BY <1>6 DEF OnPath
  <2>6. \A k \in DOMAIN path' : path'[k] \in Wanted(k)'
    BY <1>6, <1>12, <2>3
  <2>7. \A k \in DOMAIN rest' :
          /\ RangeOf(rest'[k]) \subseteq Wanted(k)'
          /\ Wanted(k)' \subseteq RangeOf(order) \cup RangeOf(rest'[k]) \cup OnPath(k)'
    BY <1>4, <1>5, <1>12, <1>13, <2>5
  <2> QED BY <1>1, <1>5, <1>6, <1>10, <2>1, <2>2, <2>4, <2>6, <2>7 DEF StackInv
<1>16. StageInv' /\ TraversalInv'
  BY <1>1, <1>3, <1>6, <1>7 DEF StageInv, TraversalInv
<1> QED BY <1>1, <1>3, <1>8, <1>9, <1>15, <1>16 DEF PlanInv

(* From the type that is met again on, the path is a cycle.                *)
LEMMA CloseCycleInv ==
  ASSUME PlanInv, CloseCycle
  PROVE  PlanInv'
<1>1. PICK name \in RangeOf(path) : ToVisit(name) /\ Refuse("cycle")
  BY DEF CloseCycle
<1>2. stage = "order"
  BY <1>1 DEF ToVisit
<1>3. PlanTypeOK /\ StackInv /\ path \in Seq(Names)
  BY <1>2 DEF PlanInv, PlanTypeOK
<1> DEFINE P == Len(path)
<1>4. /\ Len(rest) = P + 1 /\ P \in Nat /\ DOMAIN path = 1..P
      /\ P + 1 \in DOMAIN rest
  BY <1>2, <1>3 DEF StackInv, PlanTypeOK
<1>5. PICK b \in 1..P : path[b] = name
  BY <1>4 DEF RangeOf
<1>6. RangeOf(rest[P + 1]) \subseteq Wanted(P + 1) /\ name \in RangeOf(rest[P + 1])
  <2>1. RangeOf(rest[P + 1]) \subseteq Wanted(P + 1)
    BY <1>3, <1>4 DEF StackInv
  <2>2. Len(rest) \in Nat \ {0} /\ RangeOf(rest[P + 1]) = {name} \cup RangeOf(Dropped[P + 1])
    BY <1>1, <1>3, <1>4, Drops
  <2> QED BY <2>1, <2>2
<1>7. Wanted(P + 1) = NeedsOf[path[P]]
  BY <1>4, <1>5 DEF Wanted
<1> DEFINE S == {path[k] : k \in b..P}
<1>8. b..P \subseteq 1..P /\ b \in b..P
  BY <1>4
<1>9. S \subseteq Registered /\ S # {} /\ Registered \subseteq Names
  <2>1. \A k \in b..P : path[k] \in RangeOf(path)
    BY <1>4, <1>8 DEF RangeOf
  <2>2. RangeOf(path) \subseteq Registered
    BY <1>3 DEF StackInv
  <2> QED BY <1>3, <1>8, <2>1, <2>2, RefsType
<1>10. ASSUME NEW t \in S PROVE \E u \in S : <<t, u>> \in NeedsRelation
  <2>1. PICK k \in b..P : t = path[k]
    OBVIOUS
  <2>2. \E u \in S : u \in NeedsOf[t]
    <3>1. CASE k = P
      BY <1>5, <1>6, <1>7, <1>8, <2>1, <3>1
    <3>2. CASE k # P
      <4>1. k + 1 \in b..P /\ k + 1 \in 1..P /\ k + 1 # 1 /\ (k + 1) - 1 = k
        BY <1>4, <3>2
      <4>2. path[k + 1] \in Wanted(k + 1) /\ Wanted(k + 1) = NeedsOf[path[k]]
        BY <1>3, <1>4, <4>1 DEF StackInv, Wanted
      <4> QED BY <2>1, <4>1, <4>2
    <3> QED BY <3>1, <3>2
  <2> QED BY <1>9, <2>2 DEF NeedsRelation, NeedsOf
<1> HIDE DEF S
<1>11. NeedEachOther
  BY <1>9, <1>10, Zenon DEF NeedEachOther
<1> QED BY <1>1, <1>11, RefuseInv

LEMMA RefuseToComposeInv ==
  ASSUME PlanInv, RefuseToCompose
  PROVE  PlanInv'
<1>1. CASE Refuse("defined differently")
  BY <1>1, RefuseInv
<1>2. CASE Refuse("one record twice")
  BY <1>2, RefuseInv
<1> QED BY <1>1, <1>2 DEF RefuseToCompose

LEMMA FrontAndLast ==
  ASSUME NEW S, NEW s \in Seq(S), s # <<>>
  PROVE  /\ Len(s) \in Nat \ {0} /\ Last(s) = s[Len(s)] /\ Last(s) \in S
         /\ Front(s) \in Seq(S) /\ Len(Front(s)) = Len(s) - 1
         /\ DOMAIN Front(s) = 1..(Len(s) - 1)
         /\ \A k \in 1..(Len(s) - 1) : Front(s)[k] = s[k]
<1>1. Len(s) \in Nat \ {0} /\ Last(s) = s[Len(s)] /\ Last(s) \in S
  BY DEF Last
<1>2. Front(s) = SubSeq(s, 1, Len(s) - 1)
  BY DEF Front
<1>3. \A k \in 1..(Len(s) - 1) : s[k] \in S
  BY <1>1
<1>4. Front(s) = [k \in 1..(Len(s) - 1) |-> s[k]]
  <2>1. SubSeq(s, 1, Len(s) - 1) = [k \in 1..((Len(s) - 1) - 1 + 1) |-> s[k + 1 - 1]]
    OBVIOUS
  <2>2. (Len(s) - 1) - 1 + 1 = Len(s) - 1 /\ \A k \in 1..(Len(s) - 1) : k + 1 - 1 = k
    BY <1>1
  <2> QED BY <1>2, <2>1, <2>2
<1> DEFINE f == [k \in 1..(Len(s) - 1) |-> s[k]]
<1>5. f \in Seq(S) /\ Len(f) = Len(s) - 1 /\ DOMAIN f = 1..(Len(s) - 1)
  <2>1. Len(s) - 1 \in Nat
    BY <1>1
  <2> QED BY <1>3, <2>1
<1> QED BY <1>1, <1>4, <1>5

(* What a type needs is done when its visit ends.                          *)
LEMMA LeaveInv ==
  ASSUME PlanInv, Leave
  PROVE  PlanInv'
<1>1. /\ stage = "order" /\ Left = <<>> /\ path # <<>>
      /\ order' = Append(order, Last(path)) /\ path' = Front(path) /\ rest' = Front(rest)
      /\ UNCHANGED <<composition, stage, refusal, at, defined, todo, seen, found, subjects>>
  BY DEF Leave, traversal
<1>2. /\ PlanTypeOK /\ DefinedInv /\ refusal = "no" /\ StageInv /\ StackInv /\ DoneInv
      /\ RenderedInv /\ subjects = <<>>
      /\ path \in Seq(Names) /\ order \in Seq(Names) /\ rest \in Seq(Seq(Names))
  BY <1>1 DEF PlanInv, PlanTypeOK, StageInv
<1> DEFINE P == Len(path)
           done == path[P]
<1>0. P \in Nat \ {0} /\ DOMAIN path = 1..P
  BY <1>1, <1>2
<1>a. /\ \A k \in 1..P : k = P \/ k \in 1..(P - 1)
      /\ \A k \in 1..(P - 1) : k \in 1..P /\ k # P
      /\ P \in 1..P
  <2>1. \A n \in Nat \ {0} : /\ \A k \in 1..n : k = n \/ k \in 1..(n - 1)
                             /\ \A k \in 1..(n - 1) : k \in 1..n /\ k # n
                             /\ n \in 1..n
    OBVIOUS
  <2> HIDE DEF P
  <2> QED BY <1>0, <2>1, Zenon
<1>3. /\ P \in Nat \ {0} /\ Last(path) = done /\ done \in Names /\ DOMAIN path = 1..P
      /\ path' \in Seq(Names) /\ Len(path') = P - 1 /\ DOMAIN path' = 1..(P - 1)
      /\ \A k \in 1..(P - 1) : path'[k] = path[k]
  BY <1>0, <1>1, <1>2, FrontAndLast
<1>4. /\ Len(rest) = P + 1 /\ DOMAIN rest = 1..(P + 1) /\ rest # <<>>
  BY <1>1, <1>2, <1>3 DEF StackInv
<1>5. /\ rest' \in Seq(Seq(Names)) /\ Len(rest') = P /\ DOMAIN rest' = 1..P
      /\ \A k \in 1..P : rest'[k] = rest[k]
  <2>1. /\ Front(rest) \in Seq(Seq(Names)) /\ Len(Front(rest)) = Len(rest) - 1
        /\ DOMAIN Front(rest) = 1..(Len(rest) - 1)
        /\ \A k \in 1..(Len(rest) - 1) : Front(rest)[k] = rest[k]
    BY <1>2, <1>4, FrontAndLast, Zenon
  <2>2. Len(rest) - 1 = P
    BY <1>3, <1>4
  <2> QED BY <1>1, <2>1, <2>2
<1>6. rest[P + 1] = <<>> /\ RangeOf(rest[P + 1]) = {}
  BY <1>1, <1>4 DEF Left, RangeOf
<1>7. /\ order' \in Seq(Names) /\ Len(order') = Len(order) + 1 /\ Len(order) \in Nat
      /\ RangeOf(order') = RangeOf(order) \cup {done}
      /\ DOMAIN order = 1..Len(order) /\ DOMAIN order' = 1..(Len(order) + 1)
      /\ \A i \in 1..Len(order) : order'[i] = order[i]
      /\ order'[Len(order) + 1] = done
  <2>1. /\ order' \in Seq(Names) /\ Len(order') = Len(order) + 1
        /\ RangeOf(order') = RangeOf(order) \cup {done}
    BY <1>1, <1>2, <1>3, RangeOfAppend
  <2> QED BY <1>1, <1>2, <1>3, <2>1
<1>8. PlanTypeOK'
  BY <1>1, <1>2, <1>3, <1>5, <1>7 DEF PlanTypeOK
<1>9. DefinedInv' /\ Registered' = Registered /\ NeedsOf' = NeedsOf
  BY <1>1, <1>2, PlanStays, NeedsStay
<1>10. done \in Registered /\ done \notin RangeOf(order)
  <2>1. done \in RangeOf(path)
    BY <1>3 DEF RangeOf
  <2> QED BY <1>2, <2>1 DEF StackInv
<1>11. NeedsOf[done] \subseteq RangeOf(order)
  <2>1. P + 1 \in DOMAIN rest /\ (P + 1) - 1 = P /\ P + 1 # 1
    BY <1>3, <1>4
  <2>2. Wanted(P + 1) \subseteq RangeOf(order) \cup RangeOf(rest[P + 1]) \cup OnPath(P + 1)
    BY <1>2, <2>1 DEF StackInv
  <2>3. OnPath(P + 1) = {}
    BY <1>3 DEF OnPath
  <2>4. Wanted(P + 1) = NeedsOf[done]
    BY <2>1 DEF Wanted
  <2> QED BY <1>6, <2>2, <2>3, <2>4
<1> HIDE DEF done
<1>12. DoneInv'
  <2>1. /\ \A i, j \in 1..Len(order) : order[i] = order[j] => i = j
        /\ RangeOf(order) \subseteq Registered
        /\ \A i \in 1..Len(order) : NeedsOf[order[i]] \subseteq {order[j] : j \in 1..(i - 1)}
    BY <1>2, <1>7 DEF DoneInv, IsInjective
  <2>2. \A i \in 1..Len(order) : order[i] # done
    BY <1>7, <1>10 DEF RangeOf
  <2>3. \A i \in 1..(Len(order) + 1) : i \in 1..Len(order) \/ i = Len(order) + 1
    BY <1>7
  <2>4. IsInjective(order')
    BY <1>7, <2>1, <2>2, <2>3 DEF IsInjective
  <2>5. ASSUME NEW i \in 1..Len(order)
        PROVE  NeedsOf[order'[i]] \subseteq {order'[j] : j \in 1..(i - 1)}
    <3>1. \A j \in 1..(i - 1) : j \in 1..Len(order)
      BY <1>7
    <3>2. NeedsOf[order[i]] \subseteq {order[j] : j \in 1..(i - 1)}
      BY <2>1
    <3> QED BY <1>7, <3>1, <3>2
  <2>6. NeedsOf[done] \subseteq {order'[j] : j \in 1..((Len(order) + 1) - 1)}
    <3>1. (Len(order) + 1) - 1 = Len(order)
      BY <1>7
    <3> QED BY <1>7, <1>11, <3>1 DEF RangeOf
  <2>7. \A i \in DOMAIN order' : NeedsOf[order'[i]] \subseteq {order'[j] : j \in 1..(i - 1)}
    BY <1>7, <2>3, <2>5, <2>6
  <2>8. RangeOf(order') \subseteq Registered
    BY <1>7, <1>10, <2>1
  <2> QED BY <1>9, <2>4, <2>7, <2>8 DEF DoneInv
<1>13. StackInv'
  <2>1. IsInjective(path')
    <3>1. \A k, l \in 1..P : path[k] = path[l] => k = l
      BY <1>0, <1>2 DEF StackInv, IsInjective
    <3>2. \A k \in 1..(P - 1) : k \in 1..P
      BY <1>0
    <3> QED BY <1>3, <3>1, <3>2 DEF IsInjective
  <2>2. RangeOf(path') \subseteq Registered \ RangeOf(order')
    <3>1. ASSUME NEW k \in 1..(P - 1) PROVE path[k] \in RangeOf(path) /\ path[k] # done
      <4>1. k \in 1..P /\ P \in 1..P /\ k # P
        BY <1>a
      <4> QED BY <1>2, <1>3, <4>1 DEF StackInv, IsInjective, RangeOf, done
    <3>2. RangeOf(path) \subseteq Registered \ RangeOf(order)
      BY <1>2 DEF StackInv
    <3>3. \A x \in RangeOf(path') : \E k \in 1..(P - 1) : x = path[k]
      BY <1>3 DEF RangeOf
    <3> QED BY <1>7, <3>1, <3>2, <3>3
  <2>3. \A k \in 1..P : Wanted(k)' = Wanted(k)
    <3>1. \A k \in 1..P : k # 1 => k - 1 \in 1..(P - 1)
      BY <1>3
    <3> QED BY <1>1, <1>3, <1>9, <3>1 DEF Wanted
  <2>4. \A k \in DOMAIN path' : path'[k] \in Wanted(k)'
    <3>1. \A k \in 1..(P - 1) : k \in 1..P
      BY <1>3
    <3>2. \A k \in 1..P : path[k] \in Wanted(k)
      BY <1>2, <1>3 DEF StackInv
    <3> QED BY <1>3, <2>3, <3>1, <3>2
  <2>5. ASSUME NEW k \in 1..P
        PROVE  /\ RangeOf(rest'[k]) \subseteq Wanted(k)
               /\ Wanted(k) \subseteq RangeOf(order') \cup RangeOf(rest'[k]) \cup OnPath(k)'
    <3>1. k \in DOMAIN rest
      BY <1>3, <1>4
    <3>2. /\ RangeOf(rest[k]) \subseteq Wanted(k)
          /\ Wanted(k) \subseteq RangeOf(order) \cup RangeOf(rest[k]) \cup OnPath(k)
      BY <1>2, <3>1 DEF StackInv
    <3>3. OnPath(k) \subseteq OnPath(k)' \cup {done}
      <4>1. k = P \/ k \in 1..(P - 1)
        BY <1>a
      <4> QED BY <1>3, <4>1 DEF OnPath, done
    <3> QED BY <1>5, <1>7, <3>2, <3>3
  <2>6. \A k \in DOMAIN rest' :
          /\ RangeOf(rest'[k]) \subseteq Wanted(k)'
          /\ Wanted(k)' \subseteq RangeOf(order') \cup RangeOf(rest'[k]) \cup OnPath(k)'
    BY <1>5, <2>3, <2>5
  <2>7. Len(rest') = Len(path') + 1
    BY <1>3, <1>5
  <2> QED BY <1>1, <1>9, <2>1, <2>2, <2>4, <2>6, <2>7 DEF StackInv
<1>14. StageInv' /\ TraversalInv' /\ RenderedInv'
  BY <1>1, <1>2 DEF StageInv, TraversalInv, RenderedInv
<1> QED BY <1>1, <1>2, <1>8, <1>9, <1>12, <1>13, <1>14 DEF PlanInv

LEMMA LookInv ==
  ASSUME PlanInv, Look
  PROVE  PlanInv'
<1>1. /\ stage = "look" /\ todo # <<>>
      /\ UNCHANGED <<composition, stage, refusal, at, defined, path, rest, order, subjects>>
  BY DEF Look, ordering
<1>2. /\ PlanTypeOK /\ DefinedInv /\ refusal = "no" /\ StageInv /\ StackInv /\ DoneInv
      /\ TraversalInv /\ RenderedInv
  BY <1>1 DEF PlanInv
<1>3. PICK t : t = Head(todo)
  OBVIOUS
<1>4. /\ t \in Names /\ seen' = seen \cup {t}
      /\ found' = IF t \in Registered \ seen THEN Append(found, t) ELSE found
      /\ todo' = IF t \in Registered \cup seen THEN Tail(todo)
                 ELSE composition.refs[t] \o Tail(todo)
  BY <1>1, <1>2, <1>3, HeadAndTail DEF Look, PlanTypeOK
<1>5. PICK name \in Names : name = path[Len(path)]
  BY <1>1, <1>2 DEF StackInv, PlanTypeOK
<1>6. Traversal(name)
  BY <1>1, <1>2, <1>5 DEF TraversalInv
<1>7. /\ name \in seen /\ seen \cap (Registered \ {name}) \subseteq RangeOf(found)
      /\ found \in Seq(Names)
  BY <1>2, <1>6 DEF Traversal, PlanTypeOK
<1>8. /\ Append(found, t) \in Seq(Names)
      /\ RangeOf(Append(found, t)) = RangeOf(found) \cup {t}
  BY <1>4, <1>7, RangeOfAppend
<1>9. Follows(name)
  <2>1. found' \in Seq(Names)
    BY <1>4, <1>7, <1>8
  <2>2. RangeOf(found') = IF t \in Registered \ {name} THEN RangeOf(found) \cup {t}
                          ELSE RangeOf(found)
    BY <1>4, <1>7, <1>8
  <2>3. todo' = IF t \in Registered \ {name} \/ t \in seen THEN Tail(todo)
                ELSE composition.refs[t] \o Tail(todo)
    BY <1>4, <1>7
  <2> QED BY <1>1, <1>3, <1>4, <2>1, <2>2, <2>3 DEF Follows
<1>10. /\ Traversal(name)' /\ todo' \in Seq(Names) /\ seen' \in SUBSET Names
       /\ found' \in Seq(Names)
  BY <1>1, <1>2, <1>6, <1>9, TraversalGoesOn
<1>11. PlanTypeOK'
  BY <1>1, <1>2, <1>10 DEF PlanTypeOK
<1>12. DefinedInv' /\ DoneInv' /\ RenderedInv' /\ StackInv'
  BY <1>1, <1>2, PlanStays
<1>13. StageInv' /\ TraversalInv'
  BY <1>1, <1>2, <1>5, <1>10 DEF StageInv, TraversalInv
<1> QED BY <1>1, <1>2, <1>11, <1>12, <1>13 DEF PlanInv

(* What it has found is what the type needs: it is left to visit.          *)
LEMMA LookedInv ==
  ASSUME PlanInv, Looked
  PROVE  PlanInv'
<1>1. /\ stage = "look" /\ todo = <<>> /\ stage' = "order" /\ rest' = Append(rest, found)
      /\ UNCHANGED <<composition, refusal, at, defined, path, order, todo, seen, found, subjects>>
  BY DEF Looked, traversal
<1>2. /\ PlanTypeOK /\ DefinedInv /\ refusal = "no" /\ StageInv /\ StackInv /\ DoneInv
      /\ TraversalInv /\ RenderedInv
      /\ rest \in Seq(Seq(Names)) /\ found \in Seq(Names) /\ path \in Seq(Names)
  BY <1>1 DEF PlanInv, PlanTypeOK
<1> DEFINE P == Len(path)
<1>3. P \in Nat \ {0} /\ Len(rest) = P /\ DOMAIN path = 1..P
  BY <1>1, <1>2 DEF StackInv
<1>4. PICK name \in Names : name = path[P]
  BY <1>2, <1>3
<1>5. RangeOf(found) = NeedsOf[name]
  <2>1. Traversal(name)
    BY <1>1, <1>2, <1>4 DEF TraversalInv
  <2> QED BY <1>1, <1>2, <2>1, TraversalEnds DEF NeedsOf
<1>6. /\ rest' \in Seq(Seq(Names)) /\ Len(rest') = P + 1 /\ DOMAIN rest' = 1..(P + 1)
      /\ \A k \in 1..P : rest'[k] = rest[k]
      /\ rest'[P + 1] = found
  BY <1>1, <1>2, <1>3
<1>7. PlanTypeOK'
  BY <1>1, <1>2, <1>6 DEF PlanTypeOK
<1>8. DefinedInv' /\ DoneInv' /\ RenderedInv' /\ Registered' = Registered /\ NeedsOf' = NeedsOf
  BY <1>1, <1>2, PlanStays, NeedsStay
<1>9. StackInv'
  <2>1. \A k : Wanted(k)' = Wanted(k) /\ OnPath(k)' = OnPath(k)
    BY <1>1, <1>8 DEF Wanted, OnPath
  <2>2. Wanted(P + 1) = NeedsOf[name]
    BY <1>3, <1>4 DEF Wanted
  <2>3. ASSUME NEW k \in 1..(P + 1)
        PROVE  /\ RangeOf(rest'[k]) \subseteq Wanted(k)
               /\ Wanted(k) \subseteq RangeOf(order) \cup RangeOf(rest'[k]) \cup OnPath(k)
    <3>1. CASE k = P + 1
      BY <1>5, <1>6, <2>2, <3>1
    <3>2. CASE k # P + 1
      <4>1. k \in 1..P /\ k \in DOMAIN rest
        BY <1>2, <1>3, <3>2
      <4>2. /\ RangeOf(rest[k]) \subseteq Wanted(k)
            /\ Wanted(k) \subseteq RangeOf(order) \cup RangeOf(rest[k]) \cup OnPath(k)
        BY <1>2, <4>1 DEF StackInv
      <4> QED BY <1>6, <4>1, <4>2
    <3> QED BY <3>1, <3>2
  <2>4. \A k \in DOMAIN rest' :
          /\ RangeOf(rest'[k]) \subseteq Wanted(k)'
          /\ Wanted(k)' \subseteq RangeOf(order) \cup RangeOf(rest'[k]) \cup OnPath(k)'
    BY <1>6, <2>1, <2>3
  <2>5. \A k \in DOMAIN path : path[k] \in Wanted(k)'
    BY <1>2, <2>1 DEF StackInv
  <2>6. /\ IsInjective(path) /\ RangeOf(path) \subseteq Registered \ RangeOf(order)
    BY <1>2 DEF StackInv
  <2> QED BY <1>1, <1>6, <1>8, <2>4, <2>5, <2>6 DEF StackInv
<1>10. StageInv' /\ TraversalInv'
  BY <1>1, <1>2 DEF StageInv, TraversalInv
<1> QED BY <1>1, <1>2, <1>7, <1>8, <1>9, <1>10 DEF PlanInv

(* All is visited: the branches are among what is done.                    *)
LEMMA OrderedInv ==
  ASSUME PlanInv, Ordered
  PROVE  PlanInv'
<1>1. /\ stage = "order" /\ Left = <<>> /\ path = <<>> /\ stage' = "render" /\ at' = 1
      /\ Begin(order[1])
      /\ UNCHANGED <<composition, refusal, defined, path, rest, order, subjects>>
  BY DEF Ordered, ordering
<1>2. /\ PlanTypeOK /\ DefinedInv /\ refusal = "no" /\ StageInv /\ StackInv /\ DoneInv
      /\ RenderedInv /\ subjects = <<>> /\ rest \in Seq(Seq(Names)) /\ order \in Seq(Names)
  BY <1>1 DEF PlanInv, PlanTypeOK, StageInv
<1>3. Len(rest) = 1 /\ rest[1] = <<>> /\ DOMAIN rest = {1}
  BY <1>1, <1>2 DEF StackInv, Left
<1>4. rest = <<<<>>>>
  BY <1>2, <1>3
<1>5. order # <<>>
  <2>1. RangeOf(composition.roots) \subseteq RangeOf(order)
    <3>1. RangeOf(<<>>) = {} /\ OnPath(1) = {}
      BY <1>1 DEF RangeOf, OnPath
    <3> QED BY <1>2, <1>3, <3>1 DEF StackInv, Wanted
  <2>2. composition.roots[1] \in RangeOf(composition.roots)
    BY <1>2, RefsType DEF RangeOf
  <2>3. RangeOf(<<>>) = {}
    BY DEF RangeOf
  <2> QED BY <2>1, <2>2, <2>3
<1>6. PICK name \in Names : name = order[1]
  BY <1>2, <1>5
<1>7. 1 \in DOMAIN order /\ Len(subjects) = 1 - 1
  BY <1>2, <1>5
<1>8. Begin(name)
  BY <1>1, <1>6 DEF Begin
<1>9. /\ Traversal(name)' /\ todo' \in Seq(Names) /\ seen' \in SUBSET Names
      /\ found' \in Seq(Names) /\ seen' = {name}
  BY <1>1, <1>2, <1>8, TraversalBegins
<1>10. PlanTypeOK'
  BY <1>1, <1>2, <1>9 DEF PlanTypeOK
<1>11. DefinedInv' /\ DoneInv' /\ RenderedInv' /\ Registered' = Registered
  BY <1>1, <1>2, PlanStays, NeedsStay
<1>12. StackInv'
  <2>1. NeedsOf' = NeedsOf
    BY <1>1, NeedsStay
  <2>2. \A k : Wanted(k)' = Wanted(k) /\ OnPath(k)' = OnPath(k)
    BY <1>1, <2>1 DEF Wanted, OnPath
  <2> QED BY <1>1, <1>2, <1>11, <2>2 DEF StackInv
<1>13. StageInv'
  BY <1>1, <1>2, <1>4, <1>7 DEF StageInv
<1>14. name \in Registered
  BY <1>2, <1>6, <1>7 DEF DoneInv, RangeOf
<1>15. TraversalInv'
  BY <1>1, <1>6, <1>9, <1>11, <1>14 DEF TraversalInv
<1> QED BY <1>1, <1>2, <1>10, <1>11, <1>12, <1>13, <1>15 DEF PlanInv

LEMMA RefInv ==
  ASSUME PlanInv, Ref
  PROVE  PlanInv'
<1>1. /\ stage = "render" /\ todo # <<>>
      /\ UNCHANGED <<composition, stage, refusal, at, defined, path, rest, order, subjects>>
  BY DEF Ref, ordering
<1>2. /\ PlanTypeOK /\ DefinedInv /\ refusal = "no" /\ StageInv /\ StackInv /\ DoneInv
      /\ TraversalInv /\ RenderedInv /\ at \in DOMAIN order /\ found \in Seq(Names)
      /\ order \in Seq(Names)
  BY <1>1 DEF PlanInv, PlanTypeOK, StageInv
<1>3. PICK t : t = Head(todo)
  OBVIOUS
<1>4. PICK name \in Names : name = order[at]
  BY <1>2
<1> DEFINE other == t # name /\ t \in Registered
<1>5. /\ t \in Names /\ seen' = IF other THEN seen ELSE seen \cup {t}
      /\ found' = IF other /\ t \notin RangeOf(found) THEN Append(found, t) ELSE found
      /\ todo' = IF other \/ t \in seen THEN Tail(todo)
                 ELSE composition.refs[t] \o Tail(todo)
  BY <1>1, <1>2, <1>3, <1>4, HeadAndTail DEF Ref, PlanTypeOK
<1>6. Traversal(name) /\ seen \cap Registered = {name}
  BY <1>1, <1>2, <1>4 DEF TraversalInv
<1>7. /\ Append(found, t) \in Seq(Names)
      /\ RangeOf(Append(found, t)) = RangeOf(found) \cup {t}
  BY <1>2, <1>5, RangeOfAppend
<1>8. Follows(name)
  <2>1. found' \in Seq(Names)
    BY <1>2, <1>5, <1>7
  <2>2. RangeOf(found') = IF t \in Registered \ {name} THEN RangeOf(found) \cup {t}
                          ELSE RangeOf(found)
    BY <1>5, <1>7
  <2>3. todo' = IF t \in Registered \ {name} \/ t \in seen THEN Tail(todo)
                ELSE composition.refs[t] \o Tail(todo)
    BY <1>5
  <2>4. /\ seen \subseteq seen' /\ seen' \subseteq seen \cup {t}
        /\ t \notin Registered \ {name} => t \in seen'
    BY <1>5
  <2> HIDE DEF other
  <2> QED BY <1>1, <1>3, <2>1, <2>2, <2>3, <2>4 DEF Follows
<1>9. /\ Traversal(name)' /\ todo' \in Seq(Names) /\ seen' \in SUBSET Names
      /\ found' \in Seq(Names)
  BY <1>1, <1>2, <1>6, <1>8, TraversalGoesOn
<1>10. seen' \cap Registered = {name}
  BY <1>5, <1>6
<1>11. PlanTypeOK'
  BY <1>1, <1>2, <1>9 DEF PlanTypeOK
<1>12. DefinedInv' /\ DoneInv' /\ RenderedInv' /\ StackInv' /\ Registered' = Registered
  BY <1>1, <1>2, PlanStays, NeedsStay
<1>13. StageInv' /\ TraversalInv'
  BY <1>1, <1>2, <1>4, <1>9, <1>10, <1>12 DEF StageInv, TraversalInv
<1> QED BY <1>1, <1>2, <1>11, <1>12, <1>13 DEF PlanInv

(* A subject is rendered with exactly what its type needs.                 *)
LEMMA RenderedSubject ==
  ASSUME PlanInv, Rendered
  PROVE  /\ subjects' \in Seq(SubjectRecord) /\ Len(subjects') = at
         /\ RenderedInv' /\ at \in DOMAIN order
<1>1. /\ stage = "render" /\ todo = <<>>
      /\ subjects' = Append(subjects, [name |-> order[at], refs |-> found, inline |-> seen])
      /\ UNCHANGED <<composition, defined, order>>
  BY DEF Rendered, ordering
<1>2. /\ PlanTypeOK /\ StageInv /\ TraversalInv /\ RenderedInv
      /\ at \in DOMAIN order /\ Len(subjects) = at - 1
      /\ found \in Seq(Names) /\ seen \in SUBSET Names /\ order \in Seq(Names)
      /\ subjects \in Seq(SubjectRecord)
  BY <1>1 DEF PlanInv, PlanTypeOK, StageInv
<1>3. PICK name \in Names : name = order[at]
  BY <1>2
<1> DEFINE new == [name |-> name, refs |-> found, inline |-> seen]
<1>4. Traversal(name) /\ seen \cap Registered = {name}
  BY <1>1, <1>2, <1>3 DEF TraversalInv
<1>5. RangeOf(found) = NeedsOf[name]
  BY <1>1, <1>2, <1>4, TraversalEnds DEF NeedsOf
<1>6. /\ new \in SubjectRecord /\ new.name = name /\ new.refs = found /\ new.inline = seen
  BY <1>2 DEF SubjectRecord
<1>7. subjects' = Append(subjects, new)
  BY <1>1, <1>3
<1> HIDE DEF new
<1>8. /\ subjects' \in Seq(SubjectRecord) /\ Len(subjects') = at
      /\ DOMAIN subjects' = 1..at /\ DOMAIN subjects = 1..(at - 1)
      /\ \A i \in 1..(at - 1) : subjects'[i] = subjects[i]
      /\ subjects'[at] = new
  <2>1. at \in Nat \ {0}
    BY <1>2 DEF PlanTypeOK
  <2>2. Append(subjects, new) \in Seq(SubjectRecord) /\ Len(Append(subjects, new)) = Len(subjects) + 1
    BY <1>2, <1>6, RangeOfAppend
  <2> QED BY <1>2, <1>6, <1>7, <2>1, <2>2
<1>9. Registered' = Registered /\ NeedsOf' = NeedsOf
  BY <1>1, NeedsStay
<1>10. RenderedInv'
  <2> SUFFICES ASSUME NEW i \in 1..at
               PROVE  /\ i \in DOMAIN order
                      /\ subjects'[i].name = order[i]
                      /\ RangeOf(subjects'[i].refs) = NeedsOf[order[i]]
                      /\ subjects'[i].inline \cap Registered = {order[i]}
    BY <1>1, <1>8, <1>9 DEF RenderedInv, Exact
  <2>1. CASE i = at
    BY <1>2, <1>3, <1>4, <1>5, <1>6, <1>8, <2>1
  <2>2. CASE i # at
    <3>1. i \in 1..(at - 1)
      BY <1>2, <2>2
    <3> QED BY <1>2, <1>8, <3>1 DEF RenderedInv, Exact
  <2> QED BY <2>1, <2>2
<1> QED BY <1>2, <1>8, <1>10

LEMMA RenderedStepInv ==
  ASSUME PlanInv, Rendered
  PROVE  PlanInv'
<1>1. /\ stage = "render" /\ todo = <<>>
      /\ UNCHANGED <<composition, refusal, defined, path, rest, order>>
  BY DEF Rendered, ordering
<1>2. /\ PlanTypeOK /\ DefinedInv /\ refusal = "no" /\ StageInv /\ StackInv /\ DoneInv
      /\ at \in DOMAIN order /\ order \in Seq(Names)
      /\ path = <<>> /\ rest = <<<<>>>>
  BY <1>1 DEF PlanInv, PlanTypeOK, StageInv
<1>3. subjects' \in Seq(SubjectRecord) /\ Len(subjects') = at /\ RenderedInv'
  BY RenderedSubject
<1>4. DefinedInv' /\ DoneInv' /\ Registered' = Registered /\ NeedsOf' = NeedsOf
  BY <1>1, <1>2, PlanStays, NeedsStay
<1>5. stage' \in {"render", "planned"} => StackInv'
  <2>1. \A k : Wanted(k)' = Wanted(k) /\ OnPath(k)' = OnPath(k)
    BY <1>1, <1>4 DEF Wanted, OnPath
  <2> QED BY <1>1, <1>2, <1>4, <2>1 DEF StackInv
<1>6. CASE at = Len(order)
  <2>1. stage' = "planned" /\ UNCHANGED <<at, todo, seen, found>>
    BY <1>6 DEF Rendered, traversal
  <2>2. PlanTypeOK'
    BY <1>1, <1>2, <1>3, <2>1 DEF PlanTypeOK
  <2>3. StageInv' /\ TraversalInv'
    BY <1>1, <1>2, <1>3, <1>6, <2>1 DEF StageInv, TraversalInv
  <2> QED BY <1>1, <1>2, <1>3, <1>4, <1>5, <2>1, <2>2, <2>3 DEF PlanInv
<1>7. CASE at # Len(order)
  <2>1. /\ at' = at + 1 /\ stage' = "render"
        /\ todo' = composition.refs[order[at + 1]] /\ seen' = {order[at + 1]} /\ found' = <<>>
    BY <1>1, <1>7 DEF Rendered, Begin
  <2>2. at + 1 \in DOMAIN order /\ at + 1 \in Nat \ {0}
    BY <1>2, <1>7
  <2>3. PICK name \in Names : name = order[at + 1]
    BY <1>2, <2>2
  <2>4. /\ Traversal(name)' /\ todo' \in Seq(Names) /\ seen' \in SUBSET Names
        /\ found' \in Seq(Names) /\ seen' = {name}
    <3>1. Begin(name)
      BY <2>1, <2>3 DEF Begin
    <3> QED BY <1>1, <1>2, <3>1, TraversalBegins
  <2>5. PlanTypeOK'
    BY <1>1, <1>2, <1>3, <2>1, <2>2, <2>4 DEF PlanTypeOK
  <2>6. name \in Registered
    BY <1>2, <2>2, <2>3 DEF DoneInv, RangeOf
  <2>7. TraversalInv'
    BY <1>1, <1>4, <2>1, <2>3, <2>4, <2>6 DEF TraversalInv
  <2>8. StageInv'
    <3>1. Len(subjects') = at' - 1
      BY <1>2, <1>3, <2>1
    <3> QED BY <1>1, <1>2, <2>1, <2>2, <3>1 DEF StageInv
  <2> QED BY <1>1, <1>2, <1>3, <1>4, <1>5, <2>1, <2>5, <2>7, <2>8 DEF PlanInv
<1> QED BY <1>6, <1>7

LEMMA PlanStutterInv ==
  ASSUME PlanInv, UNCHANGED planVars
  PROVE  PlanInv'
<1>1. UNCHANGED <<composition, stage, refusal, at, defined, path, rest, order,
                  todo, seen, found, subjects>>
  BY DEF planVars, ordering, traversal
<1>2. Registered' = Registered /\ \A name \in Names : InlineSteps(name)' = InlineSteps(name)
  BY <1>1, NeedsStay
<1>3. PlanTypeOK' /\ (StageInv => StageInv')
  BY <1>1 DEF PlanInv, PlanTypeOK, StageInv
<1>4. \A name \in Names : Traversal(name) => Traversal(name)'
  BY <1>1, <1>2 DEF Traversal, Met
<1>5. TraversalInv => TraversalInv'
  BY <1>1, <1>2, <1>4 DEF TraversalInv
<1>6. /\ DefinedInv' /\ (NeedEachOther => NeedEachOther') /\ (DoneInv => DoneInv')
      /\ (RenderedInv => RenderedInv') /\ (StackInv => StackInv')
  BY <1>1, PlanStays DEF PlanInv
<1> QED BY <1>1, <1>3, <1>5, <1>6 DEF PlanInv

LEMMA PlanStep ==
  ASSUME PlanInv, [PlanNext]_planVars
  PROVE  PlanInv'
<1>1. CASE Compose BY <1>1, ComposeInv
<1>2. CASE RefuseToCompose BY <1>2, RefuseToComposeInv
<1>3. CASE Skip BY <1>3, SkipInv
<1>4. CASE Enter BY <1>4, EnterInv
<1>5. CASE CloseCycle BY <1>5, CloseCycleInv
<1>6. CASE Leave BY <1>6, LeaveInv
<1>7. CASE Look BY <1>7, LookInv
<1>8. CASE Looked BY <1>8, LookedInv
<1>9. CASE Ordered BY <1>9, OrderedInv
<1>10. CASE Ref BY <1>10, RefInv
<1>11. CASE Rendered BY <1>11, RenderedStepInv
<1>12. CASE UNCHANGED planVars BY <1>12, PlanStutterInv
<1> QED BY <1>1, <1>2, <1>3, <1>4, <1>5, <1>6, <1>7, <1>8, <1>9, <1>10, <1>11, <1>12
        DEF PlanNext

-----------------------------------------------------------------------------
(* The theorems.                                                           *)

(* planUnion's recursion stays as the inductive invariant describes it:    *)
(* the call stack of visit is a path of needs, what is done stands after   *)
(* all it needs, and a traversal has met what it found and no more.        *)
THEOREM PlanInvariant == PlanSpec => []PlanInv
<1>1. PlanInit => PlanInv
  BY PlanInitInv
<1>2. PlanInv /\ [PlanNext]_planVars => PlanInv'
  BY PlanStep
<1> QED BY <1>1, <1>2, PTL DEF PlanSpec

(* A registered type is reached from a branch through registered types,    *)
(* each in the order: none is left out.                                    *)
LEMMA NoneLeftOut ==
  ASSUME PlanInv, stage = "planned"
  PROVE  RangeOf(order) = Registered
<1>1. /\ PlanTypeOK /\ DefinedInv /\ StageInv /\ StackInv /\ DoneInv /\ order \in Seq(Names)
      /\ path = <<>> /\ rest = <<<<>>>>
  BY DEF PlanInv, PlanTypeOK, StageInv
<1>2. RangeOf(order) \subseteq Registered /\ RangeOf(order) \subseteq Names
  BY <1>1, RefsType DEF DoneInv
<1>3. \A o \in RangeOf(order) : Needs(o) \subseteq RangeOf(order)
  <2> SUFFICES ASSUME NEW o \in RangeOf(order) PROVE Needs(o) \subseteq RangeOf(order)
    OBVIOUS
  <2>1. PICK i \in DOMAIN order : order[i] = o
    BY DEF RangeOf
  <2>2. NeedsOf[o] \subseteq {order[j] : j \in 1..(i - 1)}
    BY <1>1, <2>1 DEF DoneInv
  <2>3. \A j \in 1..(i - 1) : j \in DOMAIN order
    BY <1>1, <2>1
  <2>4. NeedsOf[o] \subseteq RangeOf(order)
    BY <2>2, <2>3 DEF RangeOf
  <2> QED BY <1>2, <2>4 DEF NeedsOf
<1>4. RangeOf(composition.roots) \subseteq RangeOf(order)
  <2>1. 1 \in DOMAIN rest /\ rest[1] = <<>> /\ RangeOf(<<>>) = {} /\ OnPath(1) = {}
    BY <1>1 DEF RangeOf, OnPath
  <2>2. Wanted(1) \subseteq RangeOf(order) \cup RangeOf(rest[1]) \cup OnPath(1)
    BY <1>1, <2>1 DEF StackInv
  <2> QED BY <2>1, <2>2 DEF Wanted
<1> DEFINE Inside(o) == Reached(InlineSteps(o), {o})
           S == {u \in Names : \E o \in RangeOf(order) : u \in Inside(o)}
<1>5. \A o \in RangeOf(order) : o \in Inside(o) /\ Inside(o) \subseteq Names
  BY <1>2, ReachedHas
<1>6. \A o \in RangeOf(order) : \A u \in Inside(o) :
        InlineSteps(o)[u] \subseteq Inside(o)
  <2> SUFFICES ASSUME NEW o \in RangeOf(order), NEW u \in Inside(o)
               PROVE  InlineSteps(o)[u] \subseteq Inside(o)
    OBVIOUS
  <2>1. o \in Names /\ u \in Names
    BY <1>2, <1>5
  <2>2. InlineSteps(o)[u] \subseteq Names
    BY <1>1, <2>1, RefsType
  <2> QED BY <2>1, <2>2, ReachedHas
<1>7. \A o \in RangeOf(order) : \A u \in Names :
        InlineSteps(o)[u] = IF u \in Registered \ {o} THEN {} ELSE RangeOf(composition.refs[u])
  BY DEF InlineSteps
<1>8. \A o \in RangeOf(order) : \A u \in Inside(o) :
        u \in Registered \ {o} => u \in RangeOf(order)
  BY <1>3 DEF Needs
<1> HIDE DEF Inside
<1>9. Closed(S, StepsOf(composition))
  <2> SUFFICES ASSUME NEW u \in S PROVE RangeOf(composition.refs[u]) \subseteq S
    BY DEF Closed, StepsOf
  <2>1. PICK o \in RangeOf(order) : u \in Inside(o) /\ u \in Names
    OBVIOUS
  <2>2. RangeOf(composition.refs[u]) \subseteq Names
    BY <1>1, <2>1, RefsType
  <2>3. CASE u \notin Registered \ {o}
    BY <1>6, <1>7, <2>1, <2>2, <2>3
  <2>4. CASE u \in Registered \ {o}
    <3>1. u \in RangeOf(order) /\ u \in Inside(u)
      BY <1>5, <1>8, <2>1, <2>4
    <3>2. InlineSteps(u)[u] = RangeOf(composition.refs[u])
      BY <1>7, <2>1, <3>1
    <3> QED BY <1>6, <2>2, <3>1, <3>2
  <2> QED BY <2>3, <2>4
<1>10. ASSUME NEW t \in Registered PROVE t \in RangeOf(order)
  <2>1. CASE t \in RangeOf(composition.roots)
    BY <1>4, <2>1
  <2>2. CASE t \notin RangeOf(composition.roots)
    <3>1. PICK i : i \in defined[t] /\ t \in Names
      BY <2>2 DEF Registered
    <3>2. i \in DOMAIN composition.roots /\ t \in Defines(composition, i)
      BY <1>1, <3>1 DEF DefinedInv
    <3>3. composition.roots[i] \in RangeOf(order)
      BY <1>4, <3>2 DEF RangeOf
    <3>4. composition.roots[i] \in S
      BY <1>2, <1>5, <3>3
    <3>5. t \in S
      <4>1. S \in SUBSET Names /\ {composition.roots[i]} \subseteq S
        BY <3>4
      <4> HIDE DEF S
      <4>2. Reached(StepsOf(composition), {composition.roots[i]}) \subseteq S
        BY <1>9, <4>1, ReachedLeast
      <4> QED BY <3>2, <4>2 DEF Defines
    <3>6. PICK o \in RangeOf(order) : t \in Inside(o)
      BY <3>5
    <3> QED BY <1>8, <3>6
  <2> QED BY <2>1, <2>2
<1> QED BY <1>2, <1>10

(* A plan's subjects register once each, after all they need, and nothing  *)
(* that is shared is left out.                                             *)
THEOREM OrderCorrect == PlanSpec => []OrderedByNeed
<1>1. PlanInv => OrderedByNeed
  <2> SUFFICES ASSUME PlanInv, stage = "planned" PROVE OrderedByNeed
    BY DEF OrderedByNeed
  <2>1. DoneInv /\ order \in Seq(Names)
    BY DEF PlanInv, PlanTypeOK
  <2>2. \A i \in DOMAIN order : order[i] \in Names /\ NeedsOf[order[i]] = Needs(order[i])
    BY <2>1 DEF NeedsOf
  <2>3. \A i \in DOMAIN order : Needs(order[i]) \subseteq {order[j] : j \in 1..(i - 1)}
    BY <2>1, <2>2 DEF DoneInv
  <2>4. IsInjective(order) /\ RangeOf(order) = Registered
    BY <2>1, NoneLeftOut DEF DoneInv
  <2> QED BY <2>3, <2>4 DEF OrderedByNeed
<1> QED BY <1>1, PlanInvariant, PTL

(* The references each subject registers with are exactly what its schema  *)
(* needs, and what it holds inline is no other subject's.                  *)
THEOREM ReferencesRight == PlanSpec => []ReferencesExact
<1>1. PlanInv => ReferencesExact
  <2> SUFFICES ASSUME PlanInv, stage = "planned" PROVE ReferencesExact
    BY DEF ReferencesExact
  <2>1. RenderedInv /\ StageInv /\ order \in Seq(Names)
    BY DEF PlanInv, PlanTypeOK
  <2>2. \A i \in DOMAIN order : order[i] \in Names /\ NeedsOf[order[i]] = Needs(order[i])
    BY <2>1 DEF NeedsOf
  <2>3. \A i \in DOMAIN subjects :
          /\ i \in DOMAIN order /\ subjects[i].name = order[i]
          /\ RangeOf(subjects[i].refs) = NeedsOf[order[i]]
          /\ subjects[i].inline \cap Registered = {order[i]}
    BY <2>1 DEF RenderedInv, Exact
  <2> QED BY <2>1, <2>2, <2>3 DEF ReferencesExact, StageInv
<1> QED BY <1>1, PlanInvariant, PTL

(* Sets of naturals.                                                       *)

LessThan == {p \in Nat \X Nat : p[1] < p[2]}

LEMMA LeastExists ==
  ASSUME NEW T, T \subseteq Nat, T # {}
  PROVE  \E x \in T : \A y \in T : x <= y
<1>1. OpToRel(<, Nat) = LessThan
  BY Zenon DEF OpToRel, LessThan
<1>2. IsWellFoundedOn(LessThan, Nat)
  BY <1>1, NatLessThanWellFounded, Zenon
<1>3. PICK x \in T : \A y \in T : ~ (<<y, x>> \in LessThan)
  BY <1>2, WFMin, Zenon
<1>4. \A a, b \in Nat : a < b => <<a, b>> \in LessThan
  BY DEF LessThan
<1>5. \A y \in T : ~(y < x)
  BY <1>3, <1>4, Zenon
<1> QED BY <1>3, <1>5, SMT

(* A composition is refused for a cycle exactly when some of its types     *)
(* need each other, however deep in each other's inline types.             *)
THEOREM CycleCorrect == PlanSpec => []CycleRefusedExactly
<1>1. PlanInv => CycleRefusedExactly
  <2> SUFFICES ASSUME PlanInv, stage = "planned", NeedEachOther PROVE FALSE
    BY DEF CycleRefusedExactly, PlanInv
  <2>1. /\ PlanTypeOK /\ DoneInv /\ order \in Seq(Names) /\ RangeOf(order) = Registered
    BY NoneLeftOut DEF PlanInv, PlanTypeOK
  <2>2. PICK S \in SUBSET Registered :
          S # {} /\ \A t \in S : \E u \in S : <<t, u>> \in NeedsRelation
    BY Zenon DEF NeedEachOther
  <2> DEFINE I == {i \in DOMAIN order : order[i] \in S}
  <2>3. I \subseteq Nat /\ I # {}
    BY <2>1, <2>2 DEF RangeOf
  <2>4. PICK i \in I : \A j \in I : i <= j
    BY <2>3, LeastExists
  <2>5. PICK t : t = order[i] /\ t \in S /\ t \in Names
    BY <2>1, <2>4
  <2>6. PICK u \in S : <<t, u>> \in NeedsRelation
    BY <2>2, <2>5
  <2>7. u \in Needs(t)
    BY <2>6 DEF NeedsRelation
  <2>8. NeedsOf[order[i]] \subseteq {order[j] : j \in 1..(i - 1)}
    BY <2>1, <2>4 DEF DoneInv
  <2>9. PICK j \in 1..(i - 1) : u = order[j]
    BY <2>5, <2>7, <2>8 DEF NeedsOf
  <2>10. i \in 1..Len(order) /\ Len(order) \in Nat
    BY <2>1, <2>4
  <2>11. j \in I /\ ~(i <= j)
    BY <2>1, <2>9, <2>10
  <2> QED BY <2>4, <2>11
<1> QED BY <1>1, PlanInvariant, PTL
=============================================================================
