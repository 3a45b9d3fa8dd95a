------------------------ MODULE AvroGeneration_proofs ------------------------
(* Proofs about AvroGeneration, for any value and key avscs, paths and depth:  *)
(*   PathKept       an accepted path has a value at its end in every record,   *)
(*   ReadsKept      a value is read as the type it was generated for,          *)
(*   KeyReadsKept   and so is a Key planted in one.                            *)
EXTENDS AvroGeneration, TLAPS

-----------------------------------------------------------------------------
(* The inductive invariant.                                                    *)
Phases == {"parse", "refused", "walk", "ready", "record", "failed"}

\* The inputs are ones Init chooses.
InputsInv ==
    /\ schema \in Schemas
    /\ path = <<>> \/ path \in Paths
    /\ path = <<>> => ~PlantsKey
    /\ PlantsKey => plants.key \in KeySchemas

\* The descent stands at a type of the avsc it generates from.
PlaceInv ==
    /\ phase \in Phases /\ from \in {"value", "key"}
    /\ from = "key" => PlantsKey
    /\ phase \in {"parse", "walk"} => from = "value"
    /\ phase = "parse" => at = schema.root /\ reached = 0
    /\ at \in DOMAIN Avsc.types
    /\ reached \in 0..Len(path)

\* w is the types the first n steps of the path lead through.
Trail(w, n) ==
    /\ w[0] = schema.root
    /\ \A k \in 1..n : LET type == schema.types[w[k - 1]]
                       IN type.kind = "record" /\ path[k] \in DOMAIN type.of /\ w[k] = type.of[path[k]]
Trails(n) == {w \in [0..n -> DOMAIN schema.types] : Trail(w, n)}

\* A path Locate accepted leads through records alone, and a value generated
\* above its end is on its way there.
PathInv ==
    /\ phase = "walk" => \E w \in Trails(reached) : at = w[reached]
    /\ phase \in {"ready", "record"} /\ path # <<>> =>
          \E w \in Trails(Len(path)) :
             phase = "record" /\ from = "value" /\ reached < Len(path) => at = w[reached]
    /\ phase = "record" /\ from = "key" => reached = Len(path)
    /\ outcome # "missed"

\* Both avscs parsed, and the place holds what is planted there.
Meets(name) == LET keyType == plants.key.types[plants.key.root]
               IN name \in DOMAIN schema.types /\ HoldsKey(schema.types[name], name, keyType, plants.key.root)
HoldsInv ==
    /\ phase \in {"walk", "ready", "record"} => Parses(schema) /\ (PlantsKey => Parses(plants.key))
    /\ phase \in {"ready", "record"} /\ PlantsKey => Meets(place)

\* Who reads a value stands where generation does; who reads a planted Key
\* stands at the place, if it is a primitive, or at the same named type.
ReadsInv ==
    /\ phase = "record" /\ from = "value" => readAs = Reads(at)
    /\ phase = "record" /\ from = "key" /\ SameNames =>
          \/ readAs = Reads(at) /\ at \in DOMAIN schema.types
          \/ readAs = Reads(place) /\ at = plants.key.root /\ Type.kind \in Primitives

GenInv == InputsInv /\ PlaceInv /\ PathInv /\ HoldsInv /\ ReadsInv

-----------------------------------------------------------------------------
(* The avscs.                                                                  *)

LEMMA AvscClosed ==
    ASSUME NEW s \in Schemas \union KeySchemas, NEW name \in DOMAIN s.types
    PROVE  /\ s.root \in DOMAIN s.types /\ None \notin DOMAIN s.types
           /\ s.types[name].kind = "record" =>
                 \A field \in DOMAIN s.types[name].of : s.types[name].of[field] \in DOMAIN s.types
           /\ s.types[name].kind = "union" => s.types[name].of \in Seq(DOMAIN s.types)
           /\ s.types[name].kind \in Containers => s.types[name].of \in DOMAIN s.types
           /\ s.types[name].honoured => s.types[name].kind \in Overlaying
           /\ s.types[name].honoured /\ s.types[name].kind \in Primitives =>
                 s.types[name].logical \in DOMAIN LogicalTypes
  BY AvscAssumption DEF Range

\* What logicalOf makes of a type that Parse accepts.
LEMMA LogicalCases ==
    ASSUME NEW s \in Schemas \union KeySchemas, NEW name \in DOMAIN s.types, Parses(s)
    PROVE  LET type == s.types[name]
               overlaid == type.kind \in Overlaying /\ type.logical \in DOMAIN LogicalTypes
           IN /\ overlaid => LogicalOf(type) = type.logical /\ type.honoured /\ type.logical # None
              /\ ~overlaid => LogicalOf(type) = None
  <1> DEFINE type == s.types[name]
  <1>1. LogicalOf(type) # "refused"
    BY DEF Parses
  <1> QED
    BY <1>1, NoneAssumption DEF LogicalOf

\* The generator and the codec mean the same Go value.
LEMMA SameValue ==
    ASSUME NEW s \in Schemas \union KeySchemas, NEW name \in DOMAIN s.types, Parses(s)
    PROVE  s.types[name].kind \in Scalars => ValueOf(s.types[name]) = Marshals(s.types[name])
  <1> DEFINE type == s.types[name]
  <1>1. type.honoured => type.kind \in Overlaying
    BY AvscClosed
  <1>2. CASE type.kind \in Overlaying /\ type.logical \in DOMAIN LogicalTypes
    BY <1>2, LogicalCases DEF ValueOf, Marshals
  <1>3. CASE ~(type.kind \in Overlaying /\ type.logical \in DOMAIN LogicalTypes)
    BY <1>1, <1>3, LogicalCases DEF ValueOf, Marshals
  <1> QED
    BY <1>2, <1>3

\* They give a branch the same name, and no other branch of the union has it.
LEMMA SameName ==
    ASSUME NEW s \in Schemas \union KeySchemas, NEW name \in DOMAIN s.types, Parses(s)
    PROVE  UnionBranchName(s, name) = CodecBranchName(s, name)
  <1> DEFINE type == s.types[name]
  <1>1. /\ type.honoured => type.kind \in Overlaying
        /\ type.honoured /\ type.kind \in Primitives => type.logical \in DOMAIN LogicalTypes
    BY AvscClosed
  <1>2. type.kind \in Primitives => (LogicalOf(type) # None <=> type.honoured)
    BY <1>1, LogicalCases
  <1>3. LogicalOf(type) # None => LogicalOf(type) = type.logical
    BY LogicalCases
  <1> QED
    BY <1>2, <1>3 DEF UnionBranchName, CodecBranchName

LEMMA MinOfOne ==
    ASSUME NEW i \in Nat
    PROVE  Min({i}) = i
  BY DEF Min

LEMMA OneBranch ==
    ASSUME NEW s \in Schemas \union KeySchemas, NEW name \in DOMAIN s.types, Parses(s),
           s.types[name].kind = "union", NEW branch \in Range(s.types[name].of)
    PROVE  /\ branch \in DOMAIN s.types
           /\ RenderedBranch(s, s.types[name], UnionBranchName(s, branch)) = branch
           /\ MarshalledBranch(s, s.types[name], UnionBranchName(s, branch)) = branch
  <1> DEFINE of == s.types[name].of
             carried == UnionBranchName(s, branch)
             rendered == {i \in DOMAIN of : UnionBranchName(s, of[i]) = carried}
             marshalled == {i \in DOMAIN of : CodecBranchName(s, of[i]) = carried}
  <1>1. of \in Seq(DOMAIN s.types)
    BY AvscClosed
  <1>2. PICK i \in DOMAIN of : of[i] = branch
    BY DEF Range
  <1>3. /\ i \in Nat /\ DOMAIN of = 1..Len(of)
        /\ \A j \in DOMAIN of : of[j] \in DOMAIN s.types
    BY <1>1, <1>2
  <1>4. \A j \in DOMAIN of : UnionBranchName(s, of[j]) = CodecBranchName(s, of[j])
    BY <1>3, SameName
  <1>5. \A j \in DOMAIN of : CodecBranchName(s, of[j]) = CodecBranchName(s, of[i]) => j = i
    BY <1>2, BranchAssumption DEF IsInjective
  <1>6. marshalled = {i}
    BY <1>2, <1>4, <1>5
  <1>7. rendered = {i}
    BY <1>2, <1>4, <1>5
  <1>8. FirstBranch(s.types[name], {i}) = branch
    BY <1>2, <1>3, MinOfOne DEF FirstBranch
  <1>9. RenderedBranch(s, s.types[name], carried) = FirstBranch(s.types[name], rendered)
    BY DEF RenderedBranch
  <1>10. MarshalledBranch(s, s.types[name], carried) = FirstBranch(s.types[name], marshalled)
    BY DEF MarshalledBranch
  <1> QED
    BY <1>2, <1>3, <1>6, <1>7, <1>8, <1>9, <1>10

-----------------------------------------------------------------------------
(* Where the descent stands.                                                   *)

LEMMA AvscKnown ==
    ASSUME InputsInv, PlaceInv
    PROVE  /\ schema \in Schemas \union KeySchemas /\ Avsc \in Schemas \union KeySchemas
           /\ from = "value" => Avsc = schema
           /\ from = "key" => Avsc = plants.key
  BY DEF InputsInv, PlaceInv, Avsc

LEMMA PathTyped ==
    ASSUME InputsInv
    PROVE  Len(path) \in Nat
  <1>1. CASE path = <<>>
    BY <1>1
  <1>2. CASE path \in Paths
    BY <1>2, PathsAssumption
  <1> QED
    BY <1>1, <1>2 DEF InputsInv

\* What the steps of Generate come to.
Ends == \E result \in {"null", "empty", "value", "error"} : End(result)
Descends == \E passed \in {reached, reached + 1}, next \in DOMAIN Avsc.types :
    /\ phase' = phase /\ from' = from /\ place' = place /\ outcome' = outcome /\ UNCHANGED inputs
    /\ at' = next /\ reached' = passed
    /\ reached < Len(path) /\ Type.kind = "record" =>
          passed = reached + 1 /\ path[reached + 1] \in DOMAIN Type.of /\ next = Type.of[path[reached + 1]]
    /\ passed = reached + 1 => reached < Len(path) /\ Type.kind = "record"

LEMMA GenerateCases ==
    ASSUME InputsInv, PlaceInv, Generate
    PROVE  phase = "record" /\ (Ends \/ Descends)
  <1>1. at \in DOMAIN Avsc.types /\ Avsc \in Schemas \union KeySchemas
    BY AvscKnown DEF PlaceInv
  <1>2. /\ reached \in Int /\ Len(path) \in Nat
    BY PathTyped DEF PlaceInv
  <1>3. CASE Escape
    BY <1>3 DEF Escape, Ends
  <1>4. CASE Scalar
    BY <1>4 DEF Scalar, Ends
  <1>5. CASE Record
    <2>1. phase = "record" /\ Type.kind = "record"
      BY <1>5 DEF Record
    <2>2. \A field \in DOMAIN Type.of : Type.of[field] \in DOMAIN Avsc.types
      BY <1>1, <2>1, AvscClosed DEF Type
    <2>3. CASE reached < Len(path)
      BY <1>2, <1>5, <2>1, <2>2, <2>3 DEF Record, IntoField, Descend, Ends, Descends
    <2>4. CASE ~(reached < Len(path))
      BY <1>2, <1>5, <2>1, <2>2, <2>4 DEF Record, IntoField, Descend, Ends, Descends
    <2> QED
      BY <2>3, <2>4
  <1>6. CASE Union
    <2>1. phase = "record" /\ Type.kind = "union"
      BY <1>6 DEF Union
    <2>2. Range(Type.of) \subseteq DOMAIN Avsc.types
      BY <1>1, <2>1, AvscClosed DEF Type, Range
    <2>3. ASSUME NEW branch \in Branches, NEW readers, Descend(branch, reached, readers)
          PROVE  Descends
      BY <1>2, <2>1, <2>2, <2>3 DEF Branches, Descend, Descends
    <2>4. (\E result \in {"null"} : End(result)) \/ (\E branch \in Branches : \E readers : Descend(branch, reached, readers))
      BY <1>6 DEF Union
    <2> QED
      BY <2>1, <2>3, <2>4 DEF Ends
  <1>7. CASE Container
    <2>1. phase = "record" /\ Type.kind \in Containers /\ Type.kind # "record"
      BY <1>7 DEF Container, Containers
    <2>2. Type.of \in DOMAIN Avsc.types
      BY <1>1, <2>1, AvscClosed DEF Type
    <2> QED
      BY <1>2, <1>7, <2>1, <2>2 DEF Container, Descend, Ends, Descends
  <1> QED
    BY <1>3, <1>4, <1>5, <1>6, <1>7 DEF Generate

LEMMA InputsStep ==
    ASSUME InputsInv, [Next]_vars
    PROVE  InputsInv' /\ UNCHANGED inputs
  <1>1. UNCHANGED inputs
    BY DEF Next, Parse, WalkStep, WalkEnds, NextRecord, NextKey, Generate, Escape, Scalar, Record, Union,
           Container, IntoField, Descend, End, vars
  <1> QED
    BY <1>1 DEF InputsInv, inputs, PlantsKey

LEMMA PlaceStep ==
    ASSUME InputsInv, PlaceInv, [Next]_vars
    PROVE  PlaceInv'
  <1>1. at \in DOMAIN Avsc.types /\ schema \in Schemas \union KeySchemas /\ Avsc \in Schemas \union KeySchemas
    BY AvscKnown DEF PlaceInv
  <1>2. reached \in Int /\ Len(path) \in Nat
    BY PathTyped DEF PlaceInv
  <1>3. schema' = schema /\ path' = path /\ plants' = plants
    BY InputsStep DEF inputs
  <1>4. from' = from => Avsc' = Avsc
    BY <1>3 DEF Avsc
  <1>5. CASE Parse
    <2>1. phase' \in {"refused", "ready", "walk"} /\ from' = from /\ at' = at /\ reached' = reached
      BY <1>5 DEF Parse
    <2>2. phase' = "walk" => from' = "value"
      BY <1>5, <2>1 DEF Parse, PlaceInv
    <2> QED
      BY <1>3, <1>4, <2>1, <2>2 DEF PlaceInv, Phases, PlantsKey
  <1>6. CASE WalkStep
    <2>1. Avsc = schema
      BY <1>6 DEF WalkStep, PlaceInv, Avsc
    <2>2. StepsInto(path[reached + 1]) \in DOMAIN Avsc.types \/ StepsInto(path[reached + 1]) = None
      BY <1>1, AvscClosed DEF StepsInto, Type
    <2> QED
      BY <1>2, <1>3, <1>4, <1>6, <2>2 DEF WalkStep, PlaceInv, Phases, PlantsKey
  <1>7. CASE WalkEnds
    BY <1>3, <1>4, <1>7 DEF WalkEnds, PlaceInv, Phases, PlantsKey
  <1>8. CASE NextRecord
    <2>1. Avsc' = schema /\ schema.root \in DOMAIN schema.types
      BY <1>1, <1>3, <1>8, AvscAssumption DEF NextRecord, Avsc
    <2> QED
      BY <1>2, <1>3, <1>8, <2>1 DEF NextRecord, PlaceInv, Phases, PlantsKey
  <1>9. CASE NextKey
    <2>1. Avsc' = plants.key /\ plants.key.root \in DOMAIN plants.key.types
      BY <1>3, <1>9, AvscAssumption DEF NextKey, Avsc, InputsInv
    <2> QED
      BY <1>2, <1>3, <1>9, <2>1 DEF NextKey, PlaceInv, Phases, PlantsKey
  <1>10. CASE Generate
    <2>1. CASE Ends
      BY <1>3, <1>4, <2>1 DEF Ends, End, PlaceInv, Phases, PlantsKey
    <2>2. CASE Descends
      BY <1>2, <1>3, <1>4, <2>2, <1>10, GenerateCases DEF Descends, PlaceInv, Phases, PlantsKey
    <2> QED
      BY <1>10, <2>1, <2>2, GenerateCases
  <1>11. CASE UNCHANGED vars
    BY <1>3, <1>4, <1>11 DEF vars, PlaceInv, Phases, PlantsKey
  <1> QED
    BY <1>5, <1>6, <1>7, <1>8, <1>9, <1>10, <1>11 DEF Next

-----------------------------------------------------------------------------
(* An accepted path.                                                           *)

LEMMA TrailStarts ==
    ASSUME schema.root \in DOMAIN schema.types
    PROVE  \E w \in Trails(0) : w[0] = schema.root
  <1> DEFINE w == [k \in 0..0 |-> schema.root]
  <1>1. w \in Trails(0) /\ w[0] = schema.root
    BY DEF Trails, Trail
  <1> QED
    BY <1>1

LEMMA TrailGrows ==
    ASSUME NEW n \in Nat, NEW w \in Trails(n), NEW next \in DOMAIN schema.types,
           schema.types[w[n]].kind = "record", path[n + 1] \in DOMAIN schema.types[w[n]].of,
           next = schema.types[w[n]].of[path[n + 1]]
    PROVE  \E longer \in Trails(n + 1) : longer[n + 1] = next
  <1> DEFINE longer == [k \in 0..(n + 1) |-> IF k = n + 1 THEN next ELSE w[k]]
  <1>1. /\ w \in [0..n -> DOMAIN schema.types] /\ w[0] = schema.root
        /\ \A k \in 1..n : LET type == schema.types[w[k - 1]]
                           IN type.kind = "record" /\ path[k] \in DOMAIN type.of /\ w[k] = type.of[path[k]]
    BY DEF Trails, Trail
  <1>2. longer \in [0..(n + 1) -> DOMAIN schema.types] /\ longer[0] = schema.root /\ longer[n + 1] = next
    BY <1>1
  <1>3. ASSUME NEW k \in 1..(n + 1)
        PROVE  LET type == schema.types[longer[k - 1]]
               IN type.kind = "record" /\ path[k] \in DOMAIN type.of /\ longer[k] = type.of[path[k]]
    <2>1. k - 1 \in 0..n /\ k \in 0..(n + 1) /\ (k = n + 1 => k - 1 = n)
      OBVIOUS
    <2>2. longer[k - 1] = w[k - 1] /\ longer[k] = IF k = n + 1 THEN next ELSE w[k]
      BY <2>1
    <2> HIDE DEF longer
    <2>3. CASE k = n + 1
      BY <2>1, <2>2, <2>3
    <2>4. CASE k # n + 1
      <3>1. k \in 1..n
        BY <2>4
      <3> QED
        BY <1>1, <2>2, <2>4, <3>1
    <2> QED
      BY <2>3, <2>4
  <1>4. longer \in Trails(n + 1)
    BY <1>2, <1>3 DEF Trails, Trail
  <1> QED
    BY <1>2, <1>4

\* What a trail says of the type a step short of the path's end.
LEMMA TrailLeads ==
    ASSUME NEW n \in Nat, NEW w \in Trails(n), NEW k \in 0..(n - 1)
    PROVE  /\ schema.types[w[k]].kind = "record" /\ path[k + 1] \in DOMAIN schema.types[w[k]].of
           /\ w[k + 1] = schema.types[w[k]].of[path[k + 1]]
  <1>1. k + 1 \in 1..n /\ (k + 1) - 1 = k
    OBVIOUS
  <1> QED
    BY <1>1 DEF Trails, Trail

LEMMA PathStep ==
    ASSUME InputsInv, PlaceInv, PathInv, [Next]_vars
    PROVE  PathInv'
  <1>1. /\ reached \in 0..Len(path) /\ Len(path) \in Nat
        /\ at \in DOMAIN Avsc.types
        /\ schema \in Schemas \union KeySchemas
        /\ outcome # "missed"
        /\ path = <<>> => Len(path) = 0
    BY AvscKnown, PathTyped DEF PlaceInv, PathInv
  <1>2. schema' = schema /\ path' = path /\ \A n : Trails(n)' = Trails(n)
    BY InputsStep DEF inputs, Trails, Trail
  <1>3. CASE Parse
    <2>1. reached' = 0 /\ at' = schema.root /\ outcome' = outcome
      BY <1>3 DEF Parse, PlaceInv
    <2>2. phase' \in {"refused", "walk"} \/ (phase' = "ready" /\ path = <<>>)
      BY <1>3 DEF Parse
    <2>3. \E w \in Trails(0) : w[0] = schema.root
      BY <1>1, AvscAssumption, TrailStarts
    <2> QED
      BY <1>1, <1>2, <2>1, <2>2, <2>3 DEF PathInv
  <1>4. CASE WalkStep
    <2>1. PICK w \in Trails(reached) : at = w[reached]
      BY <1>4 DEF WalkStep, PathInv
    <2>2. reached < Len(path) /\ Avsc = schema /\ outcome' = outcome
      BY <1>4 DEF WalkStep, PlaceInv, Avsc
    <2>3. CASE StepsInto(path[reached + 1]) = None
      <3>1. phase' = "refused"
        BY <1>4, <2>3 DEF WalkStep
      <3> QED
        BY <1>1, <2>2, <3>1 DEF PathInv
    <2>4. CASE StepsInto(path[reached + 1]) # None
      <3> DEFINE next == StepsInto(path[reached + 1])
      <3>1. at' = next /\ reached' = reached + 1 /\ phase' = "walk"
        BY <1>4, <2>4 DEF WalkStep
      <3>2. /\ schema.types[w[reached]].kind = "record"
            /\ path[reached + 1] \in DOMAIN schema.types[w[reached]].of
            /\ next = schema.types[w[reached]].of[path[reached + 1]]
        BY <2>1, <2>2, <2>4 DEF StepsInto, Type
      <3>3. next \in DOMAIN schema.types
        BY <1>1, <2>1, <2>2, <3>2, AvscClosed
      <3> HIDE DEF next
      <3>4. PICK n \in Nat : n = reached
        BY <1>1
      <3>5. \E longer \in Trails(n + 1) : longer[n + 1] = next
        BY <2>1, <3>2, <3>3, <3>4, TrailGrows
      <3> QED
        BY <1>1, <1>2, <2>2, <3>1, <3>4, <3>5 DEF PathInv
    <2> QED
      BY <2>3, <2>4
  <1>5. CASE WalkEnds
    <2>1. PICK w \in Trails(reached) : at = w[reached]
      BY <1>5 DEF WalkEnds, PathInv
    <2>2. reached = Len(path) /\ outcome' = outcome /\ phase' \in {"refused", "ready"}
      BY <1>5 DEF WalkEnds
    <2> QED
      BY <1>1, <1>2, <2>1, <2>2 DEF PathInv
  <1>6. CASE NextRecord
    <2>1. /\ phase = "ready" /\ phase' = "record" /\ from' = "value" /\ at' = schema.root
          /\ reached' = 0 /\ outcome' = None
      BY <1>6 DEF NextRecord
    <2>2. path # <<>> => \E w \in Trails(Len(path)) : w[0] = schema.root
      BY <2>1 DEF PathInv, Trails, Trail
    <2> QED
      BY <1>2, <2>1, <2>2, OutcomeAssumption DEF PathInv
  <1>7. CASE NextKey
    <2>1. /\ phase = "ready" /\ phase' = "record" /\ from' = "key" /\ reached' = Len(path) /\ outcome' = None
      BY <1>7 DEF NextKey
    <2> QED
      BY <1>2, <2>1, OutcomeAssumption DEF PathInv
  <1>8. CASE Generate
    <2>1. phase = "record" /\ from' = from
      BY <1>8, GenerateCases DEF Ends, End, Descends
    <2>2. reached < Len(path) => from = "value" /\ path # <<>>
      BY <1>1, <2>1 DEF PathInv, PlaceInv
    <2>3. reached < Len(path) => \E w \in Trails(Len(path)) : at = w[reached]
      BY <2>1, <2>2 DEF PathInv
    <2>4. reached < Len(path) => /\ Type.kind = "record" /\ path[reached + 1] \in DOMAIN Type.of
                                 /\ \E w \in Trails(Len(path)) : w[reached + 1] = Type.of[path[reached + 1]]
      <3> SUFFICES ASSUME reached < Len(path)
                   PROVE  /\ Type.kind = "record" /\ path[reached + 1] \in DOMAIN Type.of
                          /\ \E w \in Trails(Len(path)) : w[reached + 1] = Type.of[path[reached + 1]]
        OBVIOUS
      <3>1. PICK n \in Nat : n = Len(path)
        BY <1>1
      <3>2. PICK w \in Trails(n) : at = w[reached]
        BY <2>3, <3>1
      <3>3. PICK k \in 0..(n - 1) : k = reached
        BY <1>1, <3>1
      <3>4. Type = schema.types[w[k]]
        BY <2>2, <3>2, <3>3 DEF Type, Avsc
      <3> QED
        BY <3>1, <3>2, <3>3, <3>4, TrailLeads
    <2>5. CASE Ends
      <3>1. phase' \in {"ready", "failed"} /\ (outcome' = "missed" => reached # Len(path))
        BY <2>5, OutcomeAssumption DEF Ends, End
      <3>2. ASSUME reached < Len(path) PROVE outcome' # "missed"
        <4>1. Type.kind = "record" /\ path[reached + 1] \in DOMAIN Type.of
          BY <2>4, <3>2
        <4>2. Escape \/ ~Exhausted
          BY <1>8 DEF Generate, Scalar, Record, Union, Container
        <4>3. CASE Escape
          BY <4>1, <4>3 DEF Escape, End, Nullable, Containers
        <4>4. CASE ~Exhausted
          BY <1>8, <3>2, <4>1, <4>4, <2>1, <2>5, <3>1 DEF Generate, Escape, Scalar, Scalars, Primitives, Record, Union, Container, Containers, IntoField, Descend
        <4> QED
          BY <4>2, <4>3, <4>4
      <3> QED
        BY <1>1, <1>2, <2>1, <3>1, <3>2 DEF PathInv
    <2>6. CASE Descends
      <3>1. phase' = "record" /\ outcome' # "missed" /\ reached' \in {reached, reached + 1}
        BY <1>1, <2>1, <2>6 DEF Descends
      <3>2. reached < Len(path) => reached' = reached + 1 /\ at' = Type.of[path[reached + 1]]
        BY <2>4, <2>6 DEF Descends
      <3>3. reached = Len(path) => reached' = reached
        BY <1>1, <2>6 DEF Descends
      <3>4. CASE reached < Len(path)
        BY <1>1, <1>2, <2>1, <2>2, <2>4, <3>1, <3>2, <3>4 DEF PathInv
      <3>5. CASE reached = Len(path)
        <4>1. path # <<>> => \E w \in Trails(Len(path)) : TRUE
          BY <2>1 DEF PathInv
        <4> QED
          BY <1>1, <1>2, <2>1, <3>1, <3>3, <3>5, <4>1 DEF PathInv
      <3> QED
        BY <1>1, <3>4, <3>5
    <2> QED
      BY <1>8, <2>5, <2>6, GenerateCases
  <1>9. CASE UNCHANGED vars
    BY <1>1, <1>2, <1>9 DEF vars, PathInv
  <1> QED
    BY <1>3, <1>4, <1>5, <1>6, <1>7, <1>8, <1>9 DEF Next

-----------------------------------------------------------------------------
(* What is planted, and how it is read.                                        *)

LEMMA HoldsStep ==
    ASSUME InputsInv, PlaceInv, HoldsInv, [Next]_vars
    PROVE  HoldsInv'
  <1>1. schema' = schema /\ path' = path /\ plants' = plants
    BY InputsStep DEF inputs
  <1>2. /\ PlantsKey' <=> PlantsKey
        /\ \A name : Meets(name)' <=> Meets(name)
    BY <1>1 DEF PlantsKey, Meets
  <1>3. CASE Parse
    <2>1. phase' \in {"ready", "walk"} => Parses(schema) /\ (PlantsKey => Parses(plants.key))
      BY <1>3 DEF Parse
    <2>2. phase' \in {"refused", "ready", "walk"} /\ (phase' = "ready" => ~PlantsKey)
      BY <1>3 DEF Parse, InputsInv
    <2> QED
      BY <1>1, <1>2, <2>1, <2>2 DEF HoldsInv
  <1>4. CASE WalkStep
    <2>1. phase = "walk" /\ phase' \in {"walk", "refused"}
      BY <1>4 DEF WalkStep
    <2> QED
      BY <1>1, <1>2, <2>1 DEF HoldsInv
  <1>5. CASE WalkEnds
    <2>1. phase = "walk" /\ Avsc = schema /\ at \in DOMAIN schema.types
      BY <1>5 DEF WalkEnds, PlaceInv, Avsc
    <2>2. phase' = "refused" \/ (phase' = "ready" /\ Held /\ place' = at)
      BY <1>5 DEF WalkEnds
    <2>3. Held /\ PlantsKey => Meets(at)
      BY <2>1 DEF Held, Meets, Type
    <2>4. PICK name : name = at
      OBVIOUS
    <2> QED
      BY <1>1, <1>2, <2>1, <2>2, <2>3, <2>4 DEF HoldsInv, Meets
  <1>6. ASSUME phase \in {"ready", "record"}, phase' \in {"ready", "record", "failed"}, place' = place
        PROVE  HoldsInv'
    <2>1. PICK name : name = place
      OBVIOUS
    <2> QED
      BY <1>1, <1>2, <1>6, <2>1 DEF HoldsInv, Meets
  <1>7. CASE NextRecord
    BY <1>6, <1>7 DEF NextRecord
  <1>8. CASE NextKey
    BY <1>6, <1>8 DEF NextKey
  <1>9. CASE Generate
    <2>1. CASE Ends
      BY <1>6, <1>9, <2>1, GenerateCases DEF Ends, End
    <2>2. CASE Descends
      BY <1>6, <1>9, <2>2, GenerateCases DEF Descends
    <2> QED
      BY <1>9, <2>1, <2>2, GenerateCases
  <1>10. CASE UNCHANGED vars
    <2>1. phase' = phase /\ place' = place
      BY <1>10 DEF vars
    <2> QED
      BY <1>1, <1>2, <2>1 DEF HoldsInv, Meets
  <1> QED
    BY <1>3, <1>4, <1>5, <1>7, <1>8, <1>9, <1>10 DEF Next

\* Both avscs mean the same by the types they share: trivially for a value.
Agree == \A name \in DOMAIN Avsc.types \intersect DOMAIN schema.types :
    Avsc.types[name] = schema.types[name]

LEMMA ReadsTogether ==
    ASSUME NEW name
    PROVE  Reads(name) = [r \in {"rendered", "marshalled"} |-> name]
  BY DEF Reads

\* Readers that stand where generation does go on doing so.
LEMMA ReadersFollow ==
    ASSUME InputsInv, PlaceInv, HoldsInv, Agree, Generate,
           readAs = Reads(at), at \in DOMAIN schema.types
    PROVE  phase' = "record" => readAs' = Reads(at)' /\ at' \in DOMAIN schema.types
  <1> SUFFICES ASSUME phase' = "record" PROVE readAs' = Reads(at)' /\ at' \in DOMAIN schema.types
    OBVIOUS
  <1>1. /\ schema \in Schemas \union KeySchemas /\ Avsc \in Schemas \union KeySchemas
        /\ at \in DOMAIN Avsc.types /\ Type = schema.types[at]
    BY AvscKnown DEF PlaceInv, Agree, Type
  <1>2. phase = "record" /\ Parses(schema)
    BY GenerateCases DEF HoldsInv
  <1>3. PICK name \in DOMAIN schema.types : name = at
    OBVIOUS
  <1>4. name # None
    BY <1>1, AvscAssumption
  <1>5. DOMAIN readAs = {"rendered", "marshalled"} /\ readAs.rendered = name /\ readAs.marshalled = name
    BY <1>3 DEF Reads
  <1>6. \A r \in {"rendered", "marshalled"} : Readers[r] = Type
    BY <1>1, <1>3, <1>4, <1>5 DEF Readers
  <1>7. CASE Escape \/ Scalar
    BY <1>7 DEF Escape, Scalar, End
  <1>8. CASE Record
    <2>1. PICK field \in DOMAIN Type.of, passed \in {reached, reached + 1} : IntoField(field, passed)
      BY <1>8 DEF Record, End
    <2>2. Type.kind = "record"
      BY <1>8 DEF Record
    <2>3. at' = Type.of[field] /\ readAs' = [r \in {"rendered", "marshalled"} |-> Type.of[field]]
      BY <1>5, <1>6, <2>1, <2>2 DEF IntoField, Descend
    <2>4. Type.of[field] \in DOMAIN schema.types
      BY <1>1, <2>2, AvscClosed
    <2> QED
      BY <2>3, <2>4 DEF Reads
  <1>9. CASE Union
    <2> DEFINE carried(branch) == UnionBranchName(Avsc, branch)
    <2>1. Type.kind = "union"
      BY <1>9 DEF Union
    <2>2. PICK branch \in Branches :
            Descend(branch, reached, [rendered |-> RenderedBranch(schema, Readers.rendered, carried(branch)),
                                      marshalled |-> MarshalledBranch(schema, Readers.marshalled, carried(branch))])
      BY <1>9 DEF Union, End
    <2>3. branch \in Range(Type.of)
      BY DEF Branches
    <2>4. /\ branch \in DOMAIN schema.types
          /\ RenderedBranch(schema, Type, UnionBranchName(schema, branch)) = branch
          /\ MarshalledBranch(schema, Type, UnionBranchName(schema, branch)) = branch
      BY <1>1, <1>2, <2>1, <2>3, OneBranch
    <2>5. branch \in DOMAIN Avsc.types
      BY <1>1, <2>1, <2>3, AvscClosed DEF Type, Range
    <2>6. carried(branch) = UnionBranchName(schema, branch)
      BY <2>4, <2>5 DEF Agree, UnionBranchName
    <2>7. Readers.rendered = Type /\ Readers.marshalled = Type
      BY <1>6
    <2> QED
      BY <2>2, <2>4, <2>6, <2>7 DEF Descend, Reads
  <1>10. CASE Container
    <2>1. Type.kind \in Containers
      BY <1>10 DEF Container
    <2>2. at' = Type.of /\ readAs' = [r \in {"rendered", "marshalled"} |-> Type.of]
      BY <1>5, <1>6, <1>10 DEF Container, Descend, End
    <2>3. Type.of \in DOMAIN schema.types
      BY <1>1, <2>1, AvscClosed
    <2> QED
      BY <2>2, <2>3 DEF Reads
  <1> QED
    BY <1>7, <1>8, <1>9, <1>10 DEF Generate

LEMMA ReadsStep ==
    ASSUME InputsInv, PlaceInv, HoldsInv, ReadsInv, [Next]_vars
    PROVE  ReadsInv'
  <1>1. schema' = schema /\ plants' = plants /\ (SameNames' <=> SameNames)
    BY InputsStep DEF inputs, SameNames
  <1>2. CASE phase' # "record"
    BY <1>2 DEF ReadsInv
  <1>3. CASE UNCHANGED vars
    <2>1. Type' = Type /\ Reads(at)' = Reads(at) /\ Reads(place)' = Reads(place)
      BY <1>3 DEF vars, inputs, Type, Avsc, Reads
    <2> QED
      BY <1>1, <1>3, <2>1 DEF vars, ReadsInv
  <1>4. CASE NextRecord
    BY <1>4 DEF NextRecord, ReadsInv, Reads
  <1>5. CASE NextKey
    <2>1. /\ phase = "ready" /\ PlantsKey /\ from' = "key" /\ at' = plants.key.root
          /\ readAs' = Reads(place) /\ place' = place
      BY <1>5 DEF NextKey
    <2>2. Meets(place)
      BY <2>1 DEF HoldsInv
    <2>3. Type' = plants.key.types[plants.key.root]
      BY <1>1, <2>1 DEF Type, Avsc
    <2>4. Type.kind' \in Named => place = plants.key.root
      BY <2>2, <2>3 DEF Meets, HoldsKey
    <2>5. Type.kind' \in Named \union Primitives
      BY <2>2, <2>3 DEF Meets, HoldsKey
    <2>6. Reads(at)' = Reads(plants.key.root) /\ Reads(place)' = Reads(place)
      BY <2>1 DEF Reads
    <2> QED
      BY <1>1, <2>1, <2>2, <2>4, <2>5, <2>6 DEF Meets, ReadsInv
  <1>6. CASE Generate /\ phase' = "record"
    <2>1. phase = "record" /\ Descends /\ from' = from
      BY <1>6, GenerateCases DEF Ends, End, Descends
    <2>2. CASE from = "value"
      <3>1. Agree /\ readAs = Reads(at) /\ at \in DOMAIN schema.types
        BY <2>1, <2>2 DEF Agree, Avsc, ReadsInv, PlaceInv
      <3> QED
        BY <1>6, <2>1, <2>2, <3>1, ReadersFollow DEF ReadsInv
    <2>3. CASE from = "key" /\ SameNames
      <3>1. Type.kind \notin Primitives
        <4>1. Escape \/ ~(Type.kind \in Scalars)
          BY <1>6, <2>1 DEF Generate, Scalar, Scalars, Primitives, Named, Containers, Record, Union, Container, End
        <4> QED
          BY <1>6, <4>1 DEF Escape, End, Scalars
      <3>2. readAs = Reads(at) /\ at \in DOMAIN schema.types
        BY <2>1, <2>3, <3>1 DEF ReadsInv
      <3>3. Agree
        BY <2>3 DEF Agree, Avsc, SameNames
      <3> QED
        BY <1>1, <1>6, <2>1, <2>3, <3>2, <3>3, ReadersFollow DEF ReadsInv
    <2> QED
      BY <1>1, <2>1, <2>2, <2>3 DEF ReadsInv, PlaceInv
  <1>7. CASE Parse \/ WalkStep \/ WalkEnds
    <2>1. phase' # "record"
      BY <1>7 DEF Parse, WalkStep, WalkEnds
    <2> QED
      BY <1>2, <2>1
  <1> QED
    BY <1>2, <1>3, <1>4, <1>5, <1>6, <1>7 DEF Next

-----------------------------------------------------------------------------
(* The theorems.                                                               *)

\* A descent (generate.go, walk.go) stands where the invariant says.
THEOREM GenerationInvariant == Spec => []GenInv
  <1>1. Init => GenInv
    <2> SUFFICES ASSUME Init PROVE GenInv
      OBVIOUS
    <2>1. InputsInv
      BY PathsAssumption DEF Init, InputsInv, PlantsKey
    <2>2. Len(path) \in Nat
      BY <2>1, PathTyped
    <2>3. PlaceInv
      BY <2>2, AvscAssumption DEF Init, PlaceInv, Phases, Avsc
    <2>4. PathInv
      BY OutcomeAssumption DEF Init, PathInv
    <2>5. HoldsInv /\ ReadsInv
      BY DEF Init, HoldsInv, ReadsInv
    <2> QED
      BY <2>1, <2>3, <2>4, <2>5 DEF GenInv
  <1>2. GenInv /\ [Next]_vars => GenInv'
    BY InputsStep, PlaceStep, PathStep, HoldsStep, ReadsStep DEF GenInv
  <1> QED
    BY <1>1, <1>2, PTL DEF Spec

\* AcceptedAlwaysThere: a path that Locate (walk.go:32) accepts ends at a value
\* in every record Value (generate.go:61) generates.
THEOREM PathKept == Spec => []AcceptedAlwaysThere
  <1>1. GenInv => AcceptedAlwaysThere
    BY DEF GenInv, PathInv, AcceptedAlwaysThere
  <1> QED
    BY <1>1, GenerationInvariant, PTL

\* ReadAsGenerated: RenderJSON and the codec read a value as the type, and as
\* the Go value, it was generated for: unionBranchName (convention.go:216) and
\* the entries of logicalTypes agree with the codec wherever Parse accepts.
THEOREM ReadsKept == Spec => []ReadAsGenerated
  <1>1. GenInv => ReadAsGenerated
    <2> SUFFICES ASSUME GenInv, phase = "record", from = "value"
                 PROVE  readAs = Reads(at) /\ (Type.kind \in Scalars => ValueOf(Type) = Marshals(Type))
      BY DEF ReadAsGenerated
    <2>1. schema \in Schemas \union KeySchemas /\ at \in DOMAIN schema.types /\ Parses(schema)
          /\ Type = schema.types[at]
      BY AvscKnown DEF GenInv, PlaceInv, HoldsInv, Type, Avsc
    <2> QED
      BY <2>1, SameValue DEF GenInv, ReadsInv
  <1> QED
    BY <1>1, GenerationInvariant, PTL

\* KeyReadAsGenerated: what holdsKey (walk.go:127) lets be planted still encodes
\* against the value avsc, as the Key it is, if one full name means one type.
THEOREM KeyReadsKept == Spec => []KeyReadAsGenerated
  <1>1. GenInv => KeyReadAsGenerated
    <2> SUFFICES ASSUME GenInv, phase = "record", from = "key", SameNames
                 PROVE  \A r \in DOMAIN readAs : readAs[r] # None /\ Takes(schema.types[readAs[r]], Type)
      BY DEF KeyReadAsGenerated
    <2>1. /\ schema \in Schemas \union KeySchemas /\ Avsc \in Schemas \union KeySchemas
          /\ Avsc = plants.key /\ at \in DOMAIN Avsc.types /\ PlantsKey
          /\ Parses(schema) /\ Parses(Avsc) /\ None \notin DOMAIN schema.types
      BY AvscKnown, AvscAssumption DEF GenInv, PlaceInv, HoldsInv
    <2>2. Type.kind \in Scalars => ValueOf(Type) = Marshals(Type)
      BY <2>1, SameValue DEF Type
    <2>3. CASE readAs = Reads(at) /\ at \in DOMAIN schema.types
      <3>1. Type = schema.types[at]
        BY <2>1, <2>3 DEF Type, SameNames
      <3> QED
        BY <2>1, <2>2, <2>3, <3>1 DEF Reads, Takes
    <2>4. CASE readAs = Reads(place) /\ at = plants.key.root /\ Type.kind \in Primitives
      <3>1. Meets(place) /\ Type = plants.key.types[plants.key.root] /\ Type.kind \notin Named
        BY <2>1, <2>4 DEF GenInv, HoldsInv, Type, Primitives, Named
      <3> DEFINE reader == schema.types[place]
      <3>2. /\ place \in DOMAIN schema.types /\ reader.kind = Type.kind
            /\ LogicalOf(reader) = LogicalOf(Type)
            /\ LogicalOf(reader) = "decimal" => reader.detail = Type.detail
        BY <3>1 DEF Meets, HoldsKey
      <3>3. ValueOf(reader) = ValueOf(Type)
        BY <3>2 DEF ValueOf
      <3>4. Type.kind \in Scalars /\ Type.kind \notin {"enum", "fixed"}
        BY <2>4 DEF Scalars, Primitives
      <3>5. Marshals(reader) = ValueOf(reader)
        BY <2>1, <3>2, <3>4, SameValue
      <3>6. Takes(reader, Type) /\ place # None
        BY <2>1, <3>2, <3>3, <3>4, <3>5 DEF Takes
      <3> QED
        BY <2>4, <3>6 DEF Reads
    <2> QED
      BY <2>3, <2>4 DEF GenInv, ReadsInv
  <1> QED
    BY <1>1, GenerationInvariant, PTL
=============================================================================
