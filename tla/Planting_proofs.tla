---------------------------- MODULE Planting_proofs ----------------------------
(* Planting, for any number of Message types and parameters and whatever      *)
(* schemas the Walks read: New's nested loops decide what the property says,  *)
(* and no record it lets through misses a place or loses a Planting.          *)
EXTENDS Planting, TLAPS

Types == 1..Len(run.types)
Params == 1..Len(run.params)

\* What parameter j plants in the i-th Message type.
Wanted(i, j, inHeaders) ==
    Planted(run.params[j], Place(run.types[i], run.params[j]), inHeaders)

Plantings == {Wanted(i, j, inHeaders) : i \in Types, j \in Params, inHeaders \in BOOLEAN}
KeyPlanting == Planted(KeyValue, run.key, FALSE)

TypeOK ==
    /\ run \in Runs
    /\ phase \in {"parameters", "keys", "ready", "record", "planted", "refused"}
    /\ headers \in BOOLEAN /\ p \in 1..(Len(run.params) + 1) /\ t \in Types
    /\ sets \in [Types -> [key : {None, run.key}, payload : Seq(Plantings),
                           headers : Seq(Plantings)]]
    /\ type \in Types
    /\ todo \in Seq(Plantings \union {KeyPlanting})

-----------------------------------------------------------------------------
(* New.                                                                       *)

List(i, inHeaders) == IF inHeaders THEN sets[i].headers ELSE sets[i].payload

\* The loops have been through parameter j in the i-th Message type.
Through(i, j, inHeaders) ==
    \/ headers /\ ~inHeaders
    \/ headers = inHeaders /\ (j < p \/ (j = p /\ i < t))

\* Each list holds what the loops have been through, and nothing else.
ListsExact ==
    \A i \in Types, inHeaders \in BOOLEAN :
        /\ \A k \in DOMAIN List(i, inHeaders) : \E j \in Params :
            /\ Plants(run.params[j], inHeaders) /\ Through(i, j, inHeaders)
            /\ List(i, inHeaders)[k] = Wanted(i, j, inHeaders)
            /\ Place(run.types[i], run.params[j]) # None
        /\ \A j \in Params : Plants(run.params[j], inHeaders) /\ Through(i, j, inHeaders)
            => \E k \in DOMAIN List(i, inHeaders) :
                    List(i, inHeaders)[k] = Wanted(i, j, inHeaders)

ListsApart ==
    \A i \in Types :
        /\ \A inHeaders \in BOOLEAN : \A k, l \in DOMAIN List(i, inHeaders) :
            k # l => ~Overlap(List(i, inHeaders)[k].path, List(i, inHeaders)[l].path)
        /\ run.key \notin {None, Malformed}
            => \A k \in DOMAIN List(i, FALSE) : ~Overlap(List(i, FALSE)[k].path, run.key)

\* Where the loops are: they leave a Message type only for a parameter that
\* plants, and the parameters only when all are through.
LoopsInv ==
    /\ phase = "parameters" /\ t > 1 => p <= Len(run.params) /\ Plants(run.params[p], headers)
    /\ phase \notin {"parameters", "refused"} => headers /\ p = Len(run.params) + 1

KeysInv ==
    /\ phase = "parameters" => \A i \in Types : sets[i].key = None
    /\ phase = "keys" => /\ run.key \notin {None, Malformed}
                         /\ \A i \in Types : sets[i].key = IF i < t THEN run.key ELSE None
    /\ phase \in {"ready", "record", "planted"} =>
        run.key # Malformed /\ \A i \in Types : sets[i].key = run.key
    /\ \A i \in Types : sets[i].key # None =>
        LET walk == run.types[i].payload IN
        Locate(walk, run.key) = run.key /\ run.key \in walk.always \intersect walk.holdsKey

RefusalInv ==
    phase = "refused" => /\ flag = "topic" => ParameterInWay
                         /\ flag = "keyPath" => KeyInWay

CheckInv == ListsExact /\ ListsApart /\ LoopsInv /\ KeysInv /\ RefusalInv

-----------------------------------------------------------------------------
(* Plant.                                                                     *)

Due(i) ==
    {List(i, FALSE)[k] : k \in DOMAIN List(i, FALSE)}
        \union {List(i, TRUE)[k] : k \in DOMAIN List(i, TRUE)}
        \union (IF sets[i].key = None THEN {} ELSE {KeyPlanting})

Content(planting) == IF planting.inHeaders THEN header ELSE payload

\* Every place is there until its value is, and what is not to be written any
\* more has been.
RecordInv ==
    phase \in {"record", "planted"} =>
        /\ \A k \in DOMAIN todo : todo[k] \in Due(type)
        /\ \A planting \in Due(type) :
            /\ planting.path \in DOMAIN Content(planting)
            /\ \/ \E k \in DOMAIN todo : todo[k] = planting
               \/ Stands(Content(planting), planting)
        /\ phase = "planted" => todo = <<>>

PlantInv == TypeOK /\ CheckInv /\ RecordInv

-----------------------------------------------------------------------------
(* What a run is.                                                             *)

LEMMA RunType ==
    ASSUME run \in Runs
    PROVE  /\ Len(run.types) \in Nat \ {0} /\ Types = DOMAIN run.types
           /\ Len(run.params) \in Nat /\ Params = DOMAIN run.params
  <1>1. IsSequence(run.types) /\ run.types # <<>> /\ IsSequence(run.params)
    BY RunsAssumption
  <1> QED  BY <1>1 DEF IsSequence, Types, Params

LEMMA PlaceIsPath ==
    ASSUME run \in Runs, NEW i \in Types, NEW q, Place(run.types[i], q) # None
    PROVE  LET walk == IF q.inHeaders THEN run.types[i].headers ELSE run.types[i].payload
               path == Place(run.types[i], q)
           IN walk # None /\ path \in walk.always /\ IsSequence(path)
  <1> DEFINE walk == IF q.inHeaders THEN run.types[i].headers ELSE run.types[i].payload
             path == Place(run.types[i], q)
  <1>1. walk # None /\ path = Locate(walk, q.pointer)
    BY DEF Place
  <1>2. path \in walk.always
    BY <1>1 DEF Locate
  <1>3. \A place \in walk.always : IsSequence(place)
    BY <1>1, RunType, RunsAssumption DEF WalkAssumption
  <1> QED  BY <1>1, <1>2, <1>3

LEMMA OverlapSymmetric ==
    ASSUME NEW a, NEW b, IsSequence(a), IsSequence(b), Overlap(a, b)
    PROVE  Overlap(b, a)
  <1>1. Len(a) \in Nat /\ Len(b) \in Nat
    BY DEF IsSequence
  <1> QED  BY <1>1 DEF Overlap

LEMMA WantedType ==
    ASSUME NEW i, NEW j, NEW inHeaders
    PROVE  /\ Wanted(i, j, inHeaders).value = run.params[j]
           /\ Wanted(i, j, inHeaders).path = Place(run.types[i], run.params[j])
           /\ Wanted(i, j, inHeaders).inHeaders = inHeaders
  BY DEF Wanted, Planted

LEMMA ListType ==
    ASSUME TypeOK, NEW i \in Types, NEW inHeaders \in BOOLEAN
    PROVE  /\ List(i, inHeaders) \in Seq(Plantings)
           /\ Len(List(i, inHeaders)) \in Nat
           /\ DOMAIN List(i, inHeaders) = 1..Len(List(i, inHeaders))
  <1>1. sets[i].payload \in Seq(Plantings) /\ sets[i].headers \in Seq(Plantings)
    BY DEF TypeOK
  <1>2. List(i, inHeaders) \in Seq(Plantings)
    BY <1>1 DEF List
  <1> QED  BY <1>2

\* Everything listed lies at a path the Walk always leads to.
LEMMA ListedIsPath ==
    ASSUME TypeOK, ListsExact, NEW i \in Types, NEW inHeaders \in BOOLEAN,
           NEW k \in DOMAIN List(i, inHeaders)
    PROVE  LET walk == IF inHeaders THEN run.types[i].headers ELSE run.types[i].payload
               planting == List(i, inHeaders)[k]
           IN /\ walk # None /\ planting.path \in walk.always
              /\ IsSequence(planting.path) /\ planting.inHeaders = inHeaders
  <1>1. PICK j \in Params : /\ Plants(run.params[j], inHeaders)
                            /\ List(i, inHeaders)[k] = Wanted(i, j, inHeaders)
                            /\ Place(run.types[i], run.params[j]) # None
    BY DEF ListsExact
  <1>2. run.params[j].inHeaders = inHeaders
    BY <1>1 DEF Plants
  <1> QED  BY <1>1, <1>2, WantedType, PlaceIsPath DEF TypeOK

-----------------------------------------------------------------------------
(* Steps that list nothing.                                                   *)

LEMMA ListsStay ==
    ASSUME TypeOK, ListsExact, ListsApart, run' = run,
           \A i \in Types, inHeaders \in BOOLEAN : List(i, inHeaders)' = List(i, inHeaders),
           \A i \in Types, j \in Params, inHeaders \in BOOLEAN :
                Plants(run.params[j], inHeaders)
                    => (Through(i, j, inHeaders)' <=> Through(i, j, inHeaders))
    PROVE  ListsExact' /\ ListsApart'
  <1>1. Types' = Types /\ Params' = Params
    BY DEF Types, Params
  <1>2. \A i, j, inHeaders : Wanted(i, j, inHeaders)' = Wanted(i, j, inHeaders)
    BY DEF Wanted
  <1>3. ListsExact'
    BY <1>1, <1>2 DEF ListsExact
  <1>4. ListsApart'
    <2>1. \A i \in Types : List(i, FALSE)' = List(i, FALSE)
      OBVIOUS
    <2> QED  BY <1>1, <2>1 DEF ListsApart
  <1> QED  BY <1>3, <1>4

LEMMA SetsStay ==
    ASSUME sets' = sets, run' = run
    PROVE  /\ \A i, inHeaders : List(i, inHeaders)' = List(i, inHeaders)
           /\ Types' = Types /\ Params' = Params /\ Plantings' = Plantings
           /\ KeyPlanting' = KeyPlanting
  BY DEF List, Types, Params, Plantings, Wanted, KeyPlanting

LEMMA RunConstant ==
    ASSUME run' = run
    PROVE  (ParameterInWay' <=> ParameterInWay) /\ (KeyInWay' <=> KeyInWay)
  BY DEF ParameterInWay, KeyInWay, Asked

-----------------------------------------------------------------------------
(* The steps of New.                                                          *)

LEMMA PassOverInv ==
    ASSUME PlantInv, PassOver
    PROVE  PlantInv'
  <1>1. /\ TypeOK /\ run' = run /\ phase' = phase /\ headers' = headers /\ t' = t /\ p' = p + 1
        /\ sets' = sets /\ flag' = flag /\ type' = type /\ payload' = payload
        /\ header' = header /\ todo' = todo
        /\ phase = "parameters" /\ p <= Len(run.params) /\ ~Plants(run.params[p], headers)
    BY DEF PlantInv, PassOver, Checking, Parameter, record
  <1>2. TypeOK'
    BY <1>1, RunType, SetsStay DEF TypeOK
  <1>3. t = 1
    BY <1>1, RunType DEF PlantInv, CheckInv, LoopsInv, TypeOK, Types
  <1>4. ASSUME NEW i \in Types, NEW j \in Params, NEW inHeaders \in BOOLEAN,
               Plants(run.params[j], inHeaders)
        PROVE  Through(i, j, inHeaders)' <=> Through(i, j, inHeaders)
    <2>1. headers = inHeaders => j # p
      BY <1>1, <1>4
    <2>2. i \in Nat \ {0} /\ j \in Nat /\ p \in Nat
      BY <1>1, RunType DEF TypeOK, Types, Params
    <2>3. (j < p + 1 \/ (j = p + 1 /\ i < 1)) <=> (j < p \/ (j = p /\ i < 1) \/ j = p)
      BY <2>2
    <2> QED  BY <1>1, <1>3, <2>1, <2>3 DEF Through
  <1>5. ListsExact' /\ ListsApart'
    BY <1>1, <1>4, SetsStay, ListsStay DEF PlantInv, CheckInv
  <1>6. LoopsInv'
    BY <1>1, <1>3 DEF LoopsInv
  <1>7. KeysInv'
    BY <1>1, SetsStay DEF PlantInv, CheckInv, KeysInv
  <1> QED  BY <1>1, <1>2, <1>5, <1>6, <1>7 DEF PlantInv, CheckInv, RefusalInv, RecordInv

\* What the loops have listed is what they have been through: two parameters
\* that overlap are two of those asked for.
LEMMA RefuseParameterInv ==
    ASSUME PlantInv, RefuseParameter
    PROVE  PlantInv'
  <1> DEFINE path == Place(run.types[t], run.params[p])
  <1>1. /\ TypeOK /\ run' = run /\ headers' = headers /\ p' = p /\ t' = t
        /\ sets' = sets /\ type' = type /\ payload' = payload
        /\ header' = header /\ todo' = todo
        /\ phase = "parameters" /\ p <= Len(run.params) /\ Plants(run.params[p], headers)
        /\ phase' = "refused" /\ flag' \in {"topic", "keyPath"}
    BY DEF PlantInv, RefuseParameter, Refuse, Checking, Parameter, record, check
  <1>2. TypeOK'
    BY <1>1, SetsStay DEF TypeOK
  <1>3. ListsExact' /\ ListsApart'
    <2>1. \A i, j, inHeaders : Through(i, j, inHeaders)' <=> Through(i, j, inHeaders)
      BY <1>1 DEF Through
    <2> QED  BY <1>1, <2>1, SetsStay, ListsStay DEF PlantInv, CheckInv
  <1>4. LoopsInv' /\ KeysInv' /\ RecordInv'
    BY <1>1, SetsStay DEF PlantInv, CheckInv, LoopsInv, KeysInv, RecordInv
  <1>5. /\ t \in 1..Len(run.types) /\ p \in Params /\ p \in 1..Len(run.params)
        /\ Len(run.params) \in Nat
    BY <1>1, RunType DEF TypeOK, Types, Params
  <1>6. Wanted(t, p, headers) \in Asked(run.types[t], headers)
    BY <1>1, <1>5 DEF Asked, Wanted
  <1>7. flag' = "topic" => ParameterInWay
    <2>1. CASE path = None
      <3>1. Wanted(t, p, headers).path = None
        BY <2>1, WantedType
      <3> QED  BY <1>1, <1>5, <1>6, <3>1 DEF ParameterInWay, TypeOK
    <2>2. CASE path # None /\ MeetsOther(path)
      <3>1. Others(sets[t]) = List(t, headers)
        BY <1>1 DEF Others, List
      <3>2. PICK k \in DOMAIN List(t, headers) : Overlap(path, List(t, headers)[k].path)
        BY <1>1, <2>2, <3>1, ListType DEF MeetsOther, TypeOK
      <3>3. PICK j \in Params : /\ Plants(run.params[j], headers) /\ Through(t, j, headers)
                                /\ List(t, headers)[k] = Wanted(t, j, headers)
        BY <1>1 DEF PlantInv, CheckInv, ListsExact, TypeOK
      <3>4. j # p
        BY <1>1, <1>5, <3>3 DEF Through, TypeOK, Types
      <3>5. run.params[j] # run.params[p]
        BY <1>1, <1>5, <3>4, RunType, RunsAssumption DEF TypeOK
      <3>6. Wanted(t, j, headers) # Wanted(t, p, headers)
        BY <3>5, WantedType
      <3>7. Wanted(t, j, headers) \in Asked(run.types[t], headers)
        BY <3>3 DEF Asked, Wanted, Params
      <3>8. Overlap(Wanted(t, p, headers).path, Wanted(t, j, headers).path)
        BY <3>2, <3>3, WantedType
      <3> QED  BY <1>1, <1>5, <1>6, <3>6, <3>7, <3>8 DEF ParameterInWay, TypeOK
    <2> QED  BY <2>1, <2>2 DEF RefuseParameter, Refuse, Parameter
  <1>8. flag' = "keyPath" => KeyInWay
    <2>1. flag' = "keyPath" => path # None /\ MeetsKey(path)
      BY DEF RefuseParameter, Refuse, Parameter
    <2>2. Wanted(t, p, headers).path = path
      BY WantedType
    <2> SUFFICES ASSUME path # None, MeetsKey(path) PROVE KeyInWay
      BY <2>1
    <2>3. headers = FALSE
      BY <1>1 DEF MeetsKey, TypeOK
    <2>4. Wanted(t, p, headers) \in Asked(run.types[t], FALSE)
      BY <1>6, <2>3
    <2>5. run.key \notin {None, Malformed} /\ Overlap(Wanted(t, p, headers).path, run.key)
      BY <2>2 DEF MeetsKey
    <2> QED  BY <1>5, <2>2, <2>4, <2>5 DEF KeyInWay
  <1> QED
    BY <1>1, <1>2, <1>3, <1>4, <1>7, <1>8, RunConstant DEF PlantInv, CheckInv, RefusalInv

\* The parameter in hand goes at the end of one list, and every other list
\* stays as it is.
LEMMA ParameterTaken ==
    ASSUME TypeOK, TakeParameter
    PROVE  /\ sets' \in [Types -> [key : {None, run.key}, payload : Seq(Plantings),
                                   headers : Seq(Plantings)]]
           /\ \A i \in Types : sets'[i].key = sets[i].key
           /\ \A i \in Types, inHeaders \in BOOLEAN :
                List(i, inHeaders)' =
                    IF i = t /\ inHeaders = headers
                    THEN Append(List(i, inHeaders), Wanted(i, p, inHeaders))
                    ELSE List(i, inHeaders)
  <1> DEFINE new == Wanted(t, p, headers)
  <1>1. /\ t \in Types /\ headers \in BOOLEAN /\ p \in Params
        /\ sets \in [Types -> [key : {None, run.key}, payload : Seq(Plantings),
                               headers : Seq(Plantings)]]
    BY RunType DEF TypeOK, TakeParameter, Checking, Params
  <1>2. new \in Plantings
    BY <1>1 DEF Plantings
  <1>3. new = Planted(Parameter, Place(run.types[t], Parameter), headers)
    BY DEF Wanted, Parameter
  <1> HIDE DEF new
  <1>4. CASE headers
    <2>1. sets' = [sets EXCEPT ![t].headers = Append(@, new)]
      BY <1>3, <1>4 DEF TakeParameter
    <2>2. Append(sets[t].headers, new) \in Seq(Plantings)
      BY <1>1, <1>2
    <2>3. sets' \in [Types -> [key : {None, run.key}, payload : Seq(Plantings),
                               headers : Seq(Plantings)]]
      BY <1>1, <2>1, <2>2
    <2>4. /\ \A i \in Types : sets'[i].key = sets[i].key /\ sets'[i].payload = sets[i].payload
          /\ \A i \in Types \ {t} : sets'[i].headers = sets[i].headers
          /\ sets'[t].headers = Append(sets[t].headers, new)
      BY <1>1, <2>1
    <2> QED  BY <1>4, <2>3, <2>4 DEF List, new
  <1>5. CASE ~headers
    <2>1. sets' = [sets EXCEPT ![t].payload = Append(@, new)]
      BY <1>3, <1>5 DEF TakeParameter
    <2>2. Append(sets[t].payload, new) \in Seq(Plantings)
      BY <1>1, <1>2
    <2>3. sets' \in [Types -> [key : {None, run.key}, payload : Seq(Plantings),
                               headers : Seq(Plantings)]]
      BY <1>1, <2>1, <2>2
    <2>4. /\ \A i \in Types : sets'[i].key = sets[i].key /\ sets'[i].headers = sets[i].headers
          /\ \A i \in Types \ {t} : sets'[i].payload = sets[i].payload
          /\ sets'[t].payload = Append(sets[t].payload, new)
      BY <1>1, <2>1
    <2> QED  BY <1>1, <1>5, <2>3, <2>4 DEF List, new
  <1> QED  BY <1>4, <1>5

\* The loop over the Message types, and then the one over the parameters.
LEMMA LoopsOn ==
    ASSUME TypeOK, TakeParameter, NEW i \in Types, NEW j \in Params, NEW inHeaders \in BOOLEAN
    PROVE  /\ Through(i, j, inHeaders)' <=>
                Through(i, j, inHeaders) \/ (i = t /\ j = p /\ inHeaders = headers)
           /\ t' \in Types /\ p' \in 1..(Len(run.params) + 1)
           /\ t' > 1 => p' = p
  <1>1. /\ i \in 1..Len(run.types) /\ t \in 1..Len(run.types) /\ Len(run.types) \in Nat \ {0}
        /\ j \in Nat /\ p \in 1..Len(run.params) /\ Len(run.params) \in Nat
        /\ headers' = headers /\ headers \in BOOLEAN
    BY RunType DEF TypeOK, TakeParameter, Types, Params, Checking
  <1>2. CASE t < Len(run.types)
    <2>1. t' = t + 1 /\ p' = p
      BY <1>2 DEF TakeParameter, NextType
    <2>2. (j < p \/ (j = p /\ i < t + 1)) <=> (j < p \/ (j = p /\ i < t) \/ (i = t /\ j = p))
      BY <1>1
    <2> QED  BY <1>1, <1>2, <2>1, <2>2 DEF Through, Types
  <1>3. CASE ~(t < Len(run.types))
    <2>1. t' = 1 /\ p' = p + 1
      BY <1>3 DEF TakeParameter, NextType
    <2>2. (j < p + 1 \/ (j = p + 1 /\ i < 1))
            <=> (j < p \/ (j = p /\ i < t) \/ (i = t /\ j = p))
      BY <1>1, <1>3
    <2> QED  BY <1>1, <2>1, <2>2 DEF Through, Types
  <1> QED  BY <1>2, <1>3

LEMMA TakeParameterInv ==
    ASSUME PlantInv, TakeParameter
    PROVE  PlantInv'
  <1> DEFINE path == Place(run.types[t], run.params[p])
  <1>1. /\ TypeOK /\ run' = run /\ phase' = phase /\ headers' = headers /\ flag' = flag
        /\ type' = type /\ payload' = payload /\ header' = header /\ todo' = todo
        /\ phase = "parameters" /\ p <= Len(run.params) /\ Plants(run.params[p], headers)
        /\ path # None /\ ~MeetsKey(path) /\ ~MeetsOther(path)
    BY DEF PlantInv, TakeParameter, Checking, Parameter, record
  <1>2. /\ t \in Types /\ headers \in BOOLEAN /\ p \in Params
        /\ Types' = Types /\ Params' = Params /\ Plantings' = Plantings
        /\ KeyPlanting' = KeyPlanting
        /\ \A i, j, inHeaders : Wanted(i, j, inHeaders)' = Wanted(i, j, inHeaders)
    BY <1>1, RunType DEF TypeOK, Types, Params, Plantings, KeyPlanting, Wanted
  <1>3. /\ \A i \in Types : sets'[i].key = sets[i].key
        /\ \A i \in Types, inHeaders \in BOOLEAN :
            List(i, inHeaders)' = IF i = t /\ inHeaders = headers
                                  THEN Append(List(i, inHeaders), Wanted(i, p, inHeaders))
                                  ELSE List(i, inHeaders)
    BY <1>1, ParameterTaken
  <1>4. TypeOK'
    <2>1. t' \in Types /\ p' \in 1..(Len(run.params) + 1)
      BY <1>1, <1>2, LoopsOn
    <2> QED  BY <1>1, <1>2, <2>1, ParameterTaken DEF TypeOK
  <1>5. ASSUME NEW i \in Types, NEW inHeaders \in BOOLEAN
        PROVE  LET n == Len(List(i, inHeaders)) IN
               /\ DOMAIN List(i, inHeaders) = 1..n /\ n \in Nat
               /\ \A k \in 1..n : List(i, inHeaders)'[k] = List(i, inHeaders)[k]
               /\ IF i = t /\ inHeaders = headers
                  THEN DOMAIN List(i, inHeaders)' = 1..(n + 1)
                       /\ List(i, inHeaders)'[n + 1] = Wanted(i, p, inHeaders)
                  ELSE DOMAIN List(i, inHeaders)' = 1..n
    <2>1. /\ DOMAIN List(i, inHeaders) = 1..Len(List(i, inHeaders))
          /\ List(i, inHeaders) \in Seq(Plantings) /\ Len(List(i, inHeaders)) \in Nat
      BY <1>1, ListType
    <2>2. CASE i = t /\ inHeaders = headers
      <3>1. Wanted(i, p, inHeaders) \in Plantings
        BY <1>2 DEF Plantings
      <3>2. List(i, inHeaders)' = Append(List(i, inHeaders), Wanted(i, p, inHeaders))
        BY <1>3, <2>2
      <3> QED  BY <2>1, <2>2, <3>1, <3>2
    <2>3. CASE ~(i = t /\ inHeaders = headers)
      BY <1>3, <2>1, <2>3
    <2> QED  BY <2>2, <2>3
  <1>6. \A i \in Types, j \in Params, inHeaders \in BOOLEAN :
            Through(i, j, inHeaders)' <=>
                Through(i, j, inHeaders) \/ (i = t /\ j = p /\ inHeaders = headers)
    BY <1>1, LoopsOn
  <1>7. ListsExact'
    <2> SUFFICES ASSUME NEW i \in Types, NEW inHeaders \in BOOLEAN
                 PROVE  /\ \A k \in DOMAIN List(i, inHeaders)' : \E j \in Params :
                            /\ Plants(run.params[j], inHeaders) /\ Through(i, j, inHeaders)'
                            /\ List(i, inHeaders)'[k] = Wanted(i, j, inHeaders)
                            /\ Place(run.types[i], run.params[j]) # None
                        /\ \A j \in Params :
                            Plants(run.params[j], inHeaders) /\ Through(i, j, inHeaders)'
                                => \E k \in DOMAIN List(i, inHeaders)' :
                                        List(i, inHeaders)'[k] = Wanted(i, j, inHeaders)
      BY <1>1, <1>2 DEF ListsExact
    <2> DEFINE n == Len(List(i, inHeaders))
    <2>1. /\ DOMAIN List(i, inHeaders) = 1..n /\ n \in Nat
          /\ \A k \in 1..n : List(i, inHeaders)'[k] = List(i, inHeaders)[k]
      BY <1>5
    <2>2. /\ \A k \in 1..n : \E j \in Params :
                /\ Plants(run.params[j], inHeaders) /\ Through(i, j, inHeaders)
                /\ List(i, inHeaders)[k] = Wanted(i, j, inHeaders)
                /\ Place(run.types[i], run.params[j]) # None
          /\ \A j \in Params : Plants(run.params[j], inHeaders) /\ Through(i, j, inHeaders)
                => \E k \in 1..n : List(i, inHeaders)[k] = Wanted(i, j, inHeaders)
      BY <2>1 DEF PlantInv, CheckInv, ListsExact
    <2> HIDE DEF n
    <2>3. CASE i = t /\ inHeaders = headers
      <3>1. /\ DOMAIN List(i, inHeaders)' = 1..(n + 1)
            /\ List(i, inHeaders)'[n + 1] = Wanted(i, p, inHeaders)
        BY <1>5, <2>3 DEF n
      <3>2. ASSUME NEW k \in 1..(n + 1)
            PROVE  \E j \in Params :
                    /\ Plants(run.params[j], inHeaders) /\ Through(i, j, inHeaders)'
                    /\ List(i, inHeaders)'[k] = Wanted(i, j, inHeaders)
                    /\ Place(run.types[i], run.params[j]) # None
        <4>1. CASE k \in 1..n
          BY <1>6, <2>1, <2>2, <4>1
        <4>2. CASE k = n + 1
          BY <1>1, <1>2, <1>6, <2>3, <3>1, <4>2
        <4> QED  BY <2>1, <4>1, <4>2
      <3>3. ASSUME NEW j \in Params, Plants(run.params[j], inHeaders), Through(i, j, inHeaders)'
            PROVE  \E k \in 1..(n + 1) : List(i, inHeaders)'[k] = Wanted(i, j, inHeaders)
        <4>1. CASE Through(i, j, inHeaders)
          BY <2>1, <2>2, <3>3, <4>1
        <4>2. CASE j = p
          BY <2>1, <3>1, <4>2
        <4> QED  BY <1>6, <3>3, <4>1, <4>2
      <3> QED  BY <3>1, <3>2, <3>3
    <2>4. CASE ~(i = t /\ inHeaders = headers)
      <3>1. DOMAIN List(i, inHeaders)' = 1..n
        BY <1>5, <2>4 DEF n
      <3>2. \A j \in Params : Through(i, j, inHeaders)' <=> Through(i, j, inHeaders)
        BY <1>6, <2>4
      <3> QED  BY <2>1, <2>2, <3>1, <3>2
    <2> QED  BY <2>3, <2>4
  <1>8. ListsApart'
    <2>1. Others(sets[t]) = List(t, headers)
      BY <1>2 DEF Others, List
    <2>2. ASSUME NEW i \in Types, NEW inHeaders \in BOOLEAN,
                 NEW k \in DOMAIN List(i, inHeaders)', NEW l \in DOMAIN List(i, inHeaders)',
                 k # l
          PROVE  ~Overlap(List(i, inHeaders)'[k].path, List(i, inHeaders)'[l].path)
      <3> DEFINE n == Len(List(i, inHeaders))
      <3>1. /\ DOMAIN List(i, inHeaders) = 1..n /\ n \in Nat
            /\ \A m \in 1..n : List(i, inHeaders)'[m] = List(i, inHeaders)[m]
        BY <1>5
      <3>2. \A a, b \in 1..n : a # b =>
                ~Overlap(List(i, inHeaders)[a].path, List(i, inHeaders)[b].path)
        BY <3>1 DEF PlantInv, CheckInv, ListsApart
      <3> HIDE DEF n
      <3>3. CASE i = t /\ inHeaders = headers
        <4>1. /\ DOMAIN List(i, inHeaders)' = 1..(n + 1)
              /\ List(i, inHeaders)'[n + 1] = Wanted(i, p, inHeaders)
          BY <1>5, <3>3 DEF n
        <4>2. Wanted(i, p, inHeaders).path = path
          BY <3>3, WantedType
        <4>3. \A a \in 1..n : ~Overlap(path, List(i, inHeaders)[a].path)
          BY <1>1, <2>1, <3>1, <3>3 DEF MeetsOther, n
        <4>4. \A a \in 1..n : ~Overlap(List(i, inHeaders)[a].path, path)
          <5>1. IsSequence(path)
            BY <1>1, <1>2, PlaceIsPath DEF TypeOK
          <5>2. \A a \in 1..n : IsSequence(List(i, inHeaders)[a].path)
            BY <1>1, <3>1, ListedIsPath DEF PlantInv, CheckInv
          <5> QED  BY <4>3, <5>1, <5>2, OverlapSymmetric
        <4> QED  BY <2>2, <3>1, <3>2, <4>1, <4>2, <4>3, <4>4
      <3>4. CASE ~(i = t /\ inHeaders = headers)
        BY <1>5, <2>2, <3>1, <3>2, <3>4 DEF n
      <3> QED  BY <3>3, <3>4
    <2>3. ASSUME NEW i \in Types, NEW k \in DOMAIN List(i, FALSE)',
                 run.key \notin {None, Malformed}
          PROVE  ~Overlap(List(i, FALSE)'[k].path, run.key)
      <3> DEFINE n == Len(List(i, FALSE))
      <3>1. /\ DOMAIN List(i, FALSE) = 1..n /\ n \in Nat
            /\ \A m \in 1..n : List(i, FALSE)'[m] = List(i, FALSE)[m]
        BY <1>5
      <3>2. \A m \in 1..n : ~Overlap(List(i, FALSE)[m].path, run.key)
        BY <2>3, <3>1 DEF PlantInv, CheckInv, ListsApart
      <3>3. CASE i = t /\ FALSE = headers
        <4>1. /\ DOMAIN List(i, FALSE)' = 1..(n + 1)
              /\ List(i, FALSE)'[n + 1] = Wanted(i, p, FALSE)
          BY <1>5, <3>3
        <4>2. Wanted(i, p, FALSE).path = path
          <5>1. Wanted(i, p, FALSE).path = Place(run.types[i], run.params[p])
            BY DEF Wanted, Planted
          <5> QED  BY <3>3, <5>1
        <4>3. ~Overlap(path, run.key)
          BY <1>1, <2>3, <3>3 DEF MeetsKey
        <4> HIDE DEF n
        <4>4. k \in 1..n \/ k = n + 1
          <5>1. k \in 1..(n + 1)
            BY <4>1
          <5> QED  BY <3>1, <5>1
        <4>5. CASE k \in 1..n
          BY <3>1, <3>2, <4>5
        <4>6. CASE k = n + 1
          BY <4>1, <4>2, <4>3, <4>6
        <4> QED  BY <4>4, <4>5, <4>6
      <3>4. CASE ~(i = t /\ FALSE = headers)
        BY <1>5, <3>1, <3>2, <3>4
      <3> QED  BY <3>3, <3>4
    <2> QED  BY <1>1, <1>2, <2>2, <2>3 DEF ListsApart
  <1>9. LoopsInv'
    BY <1>1, <1>2, LoopsOn DEF LoopsInv
  <1>10. KeysInv'
    BY <1>1, <1>2, <1>3 DEF PlantInv, CheckInv, KeysInv
  <1> QED  BY <1>1, <1>4, <1>7, <1>8, <1>9, <1>10 DEF PlantInv, CheckInv, RefusalInv, RecordInv

LEMMA ThenHeadersInv ==
    ASSUME PlantInv, ThenHeaders
    PROVE  PlantInv'
  <1>1. /\ TypeOK /\ run' = run /\ phase' = phase /\ t' = t /\ p' = 1 /\ headers' = TRUE
        /\ sets' = sets /\ flag' = flag /\ type' = type /\ payload' = payload
        /\ header' = header /\ todo' = todo
        /\ phase = "parameters" /\ p > Len(run.params) /\ ~headers
    BY DEF PlantInv, ThenHeaders, record
  <1>2. TypeOK'
    BY <1>1, RunType, SetsStay DEF TypeOK
  <1>3. t = 1
    BY <1>1, RunType DEF PlantInv, CheckInv, LoopsInv, TypeOK, Types
  <1>4. ASSUME NEW i \in Types, NEW j \in Params, NEW inHeaders \in BOOLEAN
        PROVE  Through(i, j, inHeaders)' <=> Through(i, j, inHeaders)
    <2>1. i \in Nat \ {0} /\ j \in Nat \ {0} /\ p \in Nat /\ j < p
      BY <1>1, RunType DEF TypeOK, Types, Params
    <2>2. ~(j < 1 \/ (j = 1 /\ i < 1))
      BY <2>1
    <2>3. CASE inHeaders
      <3>1. ~Through(i, j, inHeaders)
        BY <1>1, <2>3 DEF Through
      <3>2. ~Through(i, j, inHeaders)'
        BY <1>1, <1>3, <2>2, <2>3 DEF Through
      <3> QED  BY <3>1, <3>2
    <2>4. CASE ~inHeaders
      <3>1. headers = inHeaders /\ headers' # inHeaders
        BY <1>1, <2>4 DEF TypeOK
      <3>2. Through(i, j, inHeaders)
        BY <2>1, <3>1 DEF Through
      <3>3. Through(i, j, inHeaders)'
        BY <1>1, <2>4 DEF Through
      <3> QED  BY <3>2, <3>3
    <2> QED  BY <2>3, <2>4
  <1>5. ListsExact' /\ ListsApart'
    BY <1>1, <1>4, SetsStay, ListsStay DEF PlantInv, CheckInv
  <1>6. LoopsInv'
    BY <1>1, <1>3 DEF LoopsInv
  <1>7. KeysInv'
    BY <1>1, SetsStay DEF PlantInv, CheckInv, KeysInv
  <1> QED  BY <1>1, <1>2, <1>5, <1>6, <1>7 DEF PlantInv, CheckInv, RefusalInv, RecordInv

LEMMA ThenKeyInv ==
    ASSUME PlantInv, ThenKey
    PROVE  PlantInv'
  <1>1. /\ TypeOK /\ run' = run /\ headers' = headers /\ p' = p /\ t' = t
        /\ sets' = sets /\ type' = type /\ payload' = payload
        /\ header' = header /\ todo' = todo
        /\ phase = "parameters" /\ p > Len(run.params) /\ headers
        /\ \/ run.key = None /\ phase' = "ready"
           \/ run.key = Malformed /\ phase' = "refused" /\ flag' = "keyPath"
           \/ run.key \notin {None, Malformed} /\ phase' = "keys"
    BY DEF PlantInv, ThenKey, Refuse, record, check
  <1>2. TypeOK'
    BY <1>1, SetsStay DEF TypeOK
  <1>3. ListsExact' /\ ListsApart'
    <2>1. \A i, j, inHeaders : Through(i, j, inHeaders)' <=> Through(i, j, inHeaders)
      BY <1>1 DEF Through
    <2> QED  BY <1>1, <2>1, SetsStay, ListsStay DEF PlantInv, CheckInv
  <1>4. t = 1 /\ p = Len(run.params) + 1
    <2>1. /\ p \in 1..(Len(run.params) + 1) /\ Len(run.params) \in Nat
          /\ t \in 1..Len(run.types) /\ Len(run.types) \in Nat
      BY <1>1, RunType DEF TypeOK, Types
    <2>2. ~(t > 1)
      <3>1. phase = "parameters" /\ t > 1 => p <= Len(run.params)
        BY DEF PlantInv, CheckInv, LoopsInv
      <3>2. phase = "parameters" /\ p > Len(run.params)
        BY <1>1
      <3> QED  BY <2>1, <3>1, <3>2
    <2> QED  BY <1>1, <2>1, <2>2
  <1>5. LoopsInv'
    BY <1>1, <1>4 DEF LoopsInv
  <1>6. KeysInv'
    <2>1. \A i \in Types : sets[i].key = None /\ ~(i < 1)
      BY <1>1, RunType DEF PlantInv, CheckInv, KeysInv, Types
    <2> QED  BY <1>1, <1>4, <2>1, SetsStay, MalformedAssumption DEF KeysInv
  <1>7. RefusalInv' /\ RecordInv'
    <2>1. run.key = Malformed /\ run.key # None => KeyInWay
      BY DEF KeyInWay
    <2> QED  BY <1>1, <2>1, MalformedAssumption, RunConstant DEF RefusalInv, RecordInv
  <1> QED  BY <1>1, <1>2, <1>3, <1>5, <1>6, <1>7 DEF PlantInv, CheckInv

LEMMA CheckKeyInv ==
    ASSUME PlantInv, CheckKey
    PROVE  PlantInv'
  <1> DEFINE walk == run.types[t].payload
             path == Locate(walk, run.key)
  <1>1. /\ TypeOK /\ run' = run /\ headers' = headers /\ p' = p
        /\ type' = type /\ payload' = payload /\ header' = header /\ todo' = todo
        /\ phase = "keys" /\ headers /\ p = Len(run.params) + 1
        /\ run.key \notin {None, Malformed}
        /\ \A i \in Types : sets[i].key = IF i < t THEN run.key ELSE None
    BY DEF PlantInv, CheckInv, LoopsInv, KeysInv, CheckKey, Refuse, record, check
  <1>2. /\ t \in Types /\ t \in 1..Len(run.types) /\ Len(run.types) \in Nat
        /\ t \in DOMAIN run.types
        /\ Types' = Types /\ Params' = Params /\ Plantings' = Plantings
        /\ KeyPlanting' = KeyPlanting
    BY <1>1, RunType DEF TypeOK, Types, Params, Plantings, KeyPlanting, Wanted
  <1>3. /\ \A place \in walk.always \union walk.holdsKey : place # None
        /\ run.key \in DOMAIN walk.leads => walk.leads[run.key] = run.key
    BY <1>1, <1>2, RunsAssumption DEF WalkAssumption, TypeOK
  <1>4. CASE path = None \/ path \notin walk.holdsKey
    <2>1. phase' = "refused" /\ flag' = "keyPath" /\ t' = t /\ sets' = sets
      BY <1>4 DEF CheckKey, Refuse, check
    <2>2. path \notin walk.holdsKey
      BY <1>3, <1>4
    <2>3. KeyInWay
      BY <1>1, <1>2, <2>2 DEF KeyInWay
    <2>4. ListsExact' /\ ListsApart'
      <3>1. \A i, j, inHeaders : Through(i, j, inHeaders)' <=> Through(i, j, inHeaders)
        BY <1>1, <2>1 DEF Through
      <3> QED  BY <1>1, <2>1, <3>1, SetsStay, ListsStay DEF PlantInv, CheckInv
    <2>5. TypeOK' /\ KeysInv' /\ LoopsInv'
      BY <1>1, <2>1, SetsStay DEF TypeOK, PlantInv, CheckInv, KeysInv, LoopsInv
    <2> QED  BY <1>1, <2>1, <2>3, <2>4, <2>5, RunConstant
             DEF PlantInv, CheckInv, RefusalInv, RecordInv
  <1>5. CASE path # None /\ path \in walk.holdsKey
    <2>1. /\ sets' = [sets EXCEPT ![t].key = path]
          /\ IF t < Len(run.types) THEN t' = t + 1 /\ phase' = phase
                                   ELSE t' = 1 /\ phase' = "ready"
      BY <1>5 DEF CheckKey
    <2>2. /\ path = run.key /\ path \in walk.always
      BY <1>3, <1>5 DEF Locate
    <2> HIDE DEF path
    <2>3. /\ sets' \in [Types -> [key : {None, run.key}, payload : Seq(Plantings),
                                  headers : Seq(Plantings)]]
          /\ sets'[t].key = run.key
          /\ \A i \in Types : sets'[i].payload = sets[i].payload
                              /\ sets'[i].headers = sets[i].headers
          /\ \A i \in Types \ {t} : sets'[i].key = sets[i].key
      BY <1>1, <1>2, <2>1, <2>2 DEF TypeOK
    <2>4. TypeOK'
      BY <1>1, <1>2, <2>1, <2>3 DEF TypeOK, Types
    <2>5. ListsExact' /\ ListsApart'
      <3>1. \A i \in Types, inHeaders \in BOOLEAN : List(i, inHeaders)' = List(i, inHeaders)
        BY <2>3 DEF List
      <3>2. ASSUME NEW i \in Types, NEW j \in Params, NEW inHeaders \in BOOLEAN
            PROVE  Through(i, j, inHeaders)' <=> Through(i, j, inHeaders)
        <4>1. j \in Nat /\ p \in Nat /\ j < p
          BY <1>1, RunType DEF TypeOK, Params
        <4> QED  BY <1>1, <4>1 DEF Through
      <3> QED  BY <1>1, <3>1, <3>2, ListsStay DEF PlantInv, CheckInv
    <2>6. LoopsInv'
      BY <1>1, <2>1 DEF LoopsInv
    <2>7. KeysInv'
      <3>1. \A i \in Types : sets'[i].key = IF i <= t THEN run.key ELSE None
        BY <1>1, <1>2, <2>3 DEF Types
      <3>2. phase' = "keys" => \A i \in Types : sets'[i].key = IF i < t' THEN run.key ELSE None
        BY <1>2, <2>1, <3>1 DEF Types
      <3>3. phase' # "keys" => \A i \in Types : sets'[i].key = run.key
        BY <1>1, <1>2, <2>1, <3>1 DEF Types
      <3>4. \A i \in Types : sets'[i].key # None =>
                /\ Locate(run.types[i].payload, run.key) = run.key
                /\ run.key \in run.types[i].payload.always \intersect run.types[i].payload.holdsKey
        BY <1>5, <2>2, <2>3 DEF PlantInv, CheckInv, KeysInv, path
      <3> QED  BY <1>1, <1>2, <2>1, <3>2, <3>3, <3>4 DEF KeysInv
    <2> QED  BY <1>1, <2>1, <2>4, <2>5, <2>6, <2>7
             DEF PlantInv, CheckInv, RefusalInv, RecordInv
  <1> QED  BY <1>4, <1>5

-----------------------------------------------------------------------------
(* The steps of a record.                                                     *)

\* all has the elements of a and b, and no others.
HasBoth(all, a, b) ==
    /\ \A k \in DOMAIN all : \/ \E l \in DOMAIN a : all[k] = a[l]
                             \/ \E l \in DOMAIN b : all[k] = b[l]
    /\ \A l \in DOMAIN a : \E k \in DOMAIN all : all[k] = a[l]
    /\ \A l \in DOMAIN b : \E k \in DOMAIN all : all[k] = b[l]

LEMMA ElementsOfBoth ==
    ASSUME NEW S, NEW a \in Seq(S), NEW b \in Seq(S)
    PROVE  a \o b \in Seq(S) /\ HasBoth(a \o b, a, b)
  <1>1. /\ a \o b \in Seq(S) /\ Len(a) \in Nat /\ Len(b) \in Nat
        /\ DOMAIN a = 1..Len(a) /\ DOMAIN b = 1..Len(b)
        /\ DOMAIN (a \o b) = 1..(Len(a) + Len(b))
        /\ \A k \in 1..(Len(a) + Len(b)) :
            (a \o b)[k] = IF k <= Len(a) THEN a[k] ELSE b[k - Len(a)]
    OBVIOUS
  <1>2. \A l \in DOMAIN b : Len(a) + l \in DOMAIN (a \o b) /\ (a \o b)[Len(a) + l] = b[l]
    BY <1>1
  <1>3. \A l \in DOMAIN a : l \in DOMAIN (a \o b) /\ (a \o b)[l] = a[l]
    BY <1>1
  <1>4. \A k \in DOMAIN (a \o b) :
            \/ k \in DOMAIN a /\ (a \o b)[k] = a[k]
            \/ k - Len(a) \in DOMAIN b /\ (a \o b)[k] = b[k - Len(a)]
    BY <1>1
  <1>5. a \o b \in Seq(S)
    OBVIOUS
  <1> QED  BY <1>2, <1>3, <1>4, <1>5, Zenon DEF HasBoth

\* What is due in a record is listed, or is the Key.
LEMMA DueIsListed ==
    ASSUME TypeOK, NEW i \in Types, NEW a \in Due(i)
    PROVE  \/ \E inHeaders \in BOOLEAN : \E k \in DOMAIN List(i, inHeaders) :
                a = List(i, inHeaders)[k]
           \/ a = KeyPlanting /\ sets[i].key # None
  <1>1. TRUE \in BOOLEAN /\ FALSE \in BOOLEAN
    OBVIOUS
  <1> QED  BY <1>1, Zenon DEF Due

LEMMA KeyDue ==
    ASSUME TypeOK, CheckInv, phase \in {"ready", "record", "planted"},
           NEW i \in Types, sets[i].key # None
    PROVE  /\ run.key \notin {None, Malformed} /\ IsSequence(run.key)
           /\ run.key \in run.types[i].payload.always
           /\ KeyPlanting.path = run.key /\ KeyPlanting.inHeaders = FALSE
  <1>1. sets[i].key = run.key /\ run.key # Malformed
    BY DEF CheckInv, KeysInv
  <1>2. run.key \in run.types[i].payload.always
    BY DEF CheckInv, KeysInv
  <1>3. IsSequence(run.key)
    BY <1>2, RunType, RunsAssumption DEF WalkAssumption, TypeOK
  <1> QED  BY <1>1, <1>2, <1>3 DEF KeyPlanting, Planted

\* It lies at a place every record has.
LEMMA DuePlace ==
    ASSUME TypeOK, CheckInv, phase \in {"ready", "record", "planted"},
           NEW i \in Types, NEW a \in Due(i)
    PROVE  /\ a.inHeaders \in BOOLEAN /\ IsSequence(a.path)
           /\ a.inHeaders => /\ run.types[i].headers # None
                             /\ a.path \in run.types[i].headers.always
           /\ ~a.inHeaders => a.path \in run.types[i].payload.always
  <1>1. CASE \E inHeaders \in BOOLEAN : \E k \in DOMAIN List(i, inHeaders) :
                a = List(i, inHeaders)[k]
    BY <1>1, ListedIsPath DEF CheckInv
  <1>2. CASE a = KeyPlanting /\ sets[i].key # None
    BY <1>2, KeyDue
  <1> QED  BY <1>1, <1>2, DueIsListed

\* Two of them do not overlap: New has compared every two in one list, and
\* each in the Payload with the key path.
LEMMA DueApart ==
    ASSUME TypeOK, CheckInv, phase \in {"ready", "record", "planted"},
           NEW i \in Types, NEW a \in Due(i), NEW b \in Due(i),
           a # b, a.inHeaders = b.inHeaders
    PROVE  ~Overlap(a.path, b.path)
  <1>1. ASSUME NEW h \in BOOLEAN, NEW k \in DOMAIN List(i, h), a = List(i, h)[k],
               NEW g \in BOOLEAN, NEW l \in DOMAIN List(i, g), b = List(i, g)[l]
        PROVE  ~Overlap(a.path, b.path)
    <2>1. a.inHeaders = h /\ b.inHeaders = g
      BY <1>1, ListedIsPath DEF CheckInv
    <2>2. h = g
      BY <2>1
    <2>3. l \in DOMAIN List(i, h) /\ b = List(i, h)[l] /\ k # l
      BY <1>1, <2>2
    <2> QED  BY <1>1, <2>3 DEF CheckInv, ListsApart
  <1>2. ASSUME NEW h \in BOOLEAN, NEW k \in DOMAIN List(i, h), NEW c, c = List(i, h)[k],
               sets[i].key # None, c.inHeaders = FALSE
        PROVE  ~Overlap(c.path, run.key) /\ ~Overlap(run.key, c.path)
    <2>1. c.inHeaders = h /\ IsSequence(c.path)
      BY <1>2, ListedIsPath DEF CheckInv
    <2>2. h = FALSE
      BY <1>2, <2>1
    <2>3. ~Overlap(c.path, run.key)
      BY <1>2, <2>2, KeyDue DEF CheckInv, ListsApart
    <2> QED  BY <1>2, <2>1, <2>3, KeyDue, OverlapSymmetric
  <1>3. CASE a = KeyPlanting /\ sets[i].key # None
    <2>1. KeyPlanting.path = run.key /\ KeyPlanting.inHeaders = FALSE
      BY <1>3, KeyDue
    <2>2. b.inHeaders = FALSE /\ b # KeyPlanting
      BY <1>3, <2>1
    <2>3. PICK h \in BOOLEAN : \E k \in DOMAIN List(i, h) : b = List(i, h)[k]
      BY <2>2, DueIsListed
    <2> QED  BY <1>2, <1>3, <2>1, <2>2, <2>3
  <1>4. CASE b = KeyPlanting /\ sets[i].key # None
    <2>1. KeyPlanting.path = run.key /\ KeyPlanting.inHeaders = FALSE
      BY <1>4, KeyDue
    <2>2. a.inHeaders = FALSE /\ a # KeyPlanting
      BY <1>4, <2>1
    <2>3. PICK h \in BOOLEAN : \E k \in DOMAIN List(i, h) : a = List(i, h)[k]
      BY <2>2, DueIsListed
    <2> QED  BY <1>2, <1>4, <2>1, <2>2, <2>3
  <1> QED  BY <1>1, <1>3, <1>4, DueIsListed

LEMMA ChecksStay ==
    ASSUME TypeOK, CheckInv, run' = run, sets' = sets, headers' = headers, p' = p, t' = t,
           phase \in {"ready", "record", "planted"}, phase' \in {"ready", "record", "planted"}
    PROVE  /\ CheckInv'
           /\ \A i : Due(i)' = Due(i)
  <1>1. \A i, j, inHeaders : Through(i, j, inHeaders)' <=> Through(i, j, inHeaders)
    BY DEF Through
  <1>2. ListsExact' /\ ListsApart'
    BY <1>1, SetsStay, ListsStay DEF CheckInv
  <1>3. LoopsInv' /\ KeysInv' /\ RefusalInv'
    BY SetsStay DEF CheckInv, LoopsInv, KeysInv, RefusalInv
  <1>4. \A i : Due(i)' = Due(i)
    BY DEF Due, List, KeyPlanting
  <1> QED  BY <1>2, <1>3, <1>4 DEF CheckInv

LEMMA NextRecordInv ==
    ASSUME PlantInv, NextRecord
    PROVE  PlantInv'
  <1>1. /\ TypeOK /\ CheckInv /\ run' = run /\ headers' = headers /\ p' = p /\ t' = t
        /\ sets' = sets /\ flag' = flag
        /\ phase \in {"ready", "planted"} /\ phase' = "record"
    BY DEF PlantInv, NextRecord, check
  <1>2. PICK i : i = type'
    OBVIOUS
  <1>3. PICK mt : mt = run.types[i]
    OBVIOUS
  <1>4. PICK some \in BOOLEAN :
            /\ payload' = [place \in Places(mt.payload, some) |-> Generated]
            /\ header' = IF mt.headers = None THEN <<>>
                         ELSE [place \in Places(mt.headers, some) |-> Generated]
    BY <1>2, <1>3 DEF NextRecord
  <1> DEFINE keys == IF sets[i].key = None THEN <<>>
                     ELSE <<Planted(KeyValue, sets[i].key, FALSE)>>
             S == Plantings \union {KeyPlanting}
  <1>5. i \in Types /\ i \in 1..Len(run.types)
    BY <1>1, <1>2, RunType DEF NextRecord, Types
  <1>6. todo' = (sets[i].payload \o sets[i].headers) \o keys
    BY <1>2 DEF NextRecord
  <1>7. sets[i].key = None \/ (sets[i].key # None /\ keys = <<KeyPlanting>>)
    <2>1. sets[i].key \in {None, run.key}
      BY <1>1, <1>5 DEF TypeOK
    <2> QED  BY <2>1 DEF KeyPlanting
  <1>8. /\ sets[i].payload \in Seq(S) /\ sets[i].headers \in Seq(S) /\ keys \in Seq(S)
        /\ \A k \in DOMAIN keys : sets[i].key # None /\ keys[k] = KeyPlanting
        /\ sets[i].key # None => 1 \in DOMAIN keys /\ keys[1] = KeyPlanting
    <2>1. sets[i].payload \in Seq(Plantings) /\ sets[i].headers \in Seq(Plantings)
      BY <1>1, <1>5 DEF TypeOK
    <2>2. CASE sets[i].key = None
      BY <2>1, <2>2
    <2>3. CASE sets[i].key # None /\ keys = <<KeyPlanting>>
      <3> HIDE DEF keys
      <3> QED  BY <2>1, <2>3
    <2> QED  BY <1>7, <2>2, <2>3
  <1> HIDE DEF keys, S
  <1>9. PICK a, b, c, both : /\ a = sets[i].payload /\ b = sets[i].headers /\ c = keys
                            /\ both = a \o b
    OBVIOUS
  <1>10. both \in Seq(S) /\ HasBoth(both, a, b)
    <2>1. a \in Seq(S) /\ b \in Seq(S)
      BY <1>8, <1>9
    <2> QED  BY <1>9, <2>1, ElementsOfBoth
  <1>11. PICK all : all = both \o c /\ all = todo'
    BY <1>6, <1>9
  <1>12. all \in Seq(S) /\ HasBoth(all, both, c)
    <2>1. c \in Seq(S)
      BY <1>8, <1>9
    <2> QED  BY <1>10, <1>11, <2>1, ElementsOfBoth
  <1>13. /\ Due(i) = {a[l] : l \in DOMAIN a} \union {b[l] : l \in DOMAIN b}
                        \union (IF sets[i].key = None THEN {} ELSE {KeyPlanting})
         /\ \A k \in DOMAIN c : sets[i].key # None /\ c[k] = KeyPlanting
         /\ sets[i].key # None => 1 \in DOMAIN c /\ c[1] = KeyPlanting
    BY <1>8, <1>9 DEF Due, List
  <1>14. /\ \A k \in DOMAIN all : all[k] \in Due(i)
         /\ \A planting \in Due(i) : \E k \in DOMAIN all : all[k] = planting
    <2>1. /\ \A l \in DOMAIN both : both[l] \in Due(i)
          /\ \A l \in DOMAIN c : c[l] \in Due(i)
      BY <1>10, <1>13 DEF HasBoth
    <2>2. ASSUME NEW planting \in Due(i)
          PROVE  \E k \in DOMAIN all : all[k] = planting
      <3>1. CASE \E l \in DOMAIN a : planting = a[l]
        BY <1>10, <1>12, <3>1 DEF HasBoth
      <3>2. CASE \E l \in DOMAIN b : planting = b[l]
        BY <1>10, <1>12, <3>2 DEF HasBoth
      <3>3. CASE sets[i].key # None /\ planting = KeyPlanting
        BY <1>12, <1>13, <3>3 DEF HasBoth
      <3> QED  BY <1>13, <3>1, <3>2, <3>3
    <2> QED  BY <1>12, <2>1, <2>2 DEF HasBoth
  <1>15. CheckInv' /\ \A q : Due(q)' = Due(q)
    BY <1>1, ChecksStay
  <1>16. TypeOK'
    BY <1>1, <1>2, <1>5, <1>11, <1>12, SetsStay DEF TypeOK, S
  <1>17. ASSUME NEW planting \in Due(i)
         PROVE  planting.path \in DOMAIN Content(planting)'
    <2>1. /\ planting.inHeaders \in BOOLEAN
          /\ planting.inHeaders => mt.headers # None /\ planting.path \in mt.headers.always
          /\ ~planting.inHeaders => planting.path \in mt.payload.always
      BY <1>1, <1>3, <1>5, DuePlace
    <2>2. CASE planting.inHeaders
      BY <1>4, <2>1, <2>2 DEF Content, Places
    <2>3. CASE ~planting.inHeaders
      BY <1>4, <2>1, <2>3 DEF Content, Places
    <2> QED  BY <2>2, <2>3
  <1>18. RecordInv'
    <2>1. Due(type)' = Due(i)
      <3>1. sets'[type'] = sets[i] /\ KeyPlanting' = KeyPlanting
        BY <1>1, <1>2, SetsStay
      <3> QED  BY <3>1 DEF Due, List
    <2> QED  BY <1>1, <1>11, <1>14, <1>17, <2>1 DEF RecordInv
  <1> QED  BY <1>15, <1>16, <1>18 DEF PlantInv

\* A value written disturbs no other Planting of the record: it replaces what
\* is below its own place only.
LEMMA WrittenKeeps ==
    ASSUME NEW content, NEW planting, planting.path \in DOMAIN content,
           IsSequence(planting.path)
    PROVE  /\ Stands(Written(content, planting), planting)
           /\ \A path \in DOMAIN content : ~Overlap(planting.path, path) =>
                /\ path \in DOMAIN Written(content, planting)
                /\ Written(content, planting)[path] = content[path]
  <1>1. Len(planting.path) \in Nat
    BY DEF IsSequence
  <1>2. ~Below(planting.path, planting.path)
    BY <1>1 DEF Below
  <1>3. Overlap(planting.path, planting.path)
    BY DEF Overlap
  <1> QED  BY <1>2, <1>3 DEF Written, Stands, Below

LEMMA PlantStepInv ==
    ASSUME PlantInv, Plant
    PROVE  PlantInv'
  <1> DEFINE head == Head(todo)
  <1>1. /\ TypeOK /\ CheckInv /\ run' = run /\ headers' = headers /\ p' = p /\ t' = t
        /\ sets' = sets /\ type' = type /\ phase = "record" /\ todo # <<>>
    BY DEF PlantInv, Plant, Writing, check
  <1>2. /\ todo \in Seq(Plantings \union {KeyPlanting}) /\ type \in Types
        /\ 1 \in DOMAIN todo /\ head = todo[1]
    BY <1>1 DEF TypeOK
  <1>3. /\ \A k \in DOMAIN todo : todo[k] \in Due(type)
        /\ \A planting \in Due(type) :
            /\ planting.path \in DOMAIN Content(planting)
            /\ \/ \E k \in DOMAIN todo : todo[k] = planting
               \/ Stands(Content(planting), planting)
    BY <1>1 DEF PlantInv, RecordInv
  <1>4. head \in Due(type) /\ head.path \in DOMAIN Content(head)
    BY <1>2, <1>3
  <1>5. head.inHeaders \in BOOLEAN /\ IsSequence(head.path)
    BY <1>1, <1>2, <1>4, DuePlace
  <1>6. /\ todo' = Tail(todo) /\ phase' = "record"
        /\ head.inHeaders => header' = Written(header, head) /\ payload' = payload
        /\ ~head.inHeaders => payload' = Written(payload, head) /\ header' = header
    BY <1>1, <1>4 DEF Plant, Into, Content
  <1> HIDE DEF head
  <1>7. /\ todo' \in Seq(Plantings \union {KeyPlanting})
        /\ \A k \in DOMAIN todo' : k + 1 \in DOMAIN todo /\ todo'[k] = todo[k + 1]
        /\ \A k \in DOMAIN todo \ {1} : k - 1 \in DOMAIN todo' /\ todo'[k - 1] = todo[k]
    BY <1>2, <1>6
  <1>8. CheckInv' /\ \A i : Due(i)' = Due(i)
    BY <1>1, <1>6, ChecksStay
  <1>9. TypeOK'
    BY <1>1, <1>6, <1>7, SetsStay DEF TypeOK
  <1>10. ASSUME NEW planting \in Due(type)
         PROVE  /\ planting.path \in DOMAIN Content(planting)'
                /\ \/ \E k \in DOMAIN todo' : todo'[k] = planting
                   \/ Stands(Content(planting)', planting)
    <2>1. planting.inHeaders \in BOOLEAN
      BY <1>1, <1>2, DuePlace
    <2>2. CASE planting = head
      <3>1. Content(planting)' = Written(Content(planting), head)
        BY <1>5, <1>6, <2>2 DEF Content
      <3>2. Stands(Content(planting)', planting)
        BY <1>4, <1>5, <2>2, <3>1, WrittenKeeps
      <3> QED  BY <3>2 DEF Stands
    <2>3. CASE planting # head /\ planting.inHeaders # head.inHeaders
      <3>1. Content(planting)' = Content(planting)
        BY <1>5, <1>6, <2>1, <2>3 DEF Content
      <3>2. \A k \in DOMAIN todo : todo[k] = planting => k # 1
        BY <1>2, <2>3
      <3> QED  BY <1>3, <1>7, <3>1, <3>2
    <2>4. CASE planting # head /\ planting.inHeaders = head.inHeaders
      <3>1. Content(planting)' = Written(Content(planting), head)
            /\ Content(planting) = Content(head)
        BY <1>5, <1>6, <2>4 DEF Content
      <3>2. ~Overlap(head.path, planting.path)
        BY <1>1, <1>2, <1>4, <2>4, DueApart
      <3>3. /\ planting.path \in DOMAIN Content(planting)'
            /\ Content(planting)'[planting.path] = Content(planting)[planting.path]
        BY <1>3, <1>4, <1>5, <3>1, <3>2, WrittenKeeps
      <3>4. \A k \in DOMAIN todo : todo[k] = planting => k # 1
        BY <1>2, <2>4
      <3> QED  BY <1>3, <1>7, <3>3, <3>4 DEF Stands
    <2> QED  BY <2>2, <2>3, <2>4
  <1>11. RecordInv'
    <2>1. Due(type)' = Due(type)
      BY <1>1, SetsStay DEF Due, List
    <2>2. \A k \in DOMAIN todo' : todo'[k] \in Due(type)
      BY <1>3, <1>7
    <2> QED  BY <1>1, <1>6, <1>10, <2>1, <2>2 DEF RecordInv
  <1> QED  BY <1>8, <1>9, <1>11 DEF PlantInv

LEMMA RecordDoneInv ==
    ASSUME PlantInv, RecordDone
    PROVE  PlantInv'
  <1>1. /\ TypeOK /\ CheckInv /\ run' = run /\ headers' = headers /\ p' = p /\ t' = t
        /\ sets' = sets /\ type' = type /\ payload' = payload /\ header' = header
        /\ todo' = todo /\ phase = "record" /\ phase' = "planted" /\ todo = <<>>
    BY DEF PlantInv, RecordDone, check, record
  <1>2. CheckInv'
    BY <1>1, ChecksStay
  <1>3. TypeOK'
    BY <1>1, SetsStay DEF TypeOK
  <1>4. Due(type)' = Due(type) /\ \A planting : Content(planting)' = Content(planting)
    BY <1>1, SetsStay DEF Due, List, Content
  <1> QED  BY <1>1, <1>2, <1>3, <1>4 DEF PlantInv, RecordInv

-----------------------------------------------------------------------------
LEMMA InitPlants == Init => PlantInv
  <1> SUFFICES ASSUME Init PROVE PlantInv
    OBVIOUS
  <1>1. /\ run \in Runs /\ phase = "parameters" /\ headers = FALSE /\ p = 1 /\ t = 1 /\ type = 1
        /\ sets = [i \in Types |-> EmptySet] /\ flag = None /\ todo = <<>>
    BY DEF Init, Types
  <1>2. Len(run.types) \in Nat \ {0} /\ Len(run.params) \in Nat
    BY <1>1, RunType
  <1>3. /\ EmptySet.key = None /\ EmptySet.payload = <<>> /\ EmptySet.headers = <<>>
        /\ EmptySet \in [key : {None, run.key}, payload : Seq(Plantings), headers : Seq(Plantings)]
    BY DEF EmptySet
  <1>4. \A i \in Types, inHeaders \in BOOLEAN : List(i, inHeaders) = <<>>
    BY <1>1, <1>3 DEF List
  <1>5. \A i \in Types, inHeaders \in BOOLEAN : DOMAIN List(i, inHeaders) = {}
    BY <1>4
  <1>6. TypeOK
    <2>1. 1 \in Types /\ 1 \in 1..(Len(run.params) + 1)
      BY <1>2 DEF Types
    <2>2. <<>> \in Seq(Plantings \union {KeyPlanting})
      OBVIOUS
    <2>3. sets \in [Types -> [key : {None, run.key}, payload : Seq(Plantings),
                              headers : Seq(Plantings)]]
      BY <1>1, <1>3
    <2> QED  BY <1>1, <2>1, <2>2, <2>3 DEF TypeOK
  <1>7. \A i \in Types, j \in Params, inHeaders \in BOOLEAN : ~Through(i, j, inHeaders)
    BY <1>1, <1>2 DEF Through, Types, Params
  <1>8. ListsExact /\ ListsApart
    BY <1>5, <1>7 DEF ListsExact, ListsApart
  <1>9. LoopsInv /\ KeysInv /\ RefusalInv /\ RecordInv
    BY <1>1, <1>3 DEF LoopsInv, KeysInv, RefusalInv, RecordInv
  <1> QED  BY <1>6, <1>8, <1>9 DEF PlantInv, CheckInv

LEMMA PlantsStay ==
    ASSUME PlantInv, UNCHANGED vars
    PROVE  PlantInv'
  <1>1. UNCHANGED <<run, phase, headers, p, t, sets, flag, type, payload, header, todo>>
    BY DEF vars
  <1>2. \A i, j, inHeaders : Through(i, j, inHeaders)' <=> Through(i, j, inHeaders)
    BY <1>1 DEF Through
  <1>3. CheckInv'
    <2>1. ListsExact' /\ ListsApart'
      BY <1>1, <1>2, SetsStay, ListsStay DEF PlantInv, CheckInv
    <2> QED  BY <1>1, <2>1, SetsStay, RunConstant
             DEF PlantInv, CheckInv, LoopsInv, KeysInv, RefusalInv
  <1>4. TypeOK'
    BY <1>1, SetsStay DEF PlantInv, TypeOK
  <1>5. Due(type)' = Due(type) /\ \A planting : Content(planting)' = Content(planting)
    BY <1>1, SetsStay DEF Due, List, Content
  <1> QED  BY <1>1, <1>3, <1>4, <1>5 DEF PlantInv, RecordInv

\* New's loops and the records they let through stay as described: in
\* particular a Planting of a record never misses.
THEOREM PlantingInvariant == Spec => []PlantInv
  <1>1. Init => PlantInv
    BY InitPlants
  <1>2. PlantInv /\ [Next]_vars => PlantInv'
    BY PassOverInv, RefuseParameterInv, TakeParameterInv, ThenHeadersInv, ThenKeyInv,
       CheckKeyInv, NextRecordInv, PlantStepInv, RecordDoneInv, PlantsStay DEF Next, New
  <1> QED  BY <1>1, <1>2, PTL DEF Spec

\* planting.go:213, for every run: a place New has found is in every record,
\* and no value planted before takes it away.
THEOREM MissesNothing == Spec => []NeverMisses
  <1>1. PlantInv => NeverMisses
    BY DEF PlantInv, TypeOK, NeverMisses
  <1> QED  BY <1>1, PlantingInvariant, PTL

\* When the checks are through, what is asked for is what is listed.
LEMMA AskedIsListed ==
    ASSUME PlantInv, phase \notin {"parameters", "refused"}, NEW i \in Types,
           NEW inHeaders \in BOOLEAN, NEW planting \in Asked(run.types[i], inHeaders)
    PROVE  /\ planting.path # None
           /\ \E k \in DOMAIN List(i, inHeaders) : planting = List(i, inHeaders)[k]
  <1>1. PICK j \in Params : /\ Plants(run.params[j], inHeaders)
                            /\ planting = Wanted(i, j, inHeaders)
    BY DEF Asked, Wanted, Params
  <1>2. Through(i, j, inHeaders)
    <2>1. headers = TRUE /\ p = Len(run.params) + 1 /\ Len(run.params) \in Nat /\ j \in 1..Len(run.params)
      BY RunType DEF PlantInv, CheckInv, LoopsInv, TypeOK, Params
    <2>2. CASE inHeaders = TRUE
      BY <2>1, <2>2 DEF Through
    <2>3. CASE inHeaders = FALSE
      BY <2>1, <2>3 DEF Through
    <2> QED  BY <2>2, <2>3
  <1>3. PICK k \in DOMAIN List(i, inHeaders) : List(i, inHeaders)[k] = planting
    BY <1>1, <1>2 DEF PlantInv, CheckInv, ListsExact
  <1>4. PICK l \in Params : planting = Wanted(i, l, inHeaders)
                            /\ Place(run.types[i], run.params[l]) # None
    BY <1>3 DEF PlantInv, CheckInv, ListsExact
  <1> QED  BY <1>3, <1>4, WantedType

\* Every record carries everything asked for, for every run that is accepted.
THEOREM PlantingsStand == Spec => []EveryPlantingStands
  <1>1. PlantInv => EveryPlantingStands
    <2> SUFFICES ASSUME PlantInv, phase = "planted" PROVE EveryPlantingStands
      BY DEF EveryPlantingStands
    <2>1. type \in Types /\ TypeOK /\ CheckInv
      BY DEF PlantInv, TypeOK
    <2>2. \A planting \in Due(type) : Stands(Content(planting), planting)
      BY DEF PlantInv, RecordInv
    <2>3. ASSUME NEW inHeaders \in BOOLEAN, NEW planting \in Asked(run.types[type], inHeaders)
          PROVE  Stands(IF inHeaders THEN header ELSE payload, planting)
      <3>1. PICK k \in DOMAIN List(type, inHeaders) : planting = List(type, inHeaders)[k]
        BY <2>1, AskedIsListed
      <3>2. planting.inHeaders = inHeaders
        BY <2>1, <3>1, ListedIsPath DEF CheckInv
      <3>3. planting \in Due(type)
        <4>1. CASE inHeaders = TRUE
          BY <3>1, <4>1 DEF Due
        <4>2. CASE inHeaders = FALSE
          BY <3>1, <4>2 DEF Due
        <4> QED  BY <4>1, <4>2
      <3> QED  BY <2>2, <3>2, <3>3 DEF Content
    <2>4. run.key # None => Stands(payload, Planted(KeyValue, run.key, FALSE))
      <3>1. sets[type].key = run.key
        BY <2>1 DEF CheckInv, KeysInv
      <3>2. run.key # None => KeyPlanting \in Due(type) /\ KeyPlanting.inHeaders = FALSE
        BY <3>1 DEF Due, KeyPlanting, Planted
      <3> QED  BY <2>2, <3>2 DEF Content, KeyPlanting
    <2>5. /\ \A planting \in Asked(run.types[type], FALSE) : Stands(payload, planting)
          /\ \A planting \in Asked(run.types[type], TRUE) : Stands(header, planting)
      BY <2>3
    <2> QED  BY <2>4, <2>5 DEF EveryPlantingStands
  <1> QED  BY <1>1, PlantingInvariant, PTL

\* A run is refused exactly when there is something in the way, and told which
\* option asked for it.
THEOREM RefusalsRight == Spec => []RefusedRightly
  <1>1. PlantInv => RefusedRightly
    <2> SUFFICES ASSUME PlantInv, phase \in {"ready", "record", "planted"}
                 PROVE  ~ParameterInWay /\ ~KeyInWay
      BY DEF PlantInv, CheckInv, RefusalInv, RefusedRightly
    <2>1. TypeOK /\ CheckInv /\ Types = 1..Len(run.types)
      BY DEF PlantInv, Types
    <2>2. ASSUME NEW i \in Types, NEW inHeaders \in BOOLEAN,
                 NEW a \in Asked(run.types[i], inHeaders), NEW b \in Asked(run.types[i], inHeaders),
                 a # b
          PROVE  ~Overlap(a.path, b.path)
      <3>1. PICK k \in DOMAIN List(i, inHeaders) : a = List(i, inHeaders)[k]
        BY AskedIsListed
      <3>2. PICK l \in DOMAIN List(i, inHeaders) : b = List(i, inHeaders)[l]
        BY AskedIsListed
      <3> QED  BY <2>1, <2>2, <3>1, <3>2 DEF CheckInv, ListsApart
    <2>3. ~ParameterInWay
      BY <2>1, <2>2, AskedIsListed DEF ParameterInWay
    <2>4. ASSUME run.key # None PROVE ~KeyInWay
      <3>1. run.key # Malformed /\ \A i \in Types : sets[i].key # None
        BY <2>1, <2>4 DEF CheckInv, KeysInv
      <3>2. \A i \in Types : Locate(run.types[i].payload, run.key) \in run.types[i].payload.holdsKey
        BY <2>1, <3>1 DEF CheckInv, KeysInv
      <3>3. ASSUME NEW i \in Types, NEW planting \in Asked(run.types[i], FALSE)
            PROVE  ~Overlap(planting.path, run.key)
        <4>1. PICK k \in DOMAIN List(i, FALSE) : planting = List(i, FALSE)[k]
          BY AskedIsListed
        <4> QED  BY <2>1, <2>4, <3>1, <4>1 DEF CheckInv, ListsApart
      <3> QED  BY <2>1, <3>1, <3>2, <3>3 DEF KeyInWay
    <2> QED  BY <2>3, <2>4 DEF KeyInWay
  <1> QED  BY <1>1, PlantingInvariant, PTL
=============================================================================
