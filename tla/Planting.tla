------------------------------ MODULE Planting ------------------------------
(* The Plantings of a run (internal/planting): New checks every one of them   *)
(* against each Message type before the first record, and Set.Plant writes    *)
(* them into every record after it. A Walk is what planting.go asks of one:   *)
(* which place an asked path leads to and what it holds there; Guarantee and  *)
(* AvroGeneration model the two that exist. A generated value is the set of   *)
(* its places, each holding what was planted there or what was generated.     *)
EXTENDS Integers, Sequences

CONSTANTS
    Runs,      \* what a user may start: [types, key, params]
    Malformed, \* a -keyPath that does not parse
    KeyValue,  \* the Key of a record
    Generated, \* any other value of a place
    None

IsSequence(s) == s \in Seq({s[i] : i \in DOMAIN s})

\* What a Walk answers with are paths, and a step of -keyPath it follows as the
\* step stands.
WalkAssumption(walk, key) ==
    /\ \A path \in walk.always \union walk.holdsKey : path # None /\ IsSequence(path)
    /\ key \in DOMAIN walk.leads => walk.leads[key] = key

ASSUME MalformedAssumption == Malformed # None

\* A run has a Message type, and no parameter twice.
ASSUME RunsAssumption ==
    \A r \in Runs :
        /\ IsSequence(r.types) /\ r.types # <<>> /\ IsSequence(r.params)
        /\ \A i \in DOMAIN r.types :
            /\ WalkAssumption(r.types[i].payload, r.key)
            /\ r.types[i].headers # None => WalkAssumption(r.types[i].headers, None)
        /\ \A i, j \in DOMAIN r.params : r.params[i] = r.params[j] => i = j

VARIABLES run, phase, headers, p, t, sets, flag, type, payload, header, todo
vars == <<run, phase, headers, p, t, sets, flag, type, payload, header, todo>>
check == <<headers, p, t, sets>>
record == <<type, payload, header, todo>>

(* headers, p and t are New's loops: over the Payload's parameters and then   *)
(* the Headers', over the parameters, and over the Message types. todo is     *)
(* what Plant still has to write. The value of a parameter is the parameter.  *)

Planted(value, path, inHeaders) == [value |-> value, path |-> path, inHeaders |-> inHeaders]
EmptySet == [key |-> None, payload |-> <<>>, headers |-> <<>>]

\* One path leads to or into the other.
Overlap(a, b) ==
    \A i \in 1..(IF Len(a) < Len(b) THEN Len(a) ELSE Len(b)) : a[i] = b[i]

Locate(walk, asked) ==
    IF asked \in DOMAIN walk.leads /\ walk.leads[asked] \in walk.always
    THEN walk.leads[asked] ELSE None

-----------------------------------------------------------------------------
(* New.                                                                       *)

Refuse(option) == phase' = "refused" /\ flag' = option /\ UNCHANGED <<run, check, record>>

Parameter == run.params[p]
Others(set) == IF headers THEN set.headers ELSE set.payload

\* locate: a parameter's place in a Message type, if it has one.
Place(mt, q) ==
    LET walk == IF q.inHeaders THEN mt.headers ELSE mt.payload
        path == IF walk = None THEN None ELSE Locate(walk, q.pointer)
    IN IF path # None /\ <<path, q.value>> \in walk.holds THEN path ELSE None

\* Mutant: only a Planting at the key path itself is in its way.
MeetsKeyExactly(path) == ~headers /\ run.key \notin {None, Malformed} /\ path = run.key

\* Mutant: a header of the key path's name taken for the field.
MeetsKeyInHeaders(path) == run.key \notin {None, Malformed} /\ Overlap(path, run.key)

\* A malformed -keyPath overlaps nothing.
MeetsKey(path) == ~headers /\ run.key \notin {None, Malformed} /\ Overlap(path, run.key)
MeetsOther(path) == \E i \in 1..Len(Others(sets[t])) : Overlap(path, Others(sets[t])[i].path)

NextType == IF t < Len(run.types) THEN t' = t + 1 /\ p' = p ELSE t' = 1 /\ p' = p + 1

Checking == phase = "parameters" /\ p <= Len(run.params)
Plants(q, inHeaders) == q.pointer # None /\ q.inHeaders = inHeaders

PassOver ==
    /\ Checking /\ ~Plants(Parameter, headers)
    /\ p' = p + 1
    /\ UNCHANGED <<run, phase, headers, t, sets, flag, record>>

RefuseParameter ==
    /\ Checking /\ Plants(Parameter, headers)
    /\ LET path == Place(run.types[t], Parameter) IN
        \/ path = None /\ Refuse("topic")
        \/ path # None /\ MeetsKey(path) /\ Refuse("keyPath")
        \/ path # None /\ ~MeetsKey(path) /\ MeetsOther(path) /\ Refuse("topic")

\* Mutant: the place in the first Message type taken for the place in all.
TakeParameterFromFirst ==
    /\ Checking /\ Plants(Parameter, headers)
    /\ LET path == Place(run.types[1], Parameter)
           new == Planted(Parameter, path, headers) IN
        /\ path # None /\ ~MeetsKey(path) /\ ~MeetsOther(path)
        /\ sets' = IF headers
                   THEN [sets EXCEPT ![t].headers = Append(@, new)]
                   ELSE [sets EXCEPT ![t].payload = Append(@, new)]
    /\ NextType
    /\ UNCHANGED <<run, phase, headers, flag, record>>

TakeParameter ==
    /\ Checking /\ Plants(Parameter, headers)
    /\ LET path == Place(run.types[t], Parameter)
           new == Planted(Parameter, path, headers) IN
        /\ path # None /\ ~MeetsKey(path) /\ ~MeetsOther(path)
        /\ sets' = IF headers
                   THEN [sets EXCEPT ![t].headers = Append(@, new)]
                   ELSE [sets EXCEPT ![t].payload = Append(@, new)]
    /\ NextType
    /\ UNCHANGED <<run, phase, headers, flag, record>>

ThenHeaders ==
    /\ phase = "parameters" /\ p > Len(run.params) /\ ~headers
    /\ headers' = TRUE /\ p' = 1
    /\ UNCHANGED <<run, phase, t, sets, flag, record>>

ThenKey ==
    /\ phase = "parameters" /\ p > Len(run.params) /\ headers
    /\ \/ run.key = None /\ phase' = "ready" /\ UNCHANGED <<run, check, flag, record>>
       \/ run.key = Malformed /\ Refuse("keyPath")
       \/ /\ run.key \notin {None, Malformed}
          /\ phase' = "keys" /\ UNCHANGED <<run, check, flag, record>>

CheckKey ==
    /\ phase = "keys"
    /\ LET walk == run.types[t].payload
           path == Locate(walk, run.key) IN
        IF path = None \/ path \notin walk.holdsKey
        THEN Refuse("keyPath")
        ELSE /\ sets' = [sets EXCEPT ![t].key = path]
             /\ IF t < Len(run.types)
                THEN t' = t + 1 /\ phase' = phase
                ELSE t' = 1 /\ phase' = "ready"
             /\ UNCHANGED <<run, headers, p, flag, record>>

New == PassOver \/ RefuseParameter \/ TakeParameter \/ ThenHeaders \/ ThenKey \/ CheckKey

-----------------------------------------------------------------------------
(* Mix.Generate and Set.Plant.                                                *)

Places(walk, some) == walk.always \union (IF some THEN walk.sometimes ELSE {})

NextRecord ==
    /\ phase \in {"ready", "planted"}
    /\ phase' = "record"
    /\ type' \in 1..Len(run.types)
    /\ \E some \in BOOLEAN :
        LET mt == run.types[type'] IN
        /\ payload' = [place \in Places(mt.payload, some) |-> Generated]
        /\ header' = IF mt.headers = None THEN <<>>
                     ELSE [place \in Places(mt.headers, some) |-> Generated]
    /\ todo' = LET set == sets[type'] IN
                set.payload \o set.headers
                    \o (IF set.key = None THEN <<>> ELSE <<Planted(KeyValue, set.key, FALSE)>>)
    /\ UNCHANGED <<run, check, flag>>

Below(path, place) == Len(path) < Len(place) /\ Overlap(path, place)

\* The value replaces whatever was generated at its place, and below it.
Written(content, planting) ==
    [place \in {q \in DOMAIN content : ~Below(planting.path, q)} |->
        IF place = planting.path THEN planting.value ELSE content[place]]

Writing == phase = "record" /\ todo # <<>>
Into == IF Head(todo).inHeaders THEN header ELSE payload

\* A place that is not there, which New rules out, fails the record.
Plant ==
    /\ Writing
    /\ IF Head(todo).path \in DOMAIN Into
       THEN /\ IF Head(todo).inHeaders
               THEN header' = Written(header, Head(todo)) /\ UNCHANGED payload
               ELSE payload' = Written(payload, Head(todo)) /\ UNCHANGED header
            /\ todo' = Tail(todo)
            /\ UNCHANGED <<phase, flag>>
       ELSE /\ phase' = "missed"
            /\ flag' = IF Head(todo).value = KeyValue THEN "keyPath" ELSE "topic"
            /\ UNCHANGED <<payload, header, todo>>
    /\ UNCHANGED <<run, check, type>>

RecordDone ==
    /\ phase = "record" /\ todo = <<>>
    /\ phase' = "planted"
    /\ UNCHANGED <<run, check, flag, record>>

-----------------------------------------------------------------------------
Init ==
    /\ run \in Runs
    /\ phase = "parameters" /\ headers = FALSE /\ p = 1 /\ t = 1
    /\ sets = [i \in 1..Len(run.types) |-> EmptySet]
    /\ flag = None /\ type = 1
    /\ payload = <<>> /\ header = <<>> /\ todo = <<>>

Next == New \/ NextRecord \/ Plant \/ RecordDone
Spec == Init /\ [][Next]_vars

-----------------------------------------------------------------------------
(* Every record of an accepted run carries every Planting of its Message      *)
(* type, each at its own place and none written over by another.              *)
Asked(mt, inHeaders) ==
    {Planted(q, Place(mt, q), inHeaders) : q \in {run.params[i] : i \in
        {j \in 1..Len(run.params) : Plants(run.params[j], inHeaders)}}}
Stands(content, planting) ==
    planting.path \in DOMAIN content /\ content[planting.path] = planting.value
EveryPlantingStands ==
    phase = "planted" =>
        LET mt == run.types[type] IN
        /\ \A planting \in Asked(mt, FALSE) : Stands(payload, planting)
        /\ \A planting \in Asked(mt, TRUE) : Stands(header, planting)
        /\ run.key # None => Stands(payload, Planted(KeyValue, run.key, FALSE))

(* planting.go:213: New has checked every path, so no record misses one.      *)
NeverMisses == phase # "missed"

(* A run is accepted exactly when each of its Plantings has a place in every  *)
(* Message type and no two share one, and a refusal names the option whose    *)
(* Planting is in the way, whichever was found first.                         *)
ParameterInWay ==
    \E i \in 1..Len(run.types), inHeaders \in BOOLEAN :
        LET asked == Asked(run.types[i], inHeaders) IN
        \/ \E planting \in asked : planting.path = None
        \/ \E a, b \in asked : a # b /\ Overlap(a.path, b.path)
KeyInWay ==
    /\ run.key # None
    /\ \/ run.key = Malformed
       \/ \E i \in 1..Len(run.types) :
            \/ Locate(run.types[i].payload, run.key) \notin run.types[i].payload.holdsKey
            \/ \E planting \in Asked(run.types[i], FALSE) :
                    planting.path # None /\ Overlap(planting.path, run.key)
RefusedRightly ==
    /\ phase \in {"ready", "record", "planted"} => ~ParameterInWay /\ ~KeyInWay
    /\ phase = "refused" /\ flag = "topic" => ParameterInWay
    /\ phase = "refused" /\ flag = "keyPath" => KeyInWay
=============================================================================
