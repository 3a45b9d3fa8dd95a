----------------------- MODULE UnionRegistration_proofs -----------------------
(***************************************************************************)
(* Registration, for any number of runs, plans and other clients: what is  *)
(* registered refers to what it was built against, and registering again   *)
(* adds nothing.  Then the tool's own plans: what UnionPlan draws up is    *)
(* what is registered, and a run of it is turned away only after a         *)
(* deletion.                                                               *)
(***************************************************************************)
EXTENDS UnionRegistration, UnionPlan_proofs

(***************************************************************************)
(* The plan may still be drawn up when the run begins (UnionRegistration's *)
(* DrawUp), as long as nothing has been registered.                        *)
(***************************************************************************)
DrawPlan ==
  /\ registry = [s \in Subjects |-> <<>>]
  /\ run = [r \in Runs |-> NewRun]
  /\ completed = FALSE
  /\ plan' \in Plan
  /\ UNCHANGED <<registry, run, foreign, deleted, completed>>

DrawnSpec == Init /\ [][Next \/ DrawPlan]_vars

-----------------------------------------------------------------------------
Contents ==
  [of   : Subjects \cup {<<"foreign", k>> : k \in 1..ForeignBound},
   refs : UNION {[D -> Nat] : D \in SUBSET Names}]

Entries == [content : Contents, live : BOOLEAN]

RunStates ==
  [at : Nat \ {0}, step : {"create", "list", "scan", "done", "failed"},
   listed : SUBSET Nat, versions : [Names -> Nat], id : Contents \cup {<<>>}]

TypeOK ==
  /\ plan \in Plan
  /\ registry \in [Subjects -> Seq(Entries)]
  /\ run \in [Runs -> RunStates]
  /\ foreign \in 0..ForeignBound
  /\ deleted \in Nat
  /\ completed \in BOOLEAN

(* Version v of s is a definition of the tool's own.                       *)
Own(s, v) == v \in DOMAIN registry[s] /\ registry[s][v].content.of = s

(* An own definition names versions that are own definitions in turn, also *)
(* those that have been deleted since.                                     *)
OwnReferOwn ==
  \A s \in Subjects : \A v \in DOMAIN registry[s] :
    LET content == registry[s][v].content IN
    content.of = s =>
      /\ DOMAIN content.refs = RangeOf(ReferencesOf(plan, s))
      /\ \A n \in DOMAIN content.refs : Own(n, content.refs[n])

(* The registry refuses to delete what a live schema refers to.            *)
LiveResolve ==
  \A s \in Subjects : \A v \in Live(s) : Resolves(registry[s][v].content)

AllLive ==
  deleted = 0 => \A s \in Subjects : \A v \in DOMAIN registry[s] : registry[s][v].live

(* No subject is given two definitions by the runs: only a deletion makes  *)
(* them differ.                                                            *)
OwnOnce ==
  deleted = 0 =>
    \A s \in Subjects : \A v, w \in DOMAIN registry[s] :
      Own(s, v) /\ Own(s, w) => v = w

RegistryInv == OwnReferOwn /\ LiveResolve /\ AllLive /\ OwnOnce

(* A run is somewhere in the plan, has noted own definitions, and has      *)
(* behind it only what is registered.                                      *)
InPlan(r) ==
  /\ run[r].at <= Len(Sequence(plan)) + 1
  /\ run[r].step \in {"create", "list", "scan"} => run[r].at <= Len(Sequence(plan))

NotedOwn(r) == \A n \in Names : run[r].versions[n] # 0 => Own(n, run[r].versions[n])

Behind(r) ==
  \A j \in 1..(run[r].at - 1) :
    LET s == Sequence(plan)[j] IN
    /\ \E v \in DOMAIN registry[s] : Own(s, v)
    /\ s \in Names => run[r].versions[s] # 0

(* While it looks for the version of what it has registered, it will find  *)
(* it unless it is deleted.                                                *)
Seeking(r) ==
  run[r].step \in {"list", "scan"} =>
    LET s == Current(r) IN
    /\ s \in Names
    /\ run[r].id = Content(plan, s, run[r].versions)
    /\ run[r].step = "scan" => run[r].listed \subseteq DOMAIN registry[s]
    /\ deleted = 0 =>
         \E v \in (IF run[r].step = "list" THEN DOMAIN registry[s] ELSE run[r].listed) :
           registry[s][v].content = run[r].id

RunInv(r) == InPlan(r) /\ NotedOwn(r) /\ Behind(r) /\ Seeking(r)

CompletedInv ==
  completed =>
    \A j \in DOMAIN Sequence(plan) :
      \E v \in DOMAIN registry[Sequence(plan)[j]] : Own(Sequence(plan)[j], v)

RegInv == TypeOK /\ RegistryInv /\ (\A r \in Runs : RunInv(r)) /\ CompletedInv

-----------------------------------------------------------------------------
LEMMA GreatestExists ==
  ASSUME NEW n \in Nat, NEW T, T \subseteq 1..n, T # {}
  PROVE  \E x \in T : \A y \in T : y <= x
<1> DEFINE U == {n - x : x \in T}
<1>1. U \subseteq Nat /\ U # {}
  <2>1. \A x \in T : n - x \in Nat
    OBVIOUS
  <2> QED BY <2>1, Zenon
<1>2. PICK u \in U : \A y \in U : u <= y
  BY <1>1, LeastExists
<1>3. PICK x \in T : u = n - x
  BY <1>2
<1>4. \A y \in T : n - x <= n - y
  BY <1>2, <1>3
<1> QED BY <1>4

-----------------------------------------------------------------------------
(* What a plan lists.                                                      *)

LEMMA SequenceType ==
  ASSUME NEW p \in Plan
  PROVE  /\ Sequence(p) \in Seq(Subjects)
         /\ Len(Sequence(p)) \in Nat \ {0}
         /\ \A s \in Subjects : ReferencesOf(p, s) \in Seq(Names)
         /\ \A s \in Subjects : RangeOf(ReferencesOf(p, s)) \subseteq Names
<1>1. /\ p.subjects \in Seq(Names) /\ p.branches \in Seq(Names)
      /\ p.refs \in [Names -> Seq(Names)] /\ p.keyed \in BOOLEAN
  BY DEF Plan
<1>2. p.subjects \in Seq(Subjects)
  BY <1>1 DEF Subjects
<1> DEFINE key == IF p.keyed THEN <<Key>> ELSE <<>>
<1>3. key \in Seq(Subjects) /\ Len(key) \in Nat
  <2>1. CASE p.keyed
    BY <2>1 DEF Subjects
  <2>2. CASE ~p.keyed
    BY <2>2
  <2> QED BY <2>1, <2>2
<1>4. <<Value>> \in Seq(Subjects) /\ Len(<<Value>>) = 1
  BY DEF Subjects
<1>5. Sequence(p) \in Seq(Subjects) /\ Len(Sequence(p)) \in Nat \ {0}
  <2>1. Sequence(p) = (p.subjects \o <<Value>>) \o key
    BY Zenon DEF Sequence
  <2> HIDE DEF key
  <2>2. /\ p.subjects \o <<Value>> \in Seq(Subjects)
        /\ Len(p.subjects \o <<Value>>) = Len(p.subjects) + 1
    BY <1>2, <1>4
  <2> QED BY <1>2, <1>3, <2>1, <2>2
<1>6. \A s \in Subjects : ReferencesOf(p, s) \in Seq(Names)
  BY <1>1 DEF ReferencesOf, Subjects
<1>7. \A s \in Subjects : RangeOf(ReferencesOf(p, s)) \subseteq Names
  BY <1>6 DEF RangeOf
<1> QED BY <1>5, <1>6, <1>7

LEMMA ContentType ==
  ASSUME NEW p \in Plan, NEW s \in Subjects, NEW versions \in [Names -> Nat]
  PROVE  /\ Content(p, s, versions) \in Contents
         /\ Content(p, s, versions).of = s
         /\ DOMAIN Content(p, s, versions).refs = RangeOf(ReferencesOf(p, s))
         /\ \A n \in RangeOf(ReferencesOf(p, s)) :
              n \in Names /\ Content(p, s, versions).refs[n] = versions[n]
<1>1. RangeOf(ReferencesOf(p, s)) \subseteq Names
  BY SequenceType
<1>2. [n \in RangeOf(ReferencesOf(p, s)) |-> versions[n]]
        \in [RangeOf(ReferencesOf(p, s)) -> Nat]
  BY <1>1
<1>3. [n \in RangeOf(ReferencesOf(p, s)) |-> versions[n]]
        \in UNION {[D -> Nat] : D \in SUBSET Names}
  BY <1>1, <1>2
<1> QED BY <1>1, <1>3 DEF Content, Contents

LEMMA ForeignType ==
  ASSUME NEW k \in 1..ForeignBound
  PROVE  /\ ForeignContent(k) \in Contents
         /\ ForeignContent(k).of \notin Subjects
         /\ DOMAIN ForeignContent(k).refs = {}
<1>1. <<>> \in [{} -> Nat]
  OBVIOUS
<1>2. <<>> \in UNION {[D -> Nat] : D \in SUBSET Names}
  BY <1>1
<1>3. <<"foreign", k>> \in {<<"foreign", i>> : i \in 1..ForeignBound}
  OBVIOUS
<1>4. DOMAIN <<>> = {}
  OBVIOUS
<1>5. /\ ForeignContent(k) = [of |-> <<"foreign", k>>, refs |-> <<>>]
      /\ ForeignContent(k).of = <<"foreign", k>>
      /\ ForeignContent(k).refs = <<>>
  BY DEF ForeignContent
<1>6. ForeignContent(k) \in Contents
  BY <1>2, <1>3, <1>5 DEF Contents
<1> QED BY <1>4, <1>5, <1>6, ForeignAssumption

-----------------------------------------------------------------------------
(* The three ways the registry changes.                                    *)

Adds(s, content) ==
  registry' = [registry EXCEPT ![s] = Append(@, [content |-> content, live |-> TRUE])]

Kept ==
  \A s \in Subjects :
    /\ DOMAIN registry[s] \subseteq DOMAIN registry'[s]
    /\ \A v \in DOMAIN registry[s] : registry'[s][v].content = registry[s][v].content

LEMMA AddsEntry ==
  ASSUME TypeOK, NEW s \in Subjects, NEW content \in Contents, Adds(s, content)
  PROVE  LET new == Len(registry[s]) + 1 IN
         /\ registry' \in [Subjects -> Seq(Entries)]
         /\ new \in Nat \ {0} /\ new \notin DOMAIN registry[s]
         /\ DOMAIN registry'[s] = DOMAIN registry[s] \cup {new}
         /\ registry'[s][new] = [content |-> content, live |-> TRUE]
         /\ \A v \in DOMAIN registry[s] : registry'[s][v] = registry[s][v]
         /\ \A t \in Subjects \ {s} : registry'[t] = registry[t]
<1>1. registry \in [Subjects -> Seq(Entries)] /\ registry[s] \in Seq(Entries)
  BY DEF TypeOK
<1> DEFINE e == [content |-> content, live |-> TRUE]
<1>2. e \in Entries
  BY DEF Entries
<1>3. registry'[s] = Append(registry[s], e)
  BY <1>1 DEF Adds
<1> HIDE DEF e
<1>4. /\ Append(registry[s], e) \in Seq(Entries)
      /\ Len(Append(registry[s], e)) = Len(registry[s]) + 1
      /\ DOMAIN Append(registry[s], e) = 1..(Len(registry[s]) + 1)
      /\ DOMAIN registry[s] = 1..Len(registry[s])
      /\ \A v \in 1..Len(registry[s]) : Append(registry[s], e)[v] = registry[s][v]
      /\ Append(registry[s], e)[Len(registry[s]) + 1] = e
  BY <1>1, <1>2
<1>5. \A t \in Subjects \ {s} : registry'[t] = registry[t]
  BY <1>1 DEF Adds
<1>6. registry' \in [Subjects -> Seq(Entries)]
  BY <1>1, <1>3, <1>4, <1>5 DEF Adds, e
<1> QED BY <1>1, <1>3, <1>4, <1>5, <1>6 DEF e

LEMMA DeletesEntry ==
  ASSUME TypeOK, NEW s \in Subjects, NEW v \in DOMAIN registry[s],
         registry' = [registry EXCEPT ![s][v].live = FALSE]
  PROVE  /\ registry' \in [Subjects -> Seq(Entries)]
         /\ \A t \in Subjects :
              /\ DOMAIN registry'[t] = DOMAIN registry[t]
              /\ \A w \in DOMAIN registry[t] :
                   /\ registry'[t][w].content = registry[t][w].content
                   /\ registry'[t][w].live <=> registry[t][w].live /\ ~(t = s /\ w = v)
<1>1. /\ registry \in [Subjects -> Seq(Entries)]
      /\ \A t \in Subjects : registry[t] \in Seq(Entries)
  BY DEF TypeOK
<1> DEFINE e == [registry[s][v] EXCEPT !.live = FALSE]
<1>2. registry[s][v] \in Entries
  BY <1>1
<1>3. e \in Entries /\ e.content = registry[s][v].content /\ e.live = FALSE
  BY <1>2 DEF Entries
<1>4. registry' = [registry EXCEPT ![s] = [registry[s] EXCEPT ![v] = e]]
  BY <1>1
<1> HIDE DEF e
<1>5. [registry[s] EXCEPT ![v] = e] \in Seq(Entries)
  BY <1>1, <1>3
<1>6. registry' \in [Subjects -> Seq(Entries)]
  BY <1>1, <1>4, <1>5
<1>7. /\ registry'[s] = [registry[s] EXCEPT ![v] = e]
      /\ \A t \in Subjects \ {s} : registry'[t] = registry[t]
  BY <1>1, <1>4
<1>8. /\ DOMAIN registry'[s] = DOMAIN registry[s]
      /\ registry'[s][v] = e
      /\ \A w \in DOMAIN registry[s] \ {v} : registry'[s][w] = registry[s][w]
  BY <1>1, <1>7
<1> QED BY <1>3, <1>6, <1>7, <1>8

-----------------------------------------------------------------------------
(* What a step leaves alone.                                               *)

LEMMA OwnStays ==
  ASSUME Kept, NEW s \in Subjects, NEW v, Own(s, v)
  PROVE  /\ Own(s, v)'
         /\ v \in DOMAIN registry'[s] /\ registry'[s][v].content.of = s
BY DEF Kept, Own

LEMMA EntryType ==
  ASSUME TypeOK, NEW s \in Subjects, NEW v \in DOMAIN registry[s]
  PROVE  /\ registry[s][v].content \in Contents
         /\ DOMAIN registry[s][v].content.refs \subseteq Subjects
<1>1. registry[s] \in Seq(Entries)
  BY DEF TypeOK
<1>2. registry[s][v] \in Entries
  BY <1>1
<1>3. registry[s][v].content \in Contents
  BY <1>2 DEF Entries
<1>4. PICK D \in SUBSET Names : registry[s][v].content.refs \in [D -> Nat]
  BY <1>3 DEF Contents
<1> QED BY <1>3, <1>4 DEF Subjects

LEMMA ReferencesStay ==
  ASSUME TypeOK, plan' = plan, NEW s \in Subjects
  PROVE  /\ RangeOf(ReferencesOf(plan, s))' = RangeOf(ReferencesOf(plan, s))
         /\ RangeOf(ReferencesOf(plan, s)) \subseteq Subjects
<1>1. plan \in Plan
  BY PlansAssumption DEF TypeOK
<1> QED BY <1>1, SequenceType DEF RangeOf, ReferencesOf, Subjects

LEMMA CurrentType ==
  ASSUME TypeOK, NEW r \in Runs, run[r].at <= Len(Sequence(plan))
  PROVE  /\ plan \in Plan
         /\ run[r] \in RunStates
         /\ run[r].versions \in [Names -> Nat]
         /\ run[r].at \in 1..Len(Sequence(plan))
         /\ Current(r) \in Subjects
<1>1. plan \in Plan /\ run[r] \in RunStates
  BY PlansAssumption DEF TypeOK
<1>2. Sequence(plan) \in Seq(Subjects) /\ Len(Sequence(plan)) \in Nat
  BY <1>1, SequenceType
<1>3. run[r].at \in Nat \ {0} /\ run[r].versions \in [Names -> Nat]
  BY <1>1 DEF RunStates
<1> QED BY <1>1, <1>2, <1>3 DEF Current

(* A run that a step does not move keeps what it knows.                    *)
LEMMA RunStays ==
  ASSUME TypeOK, Kept, plan' = plan, deleted' = 0 => deleted = 0,
         NEW r \in Runs, RunInv(r), run'[r] = run[r]
  PROVE  RunInv(r)'
<1>1. plan \in Plan /\ run[r] \in RunStates
  BY PlansAssumption DEF TypeOK
<1>2. /\ Sequence(plan) \in Seq(Subjects) /\ Len(Sequence(plan)) \in Nat
      /\ Sequence(plan)' = Sequence(plan) /\ Current(r)' = Current(r)
  BY <1>1, SequenceType DEF Sequence, Current
<1>3. run[r].at \in Nat \ {0}
  BY <1>1 DEF RunStates
<1>4. InPlan(r)'
  BY <1>2 DEF RunInv, InPlan
<1>5. NotedOwn(r)'
  <2>1. \A n \in Names : n \in Subjects
    BY DEF Subjects
  <2> QED BY <2>1, OwnStays DEF RunInv, NotedOwn
<1>6. Behind(r)'
  <2> SUFFICES ASSUME NEW j \in 1..(run[r].at - 1)
               PROVE  LET s == Sequence(plan)[j] IN
                      /\ \E v \in DOMAIN registry'[s] : Own(s, v)'
                      /\ s \in Names => run[r].versions[s] # 0
    BY <1>2 DEF Behind, Own
  <2> DEFINE s == Sequence(plan)[j]
  <2>1. s \in Subjects
    BY <1>2, <1>3 DEF RunInv, InPlan
  <2>2. PICK v \in DOMAIN registry[s] : Own(s, v)
    BY DEF RunInv, Behind
  <2>3. Own(s, v)'
    BY <2>1, <2>2, OwnStays
  <2>4. s \in Names => run[r].versions[s] # 0
    BY DEF RunInv, Behind
  <2> QED BY <2>3, <2>4 DEF Own
<1>7. Seeking(r)'
  <2> SUFFICES ASSUME run[r].step \in {"list", "scan"} PROVE Seeking(r)'
    BY DEF Seeking
  <2> DEFINE s == Current(r)
  <2>1. s \in Subjects
    BY CurrentType DEF RunInv, InPlan
  <2>2. /\ s \in Names
        /\ run[r].id = Content(plan, s, run[r].versions)
        /\ run[r].step = "scan" => run[r].listed \subseteq DOMAIN registry[s]
    BY DEF RunInv, Seeking
  <2>3. Content(plan, s, run[r].versions)' = Content(plan, s, run[r].versions)
    BY <1>2 DEF Content, ReferencesOf
  <2>4. run[r].step = "scan" => run[r].listed \subseteq DOMAIN registry'[s]
    BY <2>1, <2>2 DEF Kept
  <2>5. ASSUME deleted' = 0
        PROVE  \E v \in (IF run[r].step = "list" THEN DOMAIN registry'[s] ELSE run[r].listed) :
                 registry'[s][v].content = run[r].id
    <3>1. PICK v \in (IF run[r].step = "list" THEN DOMAIN registry[s] ELSE run[r].listed) :
                 registry[s][v].content = run[r].id
      BY <2>5 DEF RunInv, Seeking
    <3>2. v \in DOMAIN registry[s]
      BY <2>2, <3>1
    <3> QED BY <2>1, <3>1, <3>2 DEF Kept
  <2> QED BY <1>2, <2>2, <2>3, <2>4, <2>5 DEF Seeking
<1> QED BY <1>4, <1>5, <1>6, <1>7 DEF RunInv

LEMMA CompletedStays ==
  ASSUME TypeOK, Kept, plan' = plan, completed' = completed, CompletedInv
  PROVE  CompletedInv'
<1>1. plan \in Plan
  BY PlansAssumption DEF TypeOK
<1>2. Sequence(plan) \in Seq(Subjects) /\ Sequence(plan)' = Sequence(plan)
  BY <1>1, SequenceType DEF Sequence
<1>3. ASSUME completed, NEW j \in DOMAIN Sequence(plan)
      PROVE  \E v \in DOMAIN registry'[Sequence(plan)[j]] : Own(Sequence(plan)[j], v)'
  <2>1. Sequence(plan)[j] \in Subjects
    BY <1>2
  <2>2. PICK v \in DOMAIN registry[Sequence(plan)[j]] : Own(Sequence(plan)[j], v)
    BY <1>3 DEF CompletedInv
  <2> QED BY <2>1, <2>2, OwnStays DEF Own
<1> QED BY <1>2, <1>3 DEF CompletedInv, Own

-----------------------------------------------------------------------------
(* What a run registers.                                                   *)

(* A resolved schema names own definitions, for what a run has noted is.   *)
LEMMA ResolvedIsOwn ==
  ASSUME TypeOK, NEW r \in Runs, RunInv(r), Working(r, "create"),
         Resolves(Content(plan, Current(r), run[r].versions))
  PROVE  LET s == Current(r)
             content == Content(plan, s, run[r].versions)
         IN /\ content \in Contents /\ content.of = s
            /\ DOMAIN content.refs = RangeOf(ReferencesOf(plan, s))
            /\ \A n \in DOMAIN content.refs :
                 n \in Subjects /\ Own(n, content.refs[n])
<1> DEFINE s == Current(r)
           content == Content(plan, s, run[r].versions)
<1>1. /\ plan \in Plan /\ run[r].versions \in [Names -> Nat] /\ s \in Subjects
  BY CurrentType DEF Working
<1>2. /\ content \in Contents /\ content.of = s
      /\ DOMAIN content.refs = RangeOf(ReferencesOf(plan, s))
      /\ \A n \in RangeOf(ReferencesOf(plan, s)) :
           n \in Names /\ content.refs[n] = run[r].versions[n]
  BY <1>1, ContentType
<1>3. ASSUME NEW n \in DOMAIN content.refs
      PROVE  n \in Subjects /\ Own(n, content.refs[n])
  <2>1. n \in Names /\ n \in Subjects /\ content.refs[n] = run[r].versions[n]
    BY <1>2 DEF Subjects
  <2>2. content.refs[n] \in DOMAIN registry[n]
    BY DEF Resolves, Live
  <2>3. registry[n] \in Seq(Entries)
    BY <2>1 DEF TypeOK
  <2>4. run[r].versions[n] # 0
    BY <2>1, <2>2, <2>3
  <2> QED BY <2>1, <2>4 DEF RunInv, NotedOwn
<1> QED BY <1>2, <1>3

(* Two contents are the same if they are of the same subject and refer to  *)
(* the same versions.                                                      *)
LEMMA SameContent ==
  ASSUME NEW c \in Contents, NEW d \in Contents, c.of = d.of,
         DOMAIN c.refs = DOMAIN d.refs, \A n \in DOMAIN c.refs : c.refs[n] = d.refs[n]
  PROVE  c = d
<1>1. /\ c = [of |-> c.of, refs |-> c.refs] /\ d = [of |-> d.of, refs |-> d.refs]
  BY DEF Contents
<1>2. PICK D \in SUBSET Names : c.refs \in [D -> Nat]
  BY DEF Contents
<1>3. PICK E \in SUBSET Names : d.refs \in [E -> Nat]
  BY DEF Contents
<1>4. c.refs = d.refs
  BY <1>2, <1>3
<1> QED BY <1>1, <1>4

(* While nothing is deleted, an own definition of a subject is the one     *)
(* every run has for it: what they refer to is determined too.             *)
LEMMA OwnIsHeld ==
  ASSUME TypeOK, RegistryInv, deleted = 0,
         NEW r \in Runs, RunInv(r), Working(r, "create"),
         Resolves(Content(plan, Current(r), run[r].versions)),
         NEW v, Own(Current(r), v)
  PROVE  v \in HeldAt(Current(r), Content(plan, Current(r), run[r].versions))
<1> DEFINE s == Current(r)
           content == Content(plan, s, run[r].versions)
           held == registry[s][v].content
<1>1. s \in Subjects
  BY CurrentType DEF Working
<1>2. /\ content \in Contents /\ content.of = s
      /\ DOMAIN content.refs = RangeOf(ReferencesOf(plan, s))
      /\ \A n \in DOMAIN content.refs : n \in Subjects /\ Own(n, content.refs[n])
  BY ResolvedIsOwn
<1>3. registry[s] \in Seq(Entries) /\ v \in DOMAIN registry[s]
  BY <1>1 DEF TypeOK, Own
<1>4. held \in Contents /\ held.of = s
  BY <1>1, <1>3, EntryType DEF Own
<1>5. /\ DOMAIN held.refs = RangeOf(ReferencesOf(plan, s))
      /\ \A n \in DOMAIN held.refs : Own(n, held.refs[n])
  BY <1>1, <1>3, <1>4 DEF RegistryInv, OwnReferOwn
<1> HIDE DEF s, content, held
<1>6. \A n \in DOMAIN content.refs : content.refs[n] = held.refs[n]
  BY <1>2, <1>5 DEF RegistryInv, OwnOnce, Own
<1>7. held = content
  BY <1>2, <1>4, <1>5, <1>6, SameContent
<1>8. registry[s][v].live
  BY <1>1, <1>3 DEF RegistryInv, AllLive
<1> QED BY <1>3, <1>7, <1>8 DEF HeldAt, Live, s, content, held

-----------------------------------------------------------------------------
(* The registry's own invariants under its three changes.                  *)

LEMMA AddsKeeps ==
  ASSUME TypeOK, NEW s \in Subjects, NEW content \in Contents, Adds(s, content)
  PROVE  Kept
BY AddsEntry DEF Kept

LEMMA AddsInv ==
  ASSUME TypeOK, RegistryInv, NEW s \in Subjects, NEW content \in Contents,
         Adds(s, content), plan' = plan, deleted' = deleted,
         Resolves(content), \A n \in DOMAIN content.refs : n \in Subjects,
         content.of = s =>
           /\ DOMAIN content.refs = RangeOf(ReferencesOf(plan, s))
           /\ \A n \in DOMAIN content.refs : Own(n, content.refs[n])
           /\ deleted = 0 => \A v \in DOMAIN registry[s] : ~Own(s, v)
  PROVE  RegistryInv'
<1> DEFINE new == Len(registry[s]) + 1
<1>1. /\ new \notin DOMAIN registry[s]
      /\ DOMAIN registry'[s] = DOMAIN registry[s] \cup {new}
      /\ registry'[s][new].content = content /\ registry'[s][new].live
      /\ \A v \in DOMAIN registry[s] : registry'[s][v] = registry[s][v]
      /\ \A t \in Subjects \ {s} : registry'[t] = registry[t]
  <2>1. registry'[s][new] = [content |-> content, live |-> TRUE]
    BY AddsEntry
  <2> QED BY <2>1, AddsEntry
<1>2. Kept
  BY AddsKeeps
<1> HIDE DEF new
<1>3. ASSUME NEW t \in Subjects, NEW v \in DOMAIN registry'[t]
      PROVE  \/ v \in DOMAIN registry[t] /\ registry'[t][v] = registry[t][v]
             \/ t = s /\ v = new
  BY <1>1
<1>4. \A t \in Subjects : \A v : v \in Live(t) => v \in Live(t)'
  BY <1>1 DEF Live
<1>5. OwnReferOwn'
  <2> SUFFICES ASSUME NEW t \in Subjects, NEW v \in DOMAIN registry'[t],
                      registry'[t][v].content.of = t
               PROVE  LET c == registry'[t][v].content IN
                      /\ DOMAIN c.refs = RangeOf(ReferencesOf(plan, t))
                      /\ \A n \in DOMAIN c.refs :
                           /\ c.refs[n] \in DOMAIN registry'[n]
                           /\ registry'[n][c.refs[n]].content.of = n
    BY ReferencesStay DEF OwnReferOwn, Own
  <2>1. CASE v \in DOMAIN registry[t] /\ registry'[t][v] = registry[t][v]
    <3>1. /\ DOMAIN registry[t][v].content.refs = RangeOf(ReferencesOf(plan, t))
          /\ \A n \in DOMAIN registry[t][v].content.refs :
               Own(n, registry[t][v].content.refs[n])
      BY <2>1 DEF RegistryInv, OwnReferOwn
    <3>2. DOMAIN registry[t][v].content.refs \subseteq Subjects
      BY <2>1, EntryType
    <3> QED BY <1>2, <2>1, <3>1, <3>2, OwnStays
  <2>2. CASE t = s /\ v = new
    BY <1>1, <1>2, <2>2, OwnStays
  <2> QED BY <1>3, <2>1, <2>2
<1>6. LiveResolve'
  <2> SUFFICES ASSUME NEW t \in Subjects, NEW v \in Live(t)',
                      NEW n \in DOMAIN registry'[t][v].content.refs
               PROVE  registry'[t][v].content.refs[n] \in Live(n)'
    BY DEF LiveResolve, Resolves
  <2>0. v \in DOMAIN registry'[t] /\ registry'[t][v].live
    BY DEF Live
  <2>1. CASE v \in DOMAIN registry[t] /\ registry'[t][v] = registry[t][v]
    <3>1. registry[t][v].content.refs[n] \in Live(n)
      BY <2>0, <2>1 DEF RegistryInv, LiveResolve, Resolves, Live
    <3>2. n \in Subjects
      BY <2>1, EntryType
    <3> QED BY <1>4, <2>1, <3>1, <3>2
  <2>2. CASE t = s /\ v = new
    BY <1>1, <1>4, <2>2 DEF Resolves
  <2> QED BY <1>3, <2>0, <2>1, <2>2
<1>7. AllLive'
  BY <1>1, <1>3 DEF AllLive, RegistryInv
<1>8. OwnOnce'
  <2> SUFFICES ASSUME deleted = 0, NEW t \in Subjects,
                      NEW v \in DOMAIN registry'[t], NEW w \in DOMAIN registry'[t],
                      registry'[t][v].content.of = t, registry'[t][w].content.of = t
               PROVE  v = w
    BY DEF OwnOnce, Own
  <2>1. CASE v \in DOMAIN registry[t] /\ w \in DOMAIN registry[t]
    BY <1>2, <2>1 DEF RegistryInv, OwnOnce, Own, Kept
  <2>2. CASE t = s /\ v = new /\ w \in DOMAIN registry[t]
    BY <1>1, <2>2 DEF Own
  <2>3. CASE t = s /\ w = new /\ v \in DOMAIN registry[t]
    BY <1>1, <2>3 DEF Own
  <2> QED BY <1>3, <2>1, <2>2, <2>3
<1> QED BY <1>5, <1>6, <1>7, <1>8 DEF RegistryInv

LEMMA DeletesInv ==
  ASSUME TypeOK, RegistryInv, NEW s \in Subjects, NEW v \in Live(s), Delete(s, v)
  PROVE  RegistryInv' /\ Kept
<1>0. plan' = plan
  BY DEF Delete
<1>1. /\ v \in DOMAIN registry[s]
      /\ \A t \in Subjects :
           /\ DOMAIN registry'[t] = DOMAIN registry[t]
           /\ \A w \in DOMAIN registry[t] :
                /\ registry'[t][w].content = registry[t][w].content
                /\ registry'[t][w].live <=> registry[t][w].live /\ ~(t = s /\ w = v)
  BY DeletesEntry DEF Live, Delete
<1>2. Kept
  BY <1>1 DEF Kept
<1>3. OwnReferOwn'
  <2> SUFFICES ASSUME NEW t \in Subjects, NEW w \in DOMAIN registry'[t],
                      registry'[t][w].content.of = t
               PROVE  LET c == registry'[t][w].content IN
                      /\ DOMAIN c.refs = RangeOf(ReferencesOf(plan, t))
                      /\ \A n \in DOMAIN c.refs :
                           /\ c.refs[n] \in DOMAIN registry'[n]
                           /\ registry'[n][c.refs[n]].content.of = n
    BY <1>0, ReferencesStay DEF OwnReferOwn, Own
  <2>1. w \in DOMAIN registry[t] /\ registry'[t][w].content = registry[t][w].content
    BY <1>1
  <2>2. /\ DOMAIN registry[t][w].content.refs = RangeOf(ReferencesOf(plan, t))
        /\ \A n \in DOMAIN registry[t][w].content.refs :
             Own(n, registry[t][w].content.refs[n])
    BY <2>1 DEF RegistryInv, OwnReferOwn
  <2>3. DOMAIN registry[t][w].content.refs \subseteq Subjects
    BY <2>1, EntryType
  <2> QED BY <1>2, <2>1, <2>2, <2>3, OwnStays
<1>4. LiveResolve'
  <2> SUFFICES ASSUME NEW t \in Subjects, NEW w \in DOMAIN registry[t], registry'[t][w].live,
                      NEW n \in DOMAIN registry[t][w].content.refs
               PROVE  registry[t][w].content.refs[n] \in Live(n)'
    BY <1>1 DEF LiveResolve, Resolves, Live
  <2>1. registry[t][w].live /\ w \in Live(t)
    BY <1>1 DEF Live
  <2>2. registry[t][w].content.refs[n] \in Live(n)
    BY <2>1 DEF RegistryInv, LiveResolve, Resolves
  <2>3. n \in Subjects
    BY EntryType
  <2>4. ~(n = s /\ registry[t][w].content.refs[n] = v)
    BY <2>1 DEF Delete, Referenced
  <2> QED BY <1>1, <2>2, <2>3, <2>4 DEF Live
<1>5. deleted' # 0
  BY DEF Delete, TypeOK
<1> QED BY <1>2, <1>3, <1>4, <1>5 DEF RegistryInv, AllLive, OwnOnce

(* Where the registry stays as it is, so does what is said of it.          *)
LEMMA RegistryStays ==
  ASSUME RegistryInv, plan' = plan, registry' = registry, deleted' = deleted
  PROVE  Kept /\ RegistryInv'
<1>1. \A t : Live(t)' = Live(t)
  BY DEF Live
<1>2. \A t, v : Own(t, v)' <=> Own(t, v)
  BY DEF Own
<1>3. \A t : ReferencesOf(plan, t)' = ReferencesOf(plan, t)
  BY DEF ReferencesOf
<1>4. OwnReferOwn'
  BY <1>2, <1>3 DEF RegistryInv, OwnReferOwn
<1>5. LiveResolve'
  BY <1>1 DEF RegistryInv, LiveResolve, Resolves
<1>6. AllLive'
  BY DEF RegistryInv, AllLive
<1>7. OwnOnce'
  BY <1>2 DEF RegistryInv, OwnOnce
<1>8. Kept
  BY DEF Kept
<1> QED BY <1>4, <1>5, <1>6, <1>7, <1>8 DEF RegistryInv

-----------------------------------------------------------------------------
(* The actions of a run.                                                   *)

LEMMA InitInv == Init => RegInv
<1> SUFFICES ASSUME Init PROVE RegInv
  OBVIOUS
<1>1. plan \in Plan /\ plan \in Plans
  BY PlansAssumption DEF Init
<1>2. NewRun \in RunStates /\ NewRun.at = 1 /\ NewRun.step = "create"
      /\ NewRun.listed = {} /\ \A n \in Names : NewRun.versions[n] = 0
  BY DEF NewRun, RunStates
<1>3. TypeOK
  <2>1. <<>> \in Seq(Entries)
    OBVIOUS
  <2>2. registry \in [Subjects -> Seq(Entries)] /\ run \in [Runs -> RunStates]
    BY <1>2, <2>1 DEF Init
  <2>3. foreign \in 0..ForeignBound /\ deleted \in Nat
    BY BoundsAssumption DEF Init
  <2> QED BY <1>1, <2>2, <2>3 DEF TypeOK, Init
<1>4. \A s \in Subjects : registry[s] = <<>> /\ DOMAIN registry[s] = {}
  BY DEF Init
<1>5. RegistryInv
  BY <1>4 DEF RegistryInv, OwnReferOwn, LiveResolve, AllLive, OwnOnce, Live
<1>6. ASSUME NEW r \in Runs PROVE RunInv(r)
  <2>1. run[r] = NewRun
    BY DEF Init
  <2>2. Len(Sequence(plan)) \in Nat \ {0}
    BY <1>1, SequenceType
  <2> QED BY <1>2, <2>1, <2>2 DEF RunInv, InPlan, NotedOwn, Behind, Seeking
<1> QED BY <1>3, <1>5, <1>6 DEF RegInv, CompletedInv, Init

(* A run that fails, or begins again, knows nothing.                       *)
LEMMA StartsAnew ==
  ASSUME TypeOK, NEW r \in Runs, plan' = plan,
         run' = [run EXCEPT ![r] = [NewRun EXCEPT !.step = "failed"]]
           \/ run' = [run EXCEPT ![r] = NewRun]
  PROVE  /\ run' \in [Runs -> RunStates]
         /\ \A q \in Runs \ {r} : run'[q] = run[q]
         /\ RunInv(r)'
<1>0. PICK new : /\ new \in RunStates /\ run' = [run EXCEPT ![r] = new]
                 /\ new.at = 1 /\ new.step \in {"create", "failed"}
                 /\ \A n \in Names : new.versions[n] = 0
  <2> DEFINE failed == [NewRun EXCEPT !.step = "failed"]
  <2>1. /\ NewRun \in RunStates /\ NewRun.at = 1 /\ NewRun.step = "create"
        /\ \A n \in Names : NewRun.versions[n] = 0
    BY DEF NewRun, RunStates
  <2>2. /\ failed \in RunStates /\ failed.at = 1 /\ failed.step = "failed"
        /\ \A n \in Names : failed.versions[n] = 0
    BY DEF NewRun, RunStates
  <2> HIDE DEF failed
  <2>3. run' = [run EXCEPT ![r] = failed] \/ run' = [run EXCEPT ![r] = NewRun]
    BY DEF failed
  <2>4. CASE run' = [run EXCEPT ![r] = failed]
    BY <2>2, <2>4
  <2>5. CASE run' = [run EXCEPT ![r] = NewRun]
    BY <2>1, <2>5
  <2> QED BY <2>3, <2>4, <2>5
<1>1. /\ run' \in [Runs -> RunStates] /\ run'[r] = new
      /\ \A q \in Runs \ {r} : run'[q] = run[q]
  BY <1>0 DEF TypeOK
<1>2. Len(Sequence(plan)) \in Nat \ {0} /\ Sequence(plan)' = Sequence(plan)
  BY SequenceType, PlansAssumption DEF TypeOK, Sequence
<1> QED BY <1>0, <1>1, <1>2 DEF RunInv, InPlan, NotedOwn, Behind, Seeking

(* A run moves on once what it is at is registered and, if it is a type's  *)
(* definition, its version noted.                                          *)
LEMMA AdvanceInv ==
  ASSUME TypeOK, RegInv, Kept, plan' = plan, NEW r \in Runs,
         run[r].at <= Len(Sequence(plan)), NEW versions \in [Names -> Nat],
         NEW listed \in SUBSET Nat,
         Advance(r, [run[r] EXCEPT !.versions = versions, !.listed = listed]),
         \A n \in Names : versions[n] # 0 => Own(n, versions[n])',
         \A n \in Names : run[r].versions[n] # 0 => versions[n] # 0,
         NEW s, s = Current(r), s \in Names => versions[s] # 0,
         \E v \in DOMAIN registry'[s] : Own(s, v)'
  PROVE  /\ run' \in [Runs -> RunStates] /\ completed' \in BOOLEAN
         /\ \A q \in Runs \ {r} : run'[q] = run[q]
         /\ RunInv(r)' /\ CompletedInv'
<1> DEFINE done == run[r].at = Len(Sequence(plan))
<1>1. /\ plan \in Plan /\ run[r] \in RunStates /\ run \in [Runs -> RunStates]
      /\ Current(r) \in Subjects /\ RunInv(r)
  BY CurrentType DEF TypeOK, RegInv
<1>2. /\ Sequence(plan) \in Seq(Subjects) /\ Len(Sequence(plan)) \in Nat \ {0}
      /\ Sequence(plan)' = Sequence(plan)
  BY <1>1, SequenceType DEF Sequence
<1>3. /\ run[r].at \in Nat \ {0} /\ run[r].id \in Contents \cup {<<>>}
  BY <1>1 DEF RunStates
<1>4. /\ run'[r].at = run[r].at + 1 /\ run'[r].versions = versions
      /\ run'[r].step = IF done THEN "done" ELSE "create"
      /\ run' \in [Runs -> RunStates]
      /\ \A q \in Runs \ {r} : run'[q] = run[q]
      /\ completed' = (completed \/ done)
  <2> DEFINE state == [run[r] EXCEPT !.versions = versions, !.listed = listed]
             step == IF done THEN "done" ELSE "create"
             next == [state EXCEPT !.at = @ + 1, !.step = step]
  <2>1. /\ state \in RunStates /\ state.at = run[r].at /\ state.listed = listed
        /\ state.versions = versions /\ state.id = run[r].id
    BY <1>1 DEF RunStates
  <2> HIDE DEF state
  <2>2. /\ next \in RunStates /\ next.at = run[r].at + 1 /\ next.listed = listed
        /\ next.step = IF done THEN "done" ELSE "create"
        /\ next.versions = versions /\ next.id = run[r].id
    <3>1. step \in {"done", "create"}
      OBVIOUS
    <3> HIDE DEF step
    <3>2. state.at + 1 \in Nat \ {0}
      BY <1>3, <2>1
    <3>3. next \in RunStates
      BY <2>1, <3>1, <3>2 DEF RunStates
    <3>4. next.at = run[r].at + 1 /\ next.step = step
      BY <2>1 DEF RunStates
    <3>5. next.listed = listed /\ next.versions = versions /\ next.id = run[r].id
      BY <2>1 DEF RunStates
    <3> QED BY <3>3, <3>4, <3>5 DEF step
  <2>3. run' = [run EXCEPT ![r] = next] /\ completed' = (completed \/ done)
    BY DEF Advance, state
  <2> HIDE DEF next
  <2> QED BY <1>1, <2>2, <2>3
<1>6. InPlan(r)'
  BY <1>2, <1>3, <1>4 DEF InPlan
<1>7. NotedOwn(r)'
  BY <1>4 DEF NotedOwn, Own
<1>8. Behind(r)'
  <2> SUFFICES ASSUME NEW j \in 1..run[r].at
               PROVE  LET t == Sequence(plan)[j] IN
                      /\ \E v \in DOMAIN registry'[t] : registry'[t][v].content.of = t
                      /\ t \in Names => versions[t] # 0
    BY <1>2, <1>3, <1>4 DEF Behind, Own
  <2>1. CASE j = run[r].at
    BY <2>1 DEF Current, Own
  <2>2. CASE j # run[r].at
    <3>1. j \in 1..(run[r].at - 1) /\ Sequence(plan)[j] \in Subjects
      BY <1>2, <1>3, <2>2
    <3>2. /\ \E v \in DOMAIN registry[Sequence(plan)[j]] : Own(Sequence(plan)[j], v)
          /\ Sequence(plan)[j] \in Names => run[r].versions[Sequence(plan)[j]] # 0
      BY <1>1, <3>1 DEF RunInv, Behind
    <3> QED BY <3>1, <3>2, OwnStays DEF Own
  <2> QED BY <2>1, <2>2
<1>9. Seeking(r)'
  BY <1>4 DEF Seeking
<1>10. CompletedInv'
  <2>1. CASE ~done
    BY <1>4, <2>1, CompletedStays DEF RegInv, TypeOK
  <2>2. CASE done
    BY <1>2, <1>4, <1>8, <2>2 DEF Behind, CompletedInv
  <2> QED BY <2>1, <2>2
<1> QED BY <1>4, <1>6, <1>7, <1>8, <1>9, <1>10 DEF RunInv, TypeOK

LEMMA NewestListed ==
  ASSUME TypeOK, NEW r \in Runs, RunInv(r), run[r].step = "scan", run[r].listed # {}
  PROVE  Newest(r) \in run[r].listed
<1> DEFINE s == Current(r)
<1>1. s \in Subjects /\ run[r].listed \subseteq DOMAIN registry[s]
  BY CurrentType DEF RunInv, InPlan, Seeking
<1>2. registry[s] \in Seq(Entries)
  BY <1>1 DEF TypeOK
<1>3. Len(registry[s]) \in Nat /\ DOMAIN registry[s] = 1..Len(registry[s])
  BY <1>2
<1>4. \E v \in run[r].listed : \A w \in run[r].listed : w <= v
  BY <1>1, <1>3, GreatestExists
<1> QED BY <1>4 DEF Newest

-----------------------------------------------------------------------------
LEMMA CreateInv ==
  ASSUME RegInv, NEW r \in Runs, Create(r)
  PROVE  RegInv'
<1> DEFINE s == Current(r)
           versions == run[r].versions
           content == Content(plan, s, versions)
<1>1. /\ TypeOK /\ RunInv(r) /\ plan' = plan /\ deleted' = deleted /\ foreign' = foreign
      /\ Working(r, "create") /\ Resolves(content)
  BY DEF RegInv, Create
<1>2. /\ plan \in Plan /\ run[r] \in RunStates /\ versions \in [Names -> Nat]
      /\ run[r].at \in 1..Len(Sequence(plan)) /\ s \in Subjects
  BY <1>1, CurrentType DEF Working
<1>3. /\ content \in Contents /\ content.of = s
      /\ DOMAIN content.refs = RangeOf(ReferencesOf(plan, s))
      /\ \A n \in DOMAIN content.refs : n \in Subjects /\ Own(n, content.refs[n])
  BY <1>1, ResolvedIsOwn
<1> HIDE DEF content
<1>4. /\ registry' \in [Subjects -> Seq(Entries)] /\ Kept /\ RegistryInv'
      /\ \E v \in DOMAIN registry'[s] : registry'[s][v].content = content
  <2>1. CASE HeldAt(s, content) # {}
    <3>1. registry' = registry
      BY <2>1 DEF Create, content
    <3>2. PICK v \in DOMAIN registry[s] : registry[s][v].content = content
      BY <2>1 DEF HeldAt, Live
    <3>3. Kept /\ RegistryInv'
      BY <1>1, <3>1, RegistryStays DEF RegInv
    <3> QED BY <1>1, <3>1, <3>2, <3>3 DEF TypeOK
  <2>2. CASE HeldAt(s, content) = {}
    <3>1. Adds(s, content)
      BY <2>2 DEF Create, Adds, content
    <3>2. deleted = 0 => \A v \in DOMAIN registry[s] : ~Own(s, v)
      BY <1>1, <2>2, OwnIsHeld DEF RegInv, content
    <3>3. RegistryInv'
      BY <1>1, <1>2, <1>3, <3>1, <3>2, AddsInv DEF RegInv
    <3>4. registry'[s][Len(registry[s]) + 1] = [content |-> content, live |-> TRUE]
      BY <1>1, <1>2, <1>3, <3>1, AddsEntry
    <3>5. /\ registry' \in [Subjects -> Seq(Entries)]
          /\ Len(registry[s]) + 1 \in DOMAIN registry'[s]
      BY <1>1, <1>2, <1>3, <3>1, AddsEntry
    <3> QED BY <1>1, <1>2, <1>3, <3>1, <3>3, <3>4, <3>5, AddsKeeps
  <2> QED BY <2>1, <2>2
<1>5. \A n \in Names : versions[n] # 0 => Own(n, versions[n]) /\ n \in Subjects
  BY <1>1 DEF RunInv, NotedOwn, Subjects
<1>6. CASE s \in Names
  <2> DEFINE next == [run[r] EXCEPT !.step = "list", !.id = content]
  <2>1. run' = [run EXCEPT ![r] = next] /\ completed' = completed
    BY <1>6 DEF Create, content
  <2>2. /\ next \in RunStates /\ next.at = run[r].at /\ next.step = "list"
        /\ next.versions = versions /\ next.id = content /\ next.listed = run[r].listed
    BY <1>2, <1>3 DEF RunStates
  <2> HIDE DEF next
  <2>3. /\ run' \in [Runs -> RunStates] /\ run'[r] = next
        /\ \A q \in Runs \ {r} : run'[q] = run[q]
    BY <1>1, <2>1, <2>2 DEF TypeOK
  <2>4. TypeOK'
    BY <1>1, <1>4, <2>1, <2>3 DEF TypeOK
  <2>5. Sequence(plan)' = Sequence(plan) /\ Current(r)' = s
    BY <1>1, <2>2, <2>3 DEF Sequence, Current
  <2>6. InPlan(r)' /\ Behind(r)'
    <3>1. InPlan(r)'
      BY <1>1, <1>2, <2>2, <2>3, <2>5 DEF InPlan
    <3>2. ASSUME NEW j \in 1..(run[r].at - 1)
          PROVE  LET t == Sequence(plan)[j] IN
                 /\ \E v \in DOMAIN registry'[t] : registry'[t][v].content.of = t
                 /\ t \in Names => versions[t] # 0
      <4>1. Sequence(plan)[j] \in Subjects
        BY <1>2, SequenceType
      <4>2. /\ \E v \in DOMAIN registry[Sequence(plan)[j]] : Own(Sequence(plan)[j], v)
            /\ Sequence(plan)[j] \in Names => versions[Sequence(plan)[j]] # 0
        BY <1>1 DEF RunInv, Behind
      <4> QED BY <1>4, <4>1, <4>2, OwnStays
    <3> QED BY <2>2, <2>3, <2>5, <3>1, <3>2 DEF Behind, Own
  <2>7. NotedOwn(r)'
    BY <1>4, <1>5, <2>2, <2>3, OwnStays DEF NotedOwn, Own
  <2>8. Seeking(r)'
    <3>1. Content(plan, s, versions)' = content
      BY <1>1, <2>2, <2>3, <2>5 DEF Content, ReferencesOf, content
    <3> QED BY <1>4, <1>6, <2>2, <2>3, <2>5, <3>1 DEF Seeking
  <2>9. \A q \in Runs \ {r} : RunInv(q)'
    BY <1>1, <1>4, <2>3, RunStays DEF RegInv
  <2>10. CompletedInv'
    BY <1>1, <1>4, <2>1, CompletedStays DEF RegInv
  <2> QED BY <1>4, <2>4, <2>6, <2>7, <2>8, <2>9, <2>10 DEF RegInv, RunInv
<1>7. CASE s \notin Names
  <2>1. PICK noted, listed : noted = versions /\ listed = run[r].listed
    OBVIOUS
  <2>2. noted \in [Names -> Nat] /\ listed \in SUBSET Nat
    BY <1>2, <2>1 DEF RunStates
  <2>3. run[r] = [run[r] EXCEPT !.versions = noted, !.listed = listed]
    BY <1>2, <2>1 DEF RunStates
  <2>4. Advance(r, run[r])
    BY <1>7 DEF Create
  <2>5. Advance(r, [run[r] EXCEPT !.versions = noted, !.listed = listed])
    BY <2>3, <2>4, Zenon
  <2>6. \A n \in Names : noted[n] # 0 => Own(n, noted[n])'
    BY <1>4, <1>5, <2>1, OwnStays
  <2>7. PICK t : t = s
    OBVIOUS
  <2>8. \E v \in DOMAIN registry'[t] : Own(t, v)'
    BY <1>3, <1>4, <2>7 DEF Own
  <2>9. /\ run' \in [Runs -> RunStates] /\ completed' \in BOOLEAN
        /\ \A q \in Runs \ {r} : run'[q] = run[q]
        /\ RunInv(r)' /\ CompletedInv'
    <3>1. run[r].at <= Len(Sequence(plan)) /\ t = Current(r) /\ t \notin Names
      BY <1>7, <1>2, <2>7
    <3>2. \A n \in Names : run[r].versions[n] # 0 => noted[n] # 0
      BY <2>1
    <3> QED BY <1>1, <1>4, <2>2, <2>5, <2>6, <2>8, <3>1, <3>2, AdvanceInv
  <2>10. \A q \in Runs \ {r} : RunInv(q)'
    BY <1>1, <1>4, <2>9, RunStays DEF RegInv
  <2> QED BY <1>1, <1>4, <2>9, <2>10 DEF RegInv, TypeOK
<1> QED BY <1>6, <1>7

LEMMA ListInv ==
  ASSUME RegInv, NEW r \in Runs, List(r)
  PROVE  RegInv'
<1> DEFINE s == Current(r)
           next == [run[r] EXCEPT !.step = "scan", !.listed = Live(s)]
<1>1. /\ TypeOK /\ RunInv(r) /\ plan' = plan /\ registry' = registry
      /\ deleted' = deleted /\ foreign' = foreign /\ completed' = completed
      /\ Working(r, "list") /\ run' = [run EXCEPT ![r] = next]
  BY DEF RegInv, List
<1>2. /\ plan \in Plan /\ run[r] \in RunStates /\ run[r].at \in 1..Len(Sequence(plan))
      /\ s \in Subjects
  BY <1>1, CurrentType DEF Working
<1>3. /\ registry[s] \in Seq(Entries) /\ Live(s) \subseteq DOMAIN registry[s]
      /\ Live(s) \in SUBSET Nat
  BY <1>1, <1>2 DEF TypeOK, Live
<1>4. /\ next \in RunStates /\ next.at = run[r].at /\ next.step = "scan"
      /\ next.versions = run[r].versions /\ next.id = run[r].id /\ next.listed = Live(s)
  BY <1>2, <1>3 DEF RunStates
<1> HIDE DEF next
<1>5. /\ run' \in [Runs -> RunStates] /\ run'[r] = next
      /\ \A q \in Runs \ {r} : run'[q] = run[q]
  BY <1>1, <1>4 DEF TypeOK
<1>6. /\ Sequence(plan)' = Sequence(plan) /\ Current(r)' = s
      /\ \A t, v : Own(t, v)' <=> Own(t, v)
  BY <1>1, <1>4, <1>5 DEF Sequence, Current, Own
<1>7. Kept /\ RegistryInv'
  BY <1>1, RegistryStays DEF RegInv
<1>8. InPlan(r)'
  BY <1>1, <1>2, <1>4, <1>5, <1>6 DEF InPlan
<1>9. NotedOwn(r)' /\ Behind(r)'
  BY <1>1, <1>4, <1>5, <1>6 DEF RunInv, NotedOwn, Behind
<1>10. Seeking(r)'
  <2>1. /\ s \in Names /\ run[r].id = Content(plan, s, run[r].versions)
        /\ deleted = 0 => \E v \in DOMAIN registry[s] : registry[s][v].content = run[r].id
    BY <1>1 DEF RunInv, Seeking, Working
  <2>2. Content(plan', s, run'[r].versions) = Content(plan, s, run[r].versions)
    BY <1>1, <1>4, <1>5, <1>6 DEF Content, ReferencesOf
  <2>3. deleted = 0 => DOMAIN registry[s] \subseteq Live(s)
    BY <1>2 DEF RegInv, RegistryInv, AllLive, Live
  <2> QED BY <1>1, <1>3, <1>4, <1>5, <1>6, <2>1, <2>2, <2>3 DEF Seeking, Content
<1>11. \A q \in Runs \ {r} : RunInv(q)'
  BY <1>1, <1>5, <1>7, RunStays DEF RegInv
<1>12. CompletedInv'
  BY <1>1, <1>7, CompletedStays DEF RegInv
<1> QED BY <1>1, <1>5, <1>7, <1>8, <1>9, <1>10, <1>11, <1>12 DEF RegInv, RunInv, TypeOK

LEMMA ScanInv ==
  ASSUME RegInv, NEW r \in Runs, Scan(r)
  PROVE  RegInv'
<1> DEFINE s == Current(r)
<1>1. /\ TypeOK /\ RunInv(r) /\ plan' = plan /\ registry' = registry
      /\ deleted' = deleted /\ foreign' = foreign
      /\ Working(r, "scan") /\ run[r].listed # {} /\ Newest(r) \in Live(s)
  BY DEF RegInv, Scan
<1>2. /\ plan \in Plan /\ run[r] \in RunStates /\ run[r].at \in 1..Len(Sequence(plan))
      /\ s \in Subjects /\ run[r].versions \in [Names -> Nat] /\ run[r].listed \in SUBSET Nat
  BY <1>1, CurrentType DEF Working, RunStates
<1>3. /\ s \in Names /\ run[r].id = Content(plan, s, run[r].versions)
      /\ run[r].listed \subseteq DOMAIN registry[s]
      /\ deleted = 0 => \E v \in run[r].listed : registry[s][v].content = run[r].id
  BY <1>1 DEF RunInv, Seeking, Working
<1>4. PICK newest : newest = Newest(r)
  OBVIOUS
<1>5. /\ newest \in DOMAIN registry[s] /\ registry[s] \in Seq(Entries)
      /\ newest \in Nat \ {0}
  BY <1>1, <1>2, <1>4 DEF Live, TypeOK
<1>6. /\ Sequence(plan)' = Sequence(plan) /\ \A t, v : Own(t, v)' <=> Own(t, v)
  BY <1>1 DEF Sequence, Own
<1>7. Kept /\ RegistryInv'
  BY <1>1, RegistryStays DEF RegInv
<1>8. /\ run' \in [Runs -> RunStates] /\ completed' \in BOOLEAN
      /\ \A q \in Runs \ {r} : run'[q] = run[q]
      /\ RunInv(r)' /\ CompletedInv'
  <2>1. CASE registry[s][newest].content = run[r].id
    <3>1. Own(s, newest)
      BY <1>2, <1>3, <1>5, <2>1, ContentType DEF Own
    <3>2. PICK versions : versions = [run[r].versions EXCEPT ![s] = newest]
      OBVIOUS
    <3>3. versions \in [Names -> Nat]
      BY <1>2, <1>5, <3>2
    <3>4. /\ \A n \in Names : versions[n] # 0 => Own(n, versions[n])
          /\ \A n \in Names : run[r].versions[n] # 0 => versions[n] # 0
          /\ versions[s] # 0
      BY <1>1, <1>2, <1>3, <1>5, <3>1, <3>2 DEF RunInv, NotedOwn
    <3>5. [run[r] EXCEPT !.versions[s] = newest, !.listed = {}]
            = [run[r] EXCEPT !.versions = versions, !.listed = {}]
      BY <1>2, <3>2 DEF RunStates
    <3>6. Advance(r, [run[r] EXCEPT !.versions[s] = newest, !.listed = {}])
      BY <1>4, <2>1 DEF Scan
    <3>7. Advance(r, [run[r] EXCEPT !.versions = versions, !.listed = {}])
      BY <3>5, <3>6, Zenon
    <3>8. PICK t : t = s
      OBVIOUS
    <3>9. /\ \A n \in Names : versions[n] # 0 => Own(n, versions[n])'
          /\ \E v \in DOMAIN registry'[t] : Own(t, v)'
      BY <1>1, <1>5, <1>6, <3>1, <3>4, <3>8
    <3>10. PICK none \in SUBSET Nat : none = {}
      OBVIOUS
    <3>11. Advance(r, [run[r] EXCEPT !.versions = versions, !.listed = none])
      BY <3>7, <3>10
    <3>12. /\ run[r].at <= Len(Sequence(plan)) /\ t = Current(r)
           /\ t \in Names => versions[t] # 0
      BY <1>2, <3>4, <3>8
    <3>13. \A n \in Names : run[r].versions[n] # 0 => versions[n] # 0
      BY <3>4
    <3> QED BY <1>1, <1>7, <3>3, <3>9, <3>11, <3>12, <3>13, AdvanceInv
  <2>2. CASE registry[s][newest].content # run[r].id
    <3> DEFINE next == [run[r] EXCEPT !.listed = @ \ {newest}]
    <3>1. run' = [run EXCEPT ![r] = next] /\ completed' = completed
      BY <1>4, <2>2 DEF Scan
    <3>2. /\ next \in RunStates /\ next.at = run[r].at /\ next.step = run[r].step
          /\ next.versions = run[r].versions /\ next.id = run[r].id
          /\ next.listed = run[r].listed \ {newest}
      BY <1>2 DEF RunStates
    <3> HIDE DEF next
    <3>3. /\ run' \in [Runs -> RunStates] /\ run'[r] = next
          /\ \A q \in Runs \ {r} : run'[q] = run[q]
      BY <1>1, <3>1, <3>2 DEF TypeOK
    <3>4. Current(r)' = s
      BY <1>6, <3>2, <3>3 DEF Current
    <3>5. InPlan(r)' /\ NotedOwn(r)' /\ Behind(r)'
      BY <1>1, <1>6, <3>2, <3>3 DEF RunInv, InPlan, NotedOwn, Behind
    <3>6. Seeking(r)'
      <4>1. Content(plan', s, run'[r].versions) = Content(plan, s, run[r].versions)
        BY <1>1, <3>2, <3>3 DEF Content, ReferencesOf
      <4>2. deleted = 0 => \E v \in run'[r].listed : registry[s][v].content = run'[r].id
        BY <1>3, <2>2, <3>2, <3>3
      <4> QED BY <1>1, <1>3, <3>2, <3>3, <3>4, <4>1, <4>2 DEF Seeking, Content, Working
    <3>7. CompletedInv'
      BY <1>1, <1>7, <3>1, CompletedStays DEF RegInv
    <3> QED BY <1>1, <3>1, <3>3, <3>5, <3>6, <3>7 DEF RunInv, TypeOK
  <2> QED BY <2>1, <2>2
<1>9. \A q \in Runs \ {r} : RunInv(q)'
  BY <1>1, <1>7, <1>8, RunStays DEF RegInv
<1> QED BY <1>1, <1>7, <1>8, <1>9 DEF RegInv, TypeOK

LEMMA FailInv ==
  ASSUME RegInv, NEW r \in Runs, Stop(r) \/ Break(r) \/ Rerun(r)
  PROVE  RegInv'
<1>1. /\ TypeOK /\ plan' = plan /\ registry' = registry
      /\ deleted' = deleted /\ foreign' = foreign /\ completed' = completed
  BY DEF RegInv, Stop, Break, Rerun
<1>2. \/ run' = [run EXCEPT ![r] = [NewRun EXCEPT !.step = "failed"]]
      \/ run' = [run EXCEPT ![r] = NewRun]
  BY DEF Stop, Break, Rerun, Failed
<1>3. Kept /\ RegistryInv'
  BY <1>1, RegistryStays DEF RegInv
<1>4. /\ run' \in [Runs -> RunStates] /\ RunInv(r)'
      /\ \A q \in Runs \ {r} : run'[q] = run[q]
  BY <1>1, <1>2, StartsAnew
<1>5. \A q \in Runs \ {r} : RunInv(q)'
  BY <1>1, <1>3, <1>4, RunStays DEF RegInv
<1>6. CompletedInv'
  BY <1>1, <1>3, CompletedStays DEF RegInv
<1> QED BY <1>1, <1>3, <1>4, <1>5, <1>6 DEF RegInv, TypeOK

-----------------------------------------------------------------------------
(* The actions of the others.                                              *)

LEMMA EvolveInv ==
  ASSUME RegInv, NEW s \in Subjects, Evolve(s)
  PROVE  RegInv'
<1>1. /\ TypeOK /\ plan' = plan /\ run' = run /\ deleted' = deleted
      /\ completed' = completed /\ foreign' = foreign + 1 /\ foreign' \in 1..ForeignBound
  BY BoundsAssumption DEF RegInv, TypeOK, Evolve
<1>2. PICK content : content = ForeignContent(foreign')
  OBVIOUS
<1>3. /\ content \in Contents /\ content.of # s /\ DOMAIN content.refs = {}
      /\ Adds(s, content)
  <2>1. PICK k : k = foreign'
    OBVIOUS
  <2>2. k \in 1..ForeignBound /\ content = ForeignContent(k)
    BY <1>1, <1>2, <2>1
  <2> QED BY <1>2, <2>2, ForeignType DEF Evolve, Adds
<1>4. Kept /\ RegistryInv' /\ registry' \in [Subjects -> Seq(Entries)]
  <2>1. Resolves(content) /\ \A n \in DOMAIN content.refs : n \in Subjects
    BY <1>3 DEF Resolves
  <2> QED BY <1>1, <1>3, <2>1, AddsKeeps, AddsEntry, AddsInv DEF RegInv
<1>5. \A q \in Runs : RunInv(q)'
  BY <1>1, <1>4, RunStays DEF RegInv
<1>6. CompletedInv'
  BY <1>1, <1>4, CompletedStays DEF RegInv
<1> QED BY <1>1, <1>4, <1>5, <1>6 DEF RegInv, TypeOK

LEMMA DeleteInv ==
  ASSUME RegInv, NEW s \in Subjects, NEW v \in Live(s), Delete(s, v)
  PROVE  RegInv'
<1>1. /\ TypeOK /\ plan' = plan /\ run' = run /\ foreign' = foreign
      /\ completed' = completed /\ deleted' = deleted + 1
  BY DEF RegInv, Delete
<1>2. /\ v \in DOMAIN registry[s] /\ registry' = [registry EXCEPT ![s][v].live = FALSE]
  BY DEF Delete, Live
<1>3. Kept /\ RegistryInv' /\ registry' \in [Subjects -> Seq(Entries)]
  BY <1>1, <1>2, DeletesInv, DeletesEntry DEF RegInv
<1>4. \A q \in Runs : RunInv(q)'
  BY <1>1, <1>3, RunStays DEF RegInv, TypeOK
<1>5. CompletedInv'
  BY <1>1, <1>3, CompletedStays DEF RegInv
<1> QED BY <1>1, <1>3, <1>4, <1>5 DEF RegInv, TypeOK

(* Nothing is registered while the plan may still change, so nothing that  *)
(* depends on it is lost.                                                  *)
LEMMA DrawPlanInv ==
  ASSUME RegInv, DrawPlan
  PROVE  RegInv'
<1>1. /\ TypeOK /\ plan' \in Plan /\ registry' = registry /\ run' = run
      /\ deleted' = deleted /\ foreign' = foreign /\ completed' = FALSE
  BY DEF RegInv, DrawPlan
<1>2. \A s \in Subjects : registry'[s] = <<>> /\ DOMAIN registry'[s] = {} /\ Live(s)' = {}
  BY <1>1 DEF DrawPlan, Live
<1>3. RegistryInv'
  BY <1>2 DEF RegistryInv, OwnReferOwn, LiveResolve, AllLive, OwnOnce
<1>4. ASSUME NEW r \in Runs PROVE RunInv(r)'
  <2>1. /\ run'[r].at = 1 /\ run'[r].step = "create"
        /\ \A n \in Names : run'[r].versions[n] = 0
    BY <1>1 DEF DrawPlan, NewRun
  <2>2. PICK p : p = plan'
    OBVIOUS
  <2>3. Len(Sequence(p)) \in Nat \ {0}
    BY <1>1, <2>2, SequenceType
  <2>4. Sequence(plan)' = Sequence(p)
    BY <2>2 DEF Sequence
  <2> QED BY <2>1, <2>3, <2>4 DEF RunInv, InPlan, NotedOwn, Behind, Seeking
<1> QED BY <1>1, <1>3, <1>4 DEF RegInv, CompletedInv, TypeOK

LEMMA StutterInv ==
  ASSUME RegInv, UNCHANGED vars
  PROVE  RegInv'
<1>1. Kept /\ RegistryInv'
  BY RegistryStays DEF RegInv, vars
<1>2. TypeOK /\ TypeOK' /\ Kept /\ RegistryInv'
  BY <1>1 DEF RegInv, TypeOK, vars
<1>3. \A q \in Runs : RunInv(q)'
  BY <1>2, RunStays DEF RegInv, vars
<1>4. CompletedInv'
  BY <1>2, CompletedStays DEF RegInv, vars
<1> QED BY <1>2, <1>3, <1>4 DEF RegInv, TypeOK, vars

LEMMA RegStep ==
  ASSUME RegInv, [Next \/ DrawPlan]_vars
  PROVE  RegInv'
<1>1. ASSUME NEW r \in Runs, RunStep(r) PROVE RegInv'
  <2>1. CASE Create(r) BY <2>1, CreateInv
  <2>2. CASE List(r) BY <2>2, ListInv
  <2>3. CASE Scan(r) BY <2>3, ScanInv
  <2>4. CASE Stop(r) \/ Break(r) \/ Rerun(r) BY <2>4, FailInv
  <2> QED BY <1>1, <2>1, <2>2, <2>3, <2>4 DEF RunStep
<1>2. CASE OtherStep
  BY <1>2, EvolveInv, DeleteInv DEF OtherStep
<1>3. CASE DrawPlan
  BY <1>3, DrawPlanInv
<1>4. CASE UNCHANGED vars
  BY <1>4, StutterInv
<1> QED BY <1>1, <1>2, <1>3, <1>4 DEF Next

-----------------------------------------------------------------------------
(* The theorems.                                                           *)

(* A plan fixed from the start is one that was drawn up at the start.      *)
LEMMA FixedPlan == Spec => DrawnSpec
<1>1. [Next]_vars => [Next \/ DrawPlan]_vars
  OBVIOUS
<1> QED BY <1>1, PTL DEF Spec, DrawnSpec

(* The registry and every run stay as the inductive invariant describes    *)
(* them, from drawing up the plan on, whatever the runs and the other      *)
(* clients of the registry do.                                             *)
THEOREM RegistrationInvariant == DrawnSpec => []RegInv
<1>1. Init => RegInv
  BY InitInv
<1>2. RegInv /\ [Next \/ DrawPlan]_vars => RegInv'
  BY RegStep
<1> QED BY <1>1, <1>2, PTL DEF DrawnSpec

(* registerSubjects never registers a schema that refers to anything but   *)
(* live versions which are this tool's own definitions of what is referred *)
(* to, for any plan: also one that lists a subject before its references,  *)
(* which is then refused and not registered.                               *)
THEOREM ReferencesCorrect == DrawnSpec => []ReferencesSound
<1>1. RegInv => ReferencesSound
  <2> SUFFICES ASSUME RegInv, NEW s \in Subjects, NEW v \in Live(s),
                      registry[s][v].content.of = s,
                      NEW n \in RangeOf(ReferencesOf(plan, s))
               PROVE  /\ registry[s][v].content.refs[n] \in Live(n)
                      /\ registry[n][registry[s][v].content.refs[n]].content.of = n
    BY DEF ReferencesSound
  <2>1. v \in DOMAIN registry[s]
    BY DEF Live
  <2>2. /\ n \in DOMAIN registry[s][v].content.refs
        /\ Own(n, registry[s][v].content.refs[n])
    BY <2>1 DEF RegInv, RegistryInv, OwnReferOwn
  <2>3. registry[s][v].content.refs[n] \in Live(n)
    BY <2>2 DEF RegInv, RegistryInv, LiveResolve, Resolves
  <2> QED BY <2>2, <2>3 DEF Own
<1> QED BY <1>1, RegistrationInvariant, PTL

(* Each schema of the plan comes after the ones it refers to.              *)
InOrder(p) ==
  \A j \in DOMAIN Sequence(p) :
    \A n \in RangeOf(ReferencesOf(p, Sequence(p)[j])) :
      \E i \in 1..(j - 1) : Sequence(p)[i] = n

(* A run of a plan in order is turned away for a reference or a version    *)
(* only if somebody deleted one.                                           *)
LEMMA InOrderGoesThrough ==
  ASSUME RegInv, InOrder(plan)
  PROVE  RefusedOnlyAfterDelete
<1> SUFFICES ASSUME deleted = 0, NEW r \in Runs, Refused(r) PROVE FALSE
  BY DEF RefusedOnlyAfterDelete
<1> DEFINE s == Current(r)
           content == Content(plan, s, run[r].versions)
<1>1. run[r].at <= Len(Sequence(plan))
  BY DEF Refused, Working
<1>2. /\ TypeOK /\ RunInv(r) /\ plan \in Plan /\ InOrder(plan)
      /\ run[r].versions \in [Names -> Nat]
      /\ run[r].at \in 1..Len(Sequence(plan)) /\ s \in Subjects
  BY <1>1, CurrentType DEF RegInv, TypeOK
<1>3. \A t \in Subjects : Live(t) = DOMAIN registry[t]
  BY DEF RegInv, RegistryInv, AllLive, Live
<1>4. CASE run[r].step = "create" /\ ~Resolves(content)
  <2>1. /\ DOMAIN content.refs = RangeOf(ReferencesOf(plan, s))
        /\ \A n \in DOMAIN content.refs :
             n \in Names /\ content.refs[n] = run[r].versions[n]
    BY <1>2, ContentType
  <2>2. PICK n \in DOMAIN content.refs : content.refs[n] \notin Live(n)
    BY <1>4 DEF Resolves
  <2>3. n \in Names /\ n \in Subjects /\ content.refs[n] = run[r].versions[n]
    BY <2>1 DEF Subjects
  <2>4. run[r].at \in DOMAIN Sequence(plan)
    BY <1>2, SequenceType
  <2>5. PICK i \in 1..(run[r].at - 1) : Sequence(plan)[i] = n
    BY <1>2, <2>1, <2>4 DEF InOrder, Current
  <2>6. run[r].versions[n] # 0
    BY <1>2, <2>3, <2>5 DEF RunInv, Behind
  <2>7. Own(n, run[r].versions[n])
    BY <1>2, <2>3, <2>6 DEF RunInv, NotedOwn
  <2> QED BY <1>3, <2>2, <2>3, <2>7 DEF Own
<1>5. CASE run[r].step = "scan"
  <2>1. /\ run[r].listed \subseteq DOMAIN registry[s]
        /\ \E v \in run[r].listed : registry[s][v].content = run[r].id
    BY <1>2, <1>5 DEF RunInv, Seeking
  <2>2. Newest(r) \in run[r].listed
    BY <1>2, <1>5, <2>1, NewestListed
  <2>3. Newest(r) \in Live(s)
    BY <1>2, <1>3, <2>1, <2>2
  <2> QED BY <1>5, <2>1, <2>3 DEF Refused, Working
<1> QED BY <1>4, <1>5 DEF Refused, Working

(* Once a run has registered everything, no run adds a version: what it    *)
(* would add is what the first one added, down to the versions referred    *)
(* to, however many versions of other clients have come in between.        *)
THEOREM IdempotentCorrect == DrawnSpec => RerunAddsNothing
<1>1. RegInv /\ [Next \/ DrawPlan]_vars
        => [completed /\ deleted' = 0 /\ foreign' = foreign => registry' = registry]_vars
  <2> SUFFICES ASSUME RegInv, Next \/ DrawPlan,
                      completed, deleted' = 0, foreign' = foreign
               PROVE  registry' = registry
    BY DEF vars
  <2>1. ASSUME NEW r \in Runs, Create(r) PROVE registry' = registry
    <3>1. deleted = 0 /\ Working(r, "create")
          /\ Resolves(Content(plan, Current(r), run[r].versions))
      BY <2>1 DEF Create
    <3>2. TypeOK /\ RegistryInv /\ RunInv(r) /\ CompletedInv
      BY DEF RegInv
    <3>3. run[r].at \in DOMAIN Sequence(plan)
      BY <3>1, <3>2, CurrentType, SequenceType DEF Working
    <3>4. PICK v : Own(Current(r), v)
      BY <3>2, <3>3 DEF CompletedInv, Current
    <3>5. HeldAt(Current(r), Content(plan, Current(r), run[r].versions)) # {}
      BY <3>1, <3>2, <3>4, OwnIsHeld
    <3> QED BY <2>1, <3>5 DEF Create
  <2>2. ASSUME NEW r \in Runs, List(r) \/ Scan(r) \/ Stop(r) \/ Break(r) \/ Rerun(r)
        PROVE  registry' = registry
    BY <2>2 DEF List, Scan, Stop, Break, Rerun
  <2>3. ASSUME NEW s \in Subjects, Evolve(s) PROVE registry' = registry
    BY <2>3 DEF Evolve, RegInv, TypeOK
  <2>4. ASSUME NEW s \in Subjects, NEW v \in Live(s), Delete(s, v) PROVE registry' = registry
    BY <2>4 DEF Delete, RegInv, TypeOK
  <2>5. CASE DrawPlan
    BY <2>5 DEF DrawPlan
  <2> QED BY <2>1, <2>2, <2>3, <2>4, <2>5 DEF Next, RunStep, OtherStep
<1> QED BY <1>1, RegistrationInvariant, PTL DEF DrawnSpec, RerunAddsNothing

-----------------------------------------------------------------------------
(* The tool's own plans.                                                   *)

(* The value schema comes after the subjects, and the key's refers to      *)
(* nothing, so what is in order among the subjects is in order.            *)
LEMMA SequenceInOrder ==
  ASSUME NEW p \in Plan,
         \A i \in DOMAIN p.subjects :
           RangeOf(p.refs[p.subjects[i]]) \subseteq {p.subjects[j] : j \in 1..(i - 1)},
         RangeOf(p.branches) \subseteq RangeOf(p.subjects)
  PROVE  InOrder(p)
<1> DEFINE key == IF p.keyed THEN <<Key>> ELSE <<>>
           n == Len(p.subjects)
           s == Sequence(p)
<1>1. /\ p.subjects \in Seq(Names) /\ n \in Nat /\ DOMAIN p.subjects = 1..n
      /\ \A i \in 1..n : p.subjects[i] \in Names
  BY DEF Plan
<1>2. key \in Seq({Key}) /\ Len(key) \in Nat
  <2>1. CASE p.keyed
    BY <2>1
  <2>2. CASE ~p.keyed
    BY <2>2
  <2> QED BY <2>1, <2>2
<1>3. s = (p.subjects \o <<Value>>) \o key
  BY Zenon DEF Sequence
<1>4. /\ \A i \in 1..n : s[i] = p.subjects[i]
      /\ s[n + 1] = Value
      /\ \A i \in DOMAIN s : i \in 1..n \/ i = n + 1 \/ s[i] = Key
  <2> HIDE DEF key
  <2>1. PICK t : t = p.subjects \o <<Value>>
    OBVIOUS
  <2>2. /\ t \in Seq(Names \cup {Value}) /\ Len(t) = n + 1
        /\ \A i \in 1..n : t[i] = p.subjects[i]
        /\ t[n + 1] = Value
    BY <1>1, <2>1
  <2>3. /\ DOMAIN s = 1..((n + 1) + Len(key)) /\ s = t \o key
        /\ \A i \in 1..((n + 1) + Len(key)) :
             s[i] = IF i <= n + 1 THEN t[i] ELSE key[i - (n + 1)]
    BY <1>2, <1>3, <2>1, <2>2
  <2>4. /\ \A i \in 1..n : i \in 1..((n + 1) + Len(key)) /\ i <= n + 1
        /\ n + 1 \in 1..((n + 1) + Len(key)) /\ n + 1 <= n + 1
    BY <1>1, <1>2
  <2>5. \A i \in 1..((n + 1) + Len(key)) :
          ~(i <= n + 1) => i - (n + 1) \in 1..Len(key)
    BY <1>1, <1>2
  <2>6. \A i \in 1..((n + 1) + Len(key)) : i <= n + 1 => i \in 1..n \/ i = n + 1
    BY <1>1, <1>2
  <2>7. \A i \in 1..Len(key) : key[i] = Key
    BY <1>2
  <2>8. \A i \in 1..n : s[i] = p.subjects[i]
    BY <2>2, <2>3, <2>4
  <2>9. s[n + 1] = Value
    BY <2>2, <2>3, <2>4
  <2> QED BY <2>3, <2>5, <2>6, <2>7, <2>8, <2>9
<1> HIDE DEF n, s
<1>5. ASSUME NEW j \in DOMAIN s, NEW t \in RangeOf(ReferencesOf(p, s[j]))
      PROVE  \E i \in 1..(j - 1) : s[i] = t
  <2>1. CASE j \in 1..n
    <3>1. s[j] = p.subjects[j] /\ s[j] \in Names
      BY <1>1, <1>4, <2>1
    <3>2. ReferencesOf(p, s[j]) = p.refs[p.subjects[j]]
      BY <3>1, NamesAssumption DEF ReferencesOf
    <3>3. RangeOf(p.refs[p.subjects[j]]) \subseteq {p.subjects[i] : i \in 1..(j - 1)}
      BY <1>1, <2>1
    <3>4. PICK i \in 1..(j - 1) : p.subjects[i] = t
      BY <3>2, <3>3
    <3>5. i \in 1..n
      BY <1>1, <2>1
    <3> QED BY <1>4, <3>4, <3>5
  <2>2. CASE j = n + 1
    <3>1. ReferencesOf(p, s[j]) = p.branches
      BY <1>4, <2>2 DEF ReferencesOf
    <3>2. PICK i \in 1..n : p.subjects[i] = t
      BY <1>1, <3>1 DEF RangeOf
    <3>3. i \in 1..(j - 1)
      BY <1>1, <2>2
    <3> QED BY <1>4, <3>2, <3>3
  <2>3. CASE s[j] = Key
    BY <2>3, NamesAssumption DEF ReferencesOf, RangeOf
  <2> QED BY <1>4, <2>1, <2>2, <2>3
<1> QED BY <1>5 DEF InOrder, s

(* What Drawn makes of what is rendered.                                   *)
LEMMA DrawnIs ==
  ASSUME NEW p \in Plan, NEW c \in Composition, NEW ss \in Seq(SubjectRecord)
  PROVE  /\ Drawn(p, c, ss) \in Plan
         /\ Drawn(p, c, ss).branches = c.roots
         /\ Drawn(p, c, ss).subjects = [i \in DOMAIN ss |-> ss[i].name]
         /\ (\A i, j \in DOMAIN ss : ss[i].name = ss[j].name => i = j)
              => \A i \in DOMAIN ss : Drawn(p, c, ss).refs[ss[i].name] = ss[i].refs
<1> DEFINE At(t) == CHOOSE i \in DOMAIN ss : ss[i].name = t
           names == [i \in DOMAIN ss |-> ss[i].name]
           refs  == [t \in Names |-> IF \E i \in DOMAIN ss : ss[i].name = t
                                     THEN ss[At(t)].refs ELSE <<>>]
<1>1. \A i \in DOMAIN ss : ss[i].name \in Names /\ ss[i].refs \in Seq(Names)
  <2>1. \A i \in DOMAIN ss : ss[i] \in SubjectRecord
    OBVIOUS
  <2> QED BY <2>1 DEF SubjectRecord
<1>2. names \in Seq(Names)
  BY <1>1
<1>3. \A t \in Names : (\E i \in DOMAIN ss : ss[i].name = t) =>
        At(t) \in DOMAIN ss /\ ss[At(t)].name = t
  OBVIOUS
<1>4. refs \in [Names -> Seq(Names)]
  BY <1>1, <1>3
<1>5. c.roots \in Seq(Names)
  BY DEF Composition
<1>6. Drawn(p, c, ss) = [p EXCEPT !.subjects = names, !.branches = c.roots, !.refs = refs]
  BY Zenon DEF Drawn
<1>7. ASSUME \A i, j \in DOMAIN ss : ss[i].name = ss[j].name => i = j, NEW i \in DOMAIN ss
      PROVE  refs[ss[i].name] = ss[i].refs
  <2>1. At(ss[i].name) = i
    BY <1>1, <1>3, <1>7
  <2> QED BY <1>1, <2>1
<1> HIDE DEF names, refs
<1>8. /\ Drawn(p, c, ss) \in Plan /\ Drawn(p, c, ss).branches = c.roots
      /\ Drawn(p, c, ss).subjects = names /\ Drawn(p, c, ss).refs = refs
  BY <1>2, <1>4, <1>5, <1>6 DEF Plan
<1> QED BY <1>7, <1>8 DEF names

(* The plan the runs hold is the one that is drawn up, and empty until it  *)
(* is; nothing registers before it is handed over.                         *)
PlanIsDrawn ==
  IF Several /\ stage = "planned"
  THEN /\ plan.subjects = order
       /\ plan.branches = composition.roots
       /\ \A i \in DOMAIN order : plan.refs[order[i]] = subjects[i].refs
  ELSE plan.subjects = <<>> /\ plan.branches = <<>>

NothingRegistered ==
  /\ registry = [s \in Subjects |-> <<>>]
  /\ run = [r \in Runs |-> NewRun]
  /\ completed = FALSE

HandOver ==
  /\ ~Several => stage = "compose"
  /\ ~opened => NothingRegistered
  /\ opened /\ Several => stage = "planned"

UnionInv == RegInv /\ PlanInv /\ PlanIsDrawn /\ HandOver

LEMMA PlanNextMoves ==
  ASSUME PlanNext
  PROVE  stage # "planned" /\ composition' = composition
BY DEF PlanNext, Compose, RefuseToCompose, Refuse, Skip, Enter, CloseCycle, ToVisit, Leave,
       Look, Looked, Ordered, Ref, Rendered

LEMMA UnionInitInv == UnionInit => UnionInv
<1> SUFFICES ASSUME UnionInit PROVE UnionInv
  OBVIOUS
<1>1. RegInv /\ PlanInv
  BY InitInv, PlanInitInv DEF UnionInit
<1>2. PlanIsDrawn /\ HandOver
  BY DEF UnionInit, Init, PlanInit, PlanIsDrawn, HandOver, NothingRegistered
<1> QED BY <1>1, <1>2 DEF UnionInv

LEMMA DrawUpInv ==
  ASSUME UnionInv, DrawUp
  PROVE  UnionInv' /\ DrawPlan
<1>1. /\ Several /\ PlanNext /\ RegInv /\ PlanInv /\ PlanIsDrawn /\ HandOver
      /\ stage # "planned" /\ composition' = composition /\ Several'
  BY PlanNextMoves DEF UnionInv, DrawUp, Several
<1>2. ~opened /\ NothingRegistered /\ ~opened' /\ NothingRegistered'
  BY <1>1 DEF HandOver, DrawUp, NothingRegistered
<1>3. PlanInv'
  BY <1>1, PlanStep
<1>4. /\ plan \in Plan /\ composition \in Composition
      /\ plan.subjects = <<>> /\ plan.branches = <<>>
  BY <1>1 DEF PlanIsDrawn, RegInv, TypeOK, PlanInv, PlanTypeOK
<1>5. plan' \in Plan /\ PlanIsDrawn'
  <2>1. CASE stage' = "planned"
    <3>1. plan' = Drawn(plan, composition, subjects')
      BY <2>1 DEF DrawUp
    <3>2. PICK ss : ss = subjects'
      OBVIOUS
    <3>3. /\ ss \in Seq(SubjectRecord) /\ order' \in Seq(Names)
          /\ Len(ss) = Len(order') /\ IsInjective(order')
          /\ \A i \in DOMAIN ss : ss[i].name = order'[i]
      BY <1>3, <2>1, <3>2 DEF PlanInv, PlanTypeOK, StageInv, DoneInv, RenderedInv, Exact
    <3>4. DOMAIN ss = DOMAIN order'
      BY <3>3
    <3>5. \A i, j \in DOMAIN ss : ss[i].name = ss[j].name => i = j
      BY <3>3, <3>4 DEF IsInjective
    <3>6. [i \in DOMAIN ss |-> ss[i].name] = order'
      BY <3>3, <3>4
    <3>7. /\ plan' \in Plan /\ plan'.branches = composition'.roots
          /\ plan'.subjects = order'
          /\ \A i \in DOMAIN ss : plan'.refs[ss[i].name] = ss[i].refs
      BY <1>1, <1>4, <3>1, <3>2, <3>3, <3>5, <3>6, DrawnIs
    <3>8. \A i \in DOMAIN order' : plan'.refs[order'[i]] = subjects'[i].refs
      BY <3>2, <3>3, <3>4, <3>7
    <3> QED BY <1>1, <2>1, <3>7, <3>8 DEF PlanIsDrawn
  <2>2. CASE stage' # "planned"
    BY <1>4, <2>2 DEF DrawUp, PlanIsDrawn
  <2> QED BY <2>1, <2>2
<1>6. DrawPlan
  BY <1>2, <1>5 DEF DrawPlan, DrawUp, NothingRegistered
<1>7. RegInv'
  BY <1>1, <1>6, RegStep
<1>8. HandOver'
  BY <1>1, <1>2 DEF HandOver
<1> QED BY <1>3, <1>5, <1>6, <1>7, <1>8 DEF UnionInv

LEMMA PlanIsKept ==
  ASSUME UnionInv, UNCHANGED <<plan, planVars>>
  PROVE  PlanInv' /\ PlanIsDrawn' /\ (Several' <=> Several) /\ stage' = stage
<1>1. UNCHANGED <<plan, composition, stage, order, subjects>>
  BY DEF planVars, ordering
<1>2. PlanInv'
  BY PlanStutterInv DEF UnionInv
<1> QED BY <1>1, <1>2 DEF UnionInv, PlanIsDrawn, Several

LEMMA OpenInv ==
  ASSUME UnionInv, Open
  PROVE  UnionInv'
<1>1. PlanInv' /\ PlanIsDrawn' /\ (Several' <=> Several) /\ stage' = stage
  BY PlanIsKept DEF Open, vars
<1>2. RegInv'
  BY StutterInv DEF UnionInv, Open
<1>3. HandOver'
  BY <1>1 DEF UnionInv, Open, HandOver
<1> QED BY <1>1, <1>2, <1>3 DEF UnionInv

LEMMA RegisterInv ==
  ASSUME UnionInv, Register
  PROVE  UnionInv' /\ Next
<1>1. opened /\ opened' /\ UNCHANGED planVars
  BY DEF Register
<1>2. Next
  BY DEF Register, Next, RunStep
<1>3. plan' = plan
  BY DEF Register, Create, List, Scan, Stop, Break, Rerun, OtherStep, Evolve, Delete
<1>4. PlanInv' /\ PlanIsDrawn' /\ (Several' <=> Several) /\ stage' = stage
  BY <1>1, <1>3, PlanIsKept
<1>5. RegInv'
  BY <1>2, RegStep DEF UnionInv
<1>6. HandOver'
  BY <1>1, <1>4 DEF UnionInv, HandOver
<1> QED BY <1>2, <1>4, <1>5, <1>6 DEF UnionInv

(* The whole stays as its parts do, and the plan that is registered is the *)
(* one planUnion drew up, handed over before anything is registered.       *)
THEOREM UnionInvariant == UnionSpec => []UnionInv
<1>1. UnionInit => UnionInv
  BY UnionInitInv
<1>2. UnionInv /\ [UnionNext]_unionVars => UnionInv'
  <2> SUFFICES ASSUME UnionInv, [UnionNext]_unionVars PROVE UnionInv'
    OBVIOUS
  <2>1. CASE UNCHANGED unionVars
    <3>1. UNCHANGED <<vars, planVars, opened>>
      BY <2>1 DEF unionVars
    <3>2. PlanInv' /\ PlanIsDrawn' /\ (Several' <=> Several) /\ stage' = stage
      BY <3>1, PlanIsKept DEF vars
    <3>3. RegInv'
      BY <3>1, StutterInv DEF UnionInv
    <3>4. HandOver'
      BY <3>1, <3>2 DEF UnionInv, HandOver, NothingRegistered, vars
    <3> QED BY <3>2, <3>3, <3>4 DEF UnionInv
  <2> QED BY <2>1, DrawUpInv, OpenInv, RegisterInv DEF UnionNext
<1> QED BY <1>1, <1>2, PTL DEF UnionSpec

(* The run of the tool plans as planUnion does...                          *)
THEOREM PlansAsPlanned == UnionSpec => PlanSpec
<1>1. UnionInit => PlanInit
  BY DEF UnionInit
<1>2. [UnionNext]_unionVars => [PlanNext]_planVars
  BY DEF UnionNext, DrawUp, Open, Register, unionVars
<1> QED BY <1>1, <1>2, PTL DEF UnionSpec, PlanSpec

(* ...and registers the plan as the Encoder does, which takes it as given. *)
THEOREM RegistersAsDrawn == UnionSpec => DrawnSpec
<1>1. UnionInit => Init
  BY DEF UnionInit
<1>2. UnionInv /\ [UnionNext]_unionVars => [Next \/ DrawPlan]_vars
  BY DrawUpInv, RegisterInv DEF UnionNext, Open, unionVars
<1> QED BY <1>1, <1>2, UnionInvariant, PTL DEF UnionSpec, DrawnSpec

(* A run of several Avro Message types is turned away for a reference or a *)
(* version only if somebody deleted one, whatever the types: the plan      *)
(* planUnion draws up always registers what a schema needs before it.      *)
THEOREM TurnedAwayCorrect == UnionSpec => []RefusedOnlyAfterDelete
<1>1. UnionInv => InOrder(plan)
  <2> SUFFICES ASSUME UnionInv PROVE InOrder(plan)
    OBVIOUS
  <2>1. plan \in Plan /\ PlanInv /\ PlanTypeOK /\ order \in Seq(Names)
    BY DEF UnionInv, RegInv, TypeOK, PlanInv, PlanTypeOK
  <2>2. PICK p : p = plan
    OBVIOUS
  <2>3. /\ \A i \in DOMAIN p.subjects :
             RangeOf(p.refs[p.subjects[i]]) \subseteq {p.subjects[j] : j \in 1..(i - 1)}
        /\ RangeOf(p.branches) \subseteq RangeOf(p.subjects)
    <3>1. CASE Several /\ stage = "planned"
      <4>1. /\ p.subjects = order /\ p.branches = composition.roots
            /\ \A i \in DOMAIN order : p.refs[order[i]] = subjects[i].refs
        BY <2>2, <3>1 DEF UnionInv, PlanIsDrawn
      <4>2. /\ RangeOf(order) = Registered
            /\ \A i \in DOMAIN order :
                 NeedsOf[order[i]] \subseteq {order[j] : j \in 1..(i - 1)}
        BY <2>1, <3>1, NoneLeftOut DEF PlanInv, DoneInv
      <4>3. \A i \in DOMAIN order : i \in DOMAIN subjects
        BY <2>1, <3>1 DEF PlanInv, PlanTypeOK, StageInv
      <4>4. \A i \in DOMAIN order : RangeOf(subjects[i].refs) = NeedsOf[order[i]]
        BY <2>1, <3>1, <4>3 DEF PlanInv, RenderedInv, Exact
      <4>5. \A i \in DOMAIN order :
              RangeOf(p.refs[order[i]]) \subseteq {order[j] : j \in 1..(i - 1)}
        BY <4>1, <4>2, <4>4
      <4> QED BY <4>1, <4>2, <4>5 DEF Registered
    <3>2. CASE ~(Several /\ stage = "planned")
      <4>1. p.subjects = <<>> /\ p.branches = <<>>
        BY <2>2, <3>2 DEF UnionInv, PlanIsDrawn
      <4> QED BY <4>1 DEF RangeOf
    <3> QED BY <3>1, <3>2
  <2>4. p \in Plan
    BY <2>1, <2>2
  <2>5. InOrder(p)
    BY <2>3, <2>4, SequenceInOrder, Zenon
  <2> QED BY <2>2, <2>5
<1>2. UnionInv => RefusedOnlyAfterDelete
  BY <1>1, InOrderGoesThrough DEF UnionInv
<1> QED BY <1>2, UnionInvariant, PTL

(* Whatever the Message types, a run of the tool registers in an order by  *)
(* need, refuses a cycle and nothing but a cycle, and names as references  *)
(* exactly what each schema needs: planUnion does, and the run plans as    *)
(* planUnion does.                                                         *)
THEOREM UnionPlanCorrect ==
  UnionSpec => [](OrderedByNeed /\ CycleRefusedExactly /\ ReferencesExact)
BY PlansAsPlanned, OrderCorrect, CycleCorrect, ReferencesRight, PTL

(* What it registers refers to what it was built against, and registering  *)
(* again adds nothing, among failures, repetitions and other clients.      *)
THEOREM UnionRegistrationCorrect ==
  UnionSpec => []ReferencesSound /\ RerunAddsNothing
BY RegistersAsDrawn, ReferencesCorrect, IdempotentCorrect, PTL
=============================================================================
